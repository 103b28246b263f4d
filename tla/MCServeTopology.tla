--------------------------- MODULE MCServeTopology ---------------------------
(* Instances of ServeTopology for TLC.                                     *)
EXTENDS ServeTopology

OneAuxiliary == <<"auxiliary">>
=============================================================================
