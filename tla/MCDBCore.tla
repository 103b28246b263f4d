------------------------------ MODULE MCDBCore ------------------------------
(* Instances of DBCore and DBScalar for TLC.                               *)
EXTENDS DBScalar

CONSTANTS a, b

(* Every push brings the same two items.                                   *)
OneBatch == {<<a, b>>}
=============================================================================
