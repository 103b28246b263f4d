-------------------------- MODULE MCBackendManifest --------------------------
(* Instances of BackendManifest: an explicit open next to the default one, *)
(* and both next to a native module.                                       *)
EXTENDS BackendManifest, TLC

CONSTANTS leveldb, mem, memdb

Explicit(D) == [driver : D, explicit : {TRUE}]
Default == {[driver |-> RocksDB, explicit |-> FALSE]}

MCDefault == Explicit({leveldb}) \cup Default
MCAll == Explicit({RocksDB, leveldb, mem, memdb}) \cup Default

Symmetric == Permutations(Processes)
=============================================================================
