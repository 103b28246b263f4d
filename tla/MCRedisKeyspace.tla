--------------------------- MODULE MCRedisKeyspace ---------------------------
(* Instances of RedisKeyspace for TLC.                                     *)
EXTENDS RedisKeyspace

(* Range arguments from beyond the left to beyond the right end of a list. *)
MCBounds == -3..2

MCAmounts == {-1, 1, 4, 7}

MCNumbers == {-8, 1, 7}

(* No command depends on the one before it, so states that differ only in  *)
(* the last reply behave alike; what the properties say of a reply they    *)
(* say of the step that gives it.                                          *)
Keyspace == <<db, now>>
=============================================================================
