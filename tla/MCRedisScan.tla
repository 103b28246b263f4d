----------------------------- MODULE MCRedisScan -----------------------------
(* Instances of RedisScan for TLC.                                         *)
EXTENDS RedisScan

(* The whole list and nothing.                                             *)
MCBounds == {-1, 0}

ShortAmounts == {1}

(* Of the last command the walk needs to know only whether it was a SCAN;  *)
(* what the other properties say of a reply they say of the step that      *)
(* gives it.                                                               *)
Walk == <<db, now, walk, last.cmd = "SCAN">>

(* The second key stays a string without expiry.                           *)
SecondIsPlain ==
  /\ db[2].list = Absent /\ FieldsOf(db[2]) = {} /\ db[2].set = {} /\ db[2].ttl = 0
  /\ db[2].value # Absent => db[2].value.exp = 0
=============================================================================
