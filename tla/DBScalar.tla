------------------------------ MODULE DBScalar ------------------------------
(***************************************************************************)
(* The operations of DBCore implement the register of LogicalValue.  A Put *)
(* is still invisible while it deletes the old records: until it stores    *)
(* the new value, the register holds the value that Put found.             *)
(***************************************************************************)
EXTENDS DBCore

ScalarCall(c) == op[c].name \in {"Put", "Delete", "Get"}

Replacing(c) == pc[c] = "purge" /\ op[c].name = "Put"

Visible ==
  IF \E c \in Procs : Replacing(c)
  THEN got[CHOOSE c \in Procs : Replacing(c)]
  ELSE store["value"]

(* A Delete is done once the value is gone, a Get once it has seen that    *)
(* the value has expired.                                                  *)
Done(c) ==
  \/ pc[c] = "purge" /\ op[c].name = "Delete" /\ "value" \notin todo[c]
  \/ pc[c] = "lazy"

PhaseOf(c) ==
  IF ~ScalarCall(c) THEN "idle"
  ELSE IF op[c].name = "Put" /\ pc[c] # "lockProtocol" THEN "stamped"
  ELSE IF Done(c) THEN "done"
  ELSE "called"

Value == IF envelopeExpired(Visible) THEN Absent ELSE Visible
CallOf(c) == IF ScalarCall(c) THEN op[c] ELSE NoCall
EnvOf(c) == IF ScalarCall(c) THEN env[c] ELSE Absent

Phases == [c \in Procs |-> PhaseOf(c)]
Calls == [c \in Procs |-> CallOf(c)]
Encoded == [c \in Procs |-> EnvOf(c)]

Register ==
  INSTANCE LogicalValue WITH
    val <- Value, phase <- Phases, req <- Calls, env <- Encoded, answer <- reply

(* db.go:24-26: protocolMu makes scalar replacement coherent.  Get, Has,   *)
(* Put and Delete are atomic and exact about expiry, with any collection   *)
(* call in between, through failed engine calls and a Close.               *)
ScalarIsRegister == Register!Spec
=============================================================================
