---------------------------- MODULE LogicalValue ----------------------------
(***************************************************************************)
(* What a DB promises about the scalar of one logical key: a register with *)
(* an expiry.  A call takes effect at one instant between its invocation   *)
(* and its return; a value is there until it is replaced, removed, or its  *)
(* expiry is reached, and not an instant longer; a call that fails may     *)
(* have removed the old value, but has not stored a new one.               *)
(***************************************************************************)
EXTENDS Naturals

CONSTANTS Procs, Requests, Absent, None, NoCall, Ok, Err

VARIABLES val,      \* the live value: an envelope or Absent
          now,      \* the clock
          phase,    \* of a call: "idle", "called", "stamped", "done"
          req,      \* the call under way
          env,      \* the envelope a Put will store
          answer    \* the result the last step gave to a caller, if any

avars == <<val, now, phase, req, env, answer>>

Live(e, t) == IF e # Absent /\ e.exp > 0 /\ t >= e.exp THEN Absent ELSE e

NoAnswer == [to |-> None]
Silent == answer' = NoAnswer

Init ==
  /\ val = Absent
  /\ now = 1
  /\ phase = [c \in Procs |-> "idle"]
  /\ req = [c \in Procs |-> NoCall]
  /\ env = [c \in Procs |-> Absent]
  /\ answer = NoAnswer

Become(c, p) == phase' = [phase EXCEPT ![c] = p]

Answer(c, a) ==
  /\ Become(c, "idle")
  /\ answer' = [to |-> c, result |-> a]
  /\ req' = [req EXCEPT ![c] = NoCall]
  /\ env' = [env EXCEPT ![c] = Absent]

Invoke(c) ==
  /\ phase[c] = "idle"
  /\ Become(c, "called")
  /\ \E q \in Requests : req' = [req EXCEPT ![c] = q]
  /\ UNCHANGED <<val, now, env>> /\ Silent

(* A Put's TTL starts to run at some instant before the Put takes effect.  *)
Stamp(c) ==
  /\ phase[c] = "called" /\ req[c].name = "Put"
  /\ Become(c, "stamped")
  /\ env' = [env EXCEPT ![c] =
       [data |-> req[c].data, exp |-> IF req[c].ttl > 0 THEN now + req[c].ttl ELSE 0]]
  /\ UNCHANGED <<val, now, req>> /\ Silent

Write(c) ==
  /\ phase[c] = "stamped"
  /\ val' = Live(env[c], now)
  /\ Answer(c, Ok)
  /\ UNCHANGED now

Remove(c) ==
  /\ phase[c] = "called" /\ req[c].name = "Delete"
  /\ Become(c, "done")
  /\ val' = Absent
  /\ UNCHANGED <<now, req, env>> /\ Silent

Lookup(c) ==
  /\ phase[c] = "called" /\ req[c].name = "Get"
  /\ Answer(c, val)
  /\ UNCHANGED <<val, now>>

(* A lookup that found nothing may take a while to say so.                 *)
Miss(c) ==
  /\ phase[c] = "called" /\ req[c].name = "Get"
  /\ val = Absent
  /\ Become(c, "done")
  /\ UNCHANGED <<val, now, req, env>> /\ Silent

Finish(c) ==
  /\ phase[c] = "done"
  /\ Answer(c, IF req[c].name = "Get" THEN Absent ELSE Ok)
  /\ UNCHANGED <<val, now>>

Fail(c) ==
  /\ phase[c] # "idle"
  /\ val' = val \/ (req[c].name \in {"Put", "Delete"} /\ val' = Absent)
  /\ Answer(c, Err)
  /\ UNCHANGED now

(* A call that does not concern the scalar, or is refused, just answers.   *)
Other(c) ==
  /\ phase[c] = "idle"
  /\ answer'.to = c
  /\ UNCHANGED <<val, now, phase, req, env>>

Tick ==
  /\ now' = now + 1
  /\ val' = Live(val, now + 1)
  /\ UNCHANGED <<phase, req, env>> /\ Silent

(* Nothing the scalar's callers can see.                                   *)
Quiet == UNCHANGED <<val, now, phase, req, env>> /\ Silent

Next ==
  \/ \E c \in Procs : \/ Invoke(c) \/ Stamp(c) \/ Write(c) \/ Remove(c) \/ Lookup(c)
                      \/ Miss(c) \/ Finish(c) \/ Fail(c) \/ Other(c)
  \/ Tick \/ Quiet

Spec == Init /\ [][Next]_avars
=============================================================================
