----------------------------- MODULE EngineGuard -----------------------------
(***************************************************************************)
(* The lifetime of the storage engine behind a DB handle: DB.ensureOpen    *)
(* and DB.Close (db.go) over guardedEngine (engine.go).                    *)
(*                                                                         *)
(* A caller runs one DB operation: ensureOpen, then `left' engine calls,   *)
(* each of them bracketed by the guard's read lock.  A closer runs         *)
(* DB.Close, as often as it likes.  The critical sections of DB.mu are     *)
(* single steps; the guard's sync.RWMutex is modelled with the property    *)
(* the code relies on: a writer that waits for the readers keeps new       *)
(* readers out.                                                            *)
(***************************************************************************)
EXTENDS Naturals

CONSTANTS Callers,    \* goroutines that use the handle
          Closers,    \* goroutines that call DB.Close
          MaxCalls,   \* bound: engine calls made by one operation
          None        \* no goroutine

ASSUME ConstAssumption ==
  /\ Callers \cap Closers = {}
  /\ None \notin Callers \cup Closers
  /\ MaxCalls \in Nat \ {0}

VARIABLES dbClosed,   \* DB.closed
          closed,     \* guardedEngine.closed
          readers,    \* callers holding guardedEngine.mu for reading
          writer,     \* closer waiting for, or holding, guardedEngine.mu for writing
          inner,      \* the driver's engine: "open", "closing", "closed"
          left,       \* engine calls the caller's operation has still to make
          pc

vars == <<dbClosed, closed, readers, writer, inner, left, pc>>

CallerPC == {"idle", "open", "rlocked", "inner", "ok", "errClosed"}
CloserPC == {"idle", "flagged", "pending", "closing", "returned"}

Init ==
  /\ dbClosed = FALSE
  /\ closed = FALSE
  /\ readers = {}
  /\ writer = None
  /\ inner = "open"
  /\ left = [c \in Callers |-> 0]
  /\ pc = [p \in Callers \cup Closers |-> "idle"]

Goto(p, from, to) == pc[p] = from /\ pc' = [pc EXCEPT ![p] = to]

-----------------------------------------------------------------------------
(* The operations of a caller.                                             *)

ensureOpen(c) ==
  /\ Goto(c, "idle", IF dbClosed THEN "errClosed" ELSE "open")
  /\ \E n \in 1..MaxCalls : left' = [left EXCEPT ![c] = n]
  /\ UNCHANGED <<dbClosed, closed, readers, writer, inner>>

RLock(c) ==
  /\ writer = None
  /\ Goto(c, "open", "rlocked")
  /\ readers' = readers \cup {c}
  /\ UNCHANGED <<dbClosed, closed, writer, inner, left>>

EnterUnchecked(c) ==
  /\ Goto(c, "rlocked", "inner")
  /\ UNCHANGED <<dbClosed, closed, readers, writer, inner, left>>

CallInner(c) ==
  /\ Goto(c, "rlocked", IF closed THEN "errClosed" ELSE "inner")
  /\ readers' = IF closed THEN readers \ {c} ELSE readers
  /\ UNCHANGED <<dbClosed, closed, writer, inner, left>>

ReturnKeepingRLock(c) ==
  /\ Goto(c, "inner", IF left[c] > 1 THEN "open" ELSE "ok")
  /\ left' = [left EXCEPT ![c] = @ - 1]
  /\ UNCHANGED <<dbClosed, closed, readers, writer, inner>>

InnerReturns(c) ==
  /\ Goto(c, "inner", IF left[c] > 1 THEN "open" ELSE "ok")
  /\ left' = [left EXCEPT ![c] = @ - 1]
  /\ readers' = readers \ {c}
  /\ UNCHANGED <<dbClosed, closed, writer, inner>>

OpReturns(c) ==
  /\ pc[c] \in {"ok", "errClosed"}
  /\ pc' = [pc EXCEPT ![c] = "idle"]
  /\ left' = [left EXCEPT ![c] = 0]
  /\ UNCHANGED <<dbClosed, closed, readers, writer, inner>>

-----------------------------------------------------------------------------
(* DB.Close: only the call that finds DB.closed unset closes the engine.   *)

CloseDB(z) ==
  /\ Goto(z, "idle", IF dbClosed THEN "returned" ELSE "flagged")
  /\ dbClosed' = TRUE
  /\ UNCHANGED <<closed, readers, writer, inner, left>>

AnnounceLock(z) ==
  /\ writer = None
  /\ Goto(z, "flagged", "pending")
  /\ writer' = z
  /\ UNCHANGED <<dbClosed, closed, readers, inner, left>>

CloseInner(z) ==
  /\ readers = {}
  /\ Goto(z, "pending", IF closed THEN "returned" ELSE "closing")
  /\ closed' = TRUE
  /\ writer' = IF closed THEN None ELSE writer
  /\ inner' = IF closed THEN inner ELSE "closing"
  /\ UNCHANGED <<dbClosed, readers, left>>

InnerClosed(z) ==
  /\ Goto(z, "closing", "returned")
  /\ inner' = "closed"
  /\ writer' = None
  /\ UNCHANGED <<dbClosed, closed, readers, left>>

(* The goroutine may call Close once more.                                 *)
CloseAgain(z) ==
  /\ Goto(z, "returned", "idle")
  /\ UNCHANGED <<dbClosed, closed, readers, writer, inner, left>>

-----------------------------------------------------------------------------
CallerStep(c) ==
  \/ RLock(c)
  \/ CallInner(c)
  \/ InnerReturns(c)
  \/ OpReturns(c)

CloserStep(z) ==
  \/ AnnounceLock(z)
  \/ CloseInner(z)
  \/ InnerClosed(z)

Next ==
  \/ \E c \in Callers : ensureOpen(c) \/ CallerStep(c)
  \/ \E z \in Closers : CloseDB(z) \/ CloserStep(z) \/ CloseAgain(z)

Spec == Init /\ [][Next]_vars

-----------------------------------------------------------------------------
TypeOK ==
  /\ dbClosed \in BOOLEAN
  /\ closed \in BOOLEAN
  /\ readers \subseteq Callers
  /\ writer \in Closers \cup {None}
  /\ inner \in {"open", "closing", "closed"}
  /\ left \in [Callers -> 0..MaxCalls]
  /\ pc \in [Callers \cup Closers -> CallerPC \cup CloserPC]
  /\ \A c \in Callers : pc[c] \in CallerPC
  /\ \A z \in Closers : pc[z] \in CloserPC

(* engine.go:26: the guard "keeps Close from racing an in-flight backend   *)
(* call": while a caller is inside the driver's engine, nobody has begun   *)
(* to close it.                                                            *)
NoCallRacesClose ==
  \A c \in Callers : pc[c] = "inner" => inner = "open"
=============================================================================
