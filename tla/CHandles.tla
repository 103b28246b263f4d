------------------------------ MODULE CHandles -------------------------------
(***************************************************************************)
(* The C ABI (capi/main.go): the table of database handles and the table   *)
(* of scan cursors, each behind its mutex, called by the threads of a      *)
(* host program.  A call looks its handle up under the mutex and works on  *)
(* what it found after the mutex is released, so that another thread can   *)
(* close the handle in between.  Of a record only its key is kept.         *)
(***************************************************************************)
EXTENDS Integers, Sequences, FiniteSets

CONSTANTS Threads,
          Keys,          \* keys of the engine keyspace, natural numbers
          MaxHandles,    \* bound: databases opened
          MaxCursors     \* bound: scans opened

Handles == 1..MaxHandles
Cursors == 1..MaxCursors

ASSUME CAPIAssumption == Keys \subseteq Nat /\ MaxHandles \in Nat /\ MaxCursors \in Nat

VARIABLES nextHandle, databases,   \* the table: handles with an entry
          store, closed,           \* of each database: its keys, whether it is closed
          nextCursor, cursors,     \* the table: cursors with an entry
          snapshot, next,          \* of each cursor: its keys, the place in them
          call,                    \* what each thread is in
          status,                  \* of each thread: how its last call ended
          closedOK,                \* handles that a kvlite_close has returned OK for
          delivered                \* of each cursor: the keys handed out

dbVars == <<nextHandle, databases, store, closed>>
cursorVars == <<nextCursor, cursors, snapshot, next>>
ghosts == <<closedOK, delivered>>
capiVars == <<dbVars, cursorVars, call, status, ghosts>>

Idle == [at |-> "idle"]

CAPIInit ==
  /\ nextHandle = 1 /\ databases = {}
  /\ store = [h \in Handles |-> {}] /\ closed = [h \in Handles |-> FALSE]
  /\ nextCursor = 1 /\ cursors = {}
  /\ snapshot = [c \in Cursors |-> <<>>] /\ next = [c \in Cursors |-> 0]
  /\ call = [t \in Threads |-> Idle]
  /\ status = [t \in Threads |-> [code |-> "none"]]
  /\ closedOK = {} /\ delivered = [c \in Cursors |-> <<>>]

Enter(t, c) == call[t] = Idle /\ call' = [call EXCEPT ![t] = c] /\ UNCHANGED status

(* The call returns; stale tells whether its handle was closed already     *)
(* when the call began.                                                    *)
Return(t, code) ==
  /\ call' = [call EXCEPT ![t] = Idle]
  /\ status' = [status EXCEPT ![t] =
       [code |-> code, stale |-> "stale" \in DOMAIN call[t] /\ call[t].stale]]

ReturnAtOnce(t, code, stale) ==
  /\ call[t] = Idle
  /\ status' = [status EXCEPT ![t] = [code |-> code, stale |-> stale]]
  /\ UNCHANGED call

-----------------------------------------------------------------------------
(* kvlite_open, kvlite_open_with_driver: the database is opened, then      *)
(* entered in the table.                                                   *)
kvlite_open(t) ==
  /\ nextHandle \in Handles
  /\ databases' = databases \cup {nextHandle}
  /\ nextHandle' = nextHandle + 1
  /\ ReturnAtOnce(t, "ok", FALSE)
  /\ UNCHANGED <<store, closed, cursorVars, ghosts>>

(* kvlite_close: the entry is removed under the mutex, the database closed *)
(* after it.                                                               *)
kvlite_close(t, h) ==
  /\ h < nextHandle
  /\ IF h \in databases
     THEN /\ databases' = databases \ {h}
          /\ Enter(t, [at |-> "close", handle |-> h])
     ELSE ReturnAtOnce(t, "invalid", h \in closedOK) /\ UNCHANGED databases
  /\ UNCHANGED <<nextHandle, store, closed, cursorVars, ghosts>>

CloseDB(t) ==
  /\ call[t].at = "close"
  /\ closed' = [closed EXCEPT ![call[t].handle] = TRUE]
  /\ closedOK' = closedOK \cup {call[t].handle}
  /\ Return(t, "ok")
  /\ UNCHANGED <<nextHandle, databases, store, cursorVars, delivered>>

(* lookup, the first step of every other call on a database.               *)
Scanning == {t \in Threads : call[t].at \in {"scan", "enter"}}
Operations ==
  {"put", "get", "delete"} \cup
  IF nextCursor + Cardinality(Scanning) \in Cursors THEN {"scan"} ELSE {}

LookupByNumber(t, h) ==
  /\ h < nextHandle
  /\ \E op \in Operations, k \in Keys :
       Enter(t, [at |-> op, handle |-> h, key |-> k, stale |-> h \in closedOK])
  /\ UNCHANGED <<dbVars, cursorVars, ghosts>>

lookup(t, h) ==
  /\ h < nextHandle
  /\ IF h \in databases
     THEN \E op \in Operations, k \in Keys :
            Enter(t, [at |-> op, handle |-> h, key |-> k, stale |-> h \in closedOK])
     ELSE ReturnAtOnce(t, "invalid", h \in closedOK)
  /\ UNCHANGED <<dbVars, cursorVars, ghosts>>

(* kvlite_put, _get, _delete and their raw forms: ErrClosed of a database  *)
(* that has been closed meanwhile is a storage error.                      *)
Operate(t) ==
  /\ call[t].at \in {"put", "get", "delete"}
  /\ LET h == call[t].handle
         k == call[t].key
     IN IF closed[h]
        THEN Return(t, "storage") /\ UNCHANGED store
        ELSE /\ store' = [store EXCEPT ![h] = CASE call[t].at = "put" -> @ \cup {k}
                                                [] call[t].at = "delete" -> @ \ {k}
                                                [] OTHER -> @]
             /\ Return(t, IF call[t].at = "get" /\ k \notin store[h] THEN "notfound" ELSE "ok")
  /\ UNCHANGED <<nextHandle, databases, closed, cursorVars, ghosts>>

(* The keys of a set, in the order in which an engine's scan meets them.   *)
InOrder(keys) ==
  [i \in 1..Cardinality(keys) |-> CHOOSE k \in keys : Cardinality({j \in keys : j < k}) = i - 1]

(* kvlite_raw_scan_open: ScanPrefix collects the snapshot, then the cursor *)
(* is entered in its table.                                                *)
ScanPrefix(t) ==
  /\ call[t].at = "scan"
  /\ IF closed[call[t].handle] THEN Return(t, "storage")
     ELSE /\ call' = [call EXCEPT ![t] =
                       [at |-> "enter", stale |-> call[t].stale,
                        keys |-> InOrder(store[call[t].handle])]]
          /\ UNCHANGED status
  /\ UNCHANGED <<dbVars, cursorVars, ghosts>>

EnterCursor(t) ==
  /\ call[t].at = "enter"
  /\ snapshot' = [snapshot EXCEPT ![nextCursor] = call[t].keys]
  /\ cursors' = cursors \cup {nextCursor}
  /\ nextCursor' = nextCursor + 1
  /\ Return(t, "ok")
  /\ UNCHANGED <<dbVars, next, ghosts>>

(* kvlite_raw_scan_next: lookupCursor, then one pair under the mutex.      *)
lookupCursor(t, c) ==
  /\ c < nextCursor
  /\ IF c \in cursors THEN Enter(t, [at |-> "next", cursor |-> c, place |-> next[c]])
     ELSE ReturnAtOnce(t, "invalid", FALSE)
  /\ UNCHANGED <<dbVars, cursorVars, ghosts>>

NextFrom(t, place) ==
  LET c == call[t].cursor
  IN /\ call[t].at = "next"
     /\ IF place >= Len(snapshot[c])
        THEN Return(t, "notfound") /\ UNCHANGED <<next, delivered>>
        ELSE /\ next' = [next EXCEPT ![c] = place + 1]
             /\ delivered' = [delivered EXCEPT ![c] = Append(@, snapshot[c][place + 1])]
             /\ Return(t, "ok")
     /\ UNCHANGED <<dbVars, nextCursor, cursors, snapshot, closedOK>>

NextUnlocked(t) == NextFrom(t, call[t].place)
kvlite_raw_scan_next(t) == NextFrom(t, next[call[t].cursor])

kvlite_raw_scan_close(t, c) ==
  /\ c < nextCursor
  /\ cursors' = cursors \ {c}
  /\ ReturnAtOnce(t, IF c \in cursors THEN "ok" ELSE "invalid", FALSE)
  /\ UNCHANGED <<dbVars, nextCursor, snapshot, next, ghosts>>

-----------------------------------------------------------------------------
CAPINext ==
  \E t \in Threads :
    \/ kvlite_open(t)
    \/ \E h \in Handles : kvlite_close(t, h) \/ lookup(t, h)
    \/ \E c \in Cursors : lookupCursor(t, c) \/ kvlite_raw_scan_close(t, c)
    \/ CloseDB(t) \/ Operate(t) \/ ScanPrefix(t) \/ EnterCursor(t)
    \/ call[t].at = "next" /\ kvlite_raw_scan_next(t)

CAPISpec == CAPIInit /\ [][CAPINext]_capiVars

-----------------------------------------------------------------------------
(* kvlite.h:48: "Closing invalidates the handle": a call that begins after *)
(* kvlite_close has returned is refused as an invalid argument, whichever  *)
(* thread makes it, and never reaches the database.                        *)
ClosedHandleIsInvalid ==
  \A t \in Threads :
    status[t].code # "none" /\ status[t].stale => status[t].code = "invalid"

(* kvlite.h:109-113: kvlite_raw_scan_next hands out the pairs "in snapshot *)
(* order": threads that share a cursor get every pair of the snapshot once *)
(* between them, none twice and none skipped.                              *)
SnapshotInOrder == \A c \in Cursors : delivered[c] = SubSeq(snapshot[c], 1, next[c])
=============================================================================
