------------------------------- MODULE DBCore -------------------------------
(***************************************************************************)
(* The operations of a kvlite.DB (db.go, collections.go, logical_key.go)   *)
(* on the records of ONE logical key, run by concurrent goroutines.  Each  *)
(* engine call is one step, so calls interleave exactly where the locks of *)
(* the code let them.  Records of different logical keys never meet (see   *)
(* KeyLayout), and no operation touches two logical keys.                  *)
(*                                                                         *)
(* The scalar is the record "value", the list the record "list", the       *)
(* collection expiry the record "ttl"; a hash field and a set member are   *)
(* records of their own.  An envelope is its payload and its absolute      *)
(* expiry, 0 for none.                                                     *)
(***************************************************************************)
EXTENDS Naturals, Sequences

CONSTANTS Procs,       \* goroutines
          Fields,      \* hash fields of the key
          Members,     \* set members of the key
          Data,        \* scalar and field payloads
          Batches,     \* sequences of items one push call adds
          TTLs,        \* TTL options, 0 for none
          Workload,    \* names of the operations the goroutines call
          MaxTime,     \* bound: the clock stops here
          MaxFaults,   \* bound: engine calls that fail
          MaxKeys,     \* bound: members or fields in one call
          MaxLen,      \* bound: no push starts on a list this long
          One,         \* the payload of a set member
          Absent,      \* no record
          None         \* no goroutine

Operations == {"Put", "Delete", "Get", "HSet", "HGet", "HGetAll", "HDelete",
               "SAdd", "SRemove", "RPush", "LPush"}

Scalars == {"value", "list", "ttl"}

(* The items that pushes carry.                                            *)
ListItems == UNION {{b[i] : i \in DOMAIN b} : b \in Batches}

ASSUME ConstAssumption ==
  /\ Workload \subseteq Operations
  /\ TTLs \subseteq Nat
  /\ MaxTime \in Nat /\ MaxFaults \in Nat /\ MaxKeys \in Nat /\ MaxLen \in Nat
  /\ None \notin Procs
  /\ Fields \cap Members = {} /\ Scalars \cap (Fields \cup Members) = {}
  /\ \A b \in Batches : b \in Seq(ListItems)

Records == Scalars \cup Fields \cup Members

GroupsWithoutSets == <<{"value"}, {"list"}, {"ttl"}, Fields, {}>>

(* deleteLogicalKey looks for the records of a key in this order.          *)
Groups == <<{"value"}, {"list"}, {"ttl"}, Fields, Members>>

VARIABLES store,         \* what the engine holds for the key
          now,           \* the clock behind cfg.now
          protocolMu, collectionMu,
          handle,        \* "open", "flagged" (DB.closed), "closed" (engine too)
          faults,        \* engine calls that failed so far
          pc, op,        \* where a goroutine is, and the call it runs
          at,            \* its loop index
          todo,          \* the records it has collected to delete
          got,           \* the record it read last
          env,           \* the envelope it has encoded
          tally,         \* members its SAdd or SRemove counted so far
          reply          \* the result the last step returned to a caller, if any

locks == <<protocolMu, collectionMu>>
clock == <<now, handle, faults>>
local == <<at, todo, got, env, tally>>
vars == <<store, now, protocolMu, collectionMu, handle, faults,
          pc, op, at, todo, got, env, tally, reply>>

NoCall == [name |-> "none", keys |-> <<>>, data |-> Absent, ttl |-> 0]

(* A step that returns nothing to a caller is silent.                      *)
NoReply == [to |-> None]
Silent == reply' = NoReply

(* The calls a goroutine may make, with their arguments.                   *)
KeyLists(S) == UNION {[1..n -> S] : n \in 1..MaxKeys}
Request(names, keys, data, ttls) ==
  [name : names \cap Workload, keys : keys, data : data, ttl : ttls]
Requests ==
  UNION { Request({"Put"}, {<<"value">>}, Data, TTLs),
          Request({"Get"}, {<<"value">>}, {Absent}, {0}),
          Request({"Delete", "HGetAll"}, {<<>>}, {Absent}, {0}),
          Request({"HSet"}, [1..1 -> Fields], Data, TTLs),
          Request({"HGet"}, [1..1 -> Fields], {Absent}, {0}),
          Request({"HDelete"}, KeyLists(Fields), {Absent}, {0}),
          Request({"SAdd", "SRemove"}, KeyLists(Members), {Absent}, {0}),
          Request({"RPush", "LPush"}, {<<"list">>}, Batches, {0}) }

Init ==
  /\ store = [r \in Records |-> Absent]
  /\ now = 1
  /\ protocolMu = None /\ collectionMu = None
  /\ handle = "open"
  /\ faults = 0
  /\ pc = [c \in Procs |-> "idle"]
  /\ op = [c \in Procs |-> NoCall]
  /\ at = [c \in Procs |-> 1]
  /\ todo = [c \in Procs |-> {}]
  /\ got = [c \in Procs |-> Absent]
  /\ env = [c \in Procs |-> Absent]
  /\ tally = [c \in Procs |-> 0]
  /\ reply = NoReply

-----------------------------------------------------------------------------
(* Building blocks.                                                        *)

Envelope(data, exp) == [data |-> data, exp |-> exp]

(* encodeValue and encodePayload: a TTL becomes an absolute expiry.        *)
Encode(q) == Envelope(q.data, IF q.ttl > 0 THEN now + q.ttl ELSE 0)

ExpiredTooLate(e) == e # Absent /\ e.exp > 0 /\ now > e.exp

envelopeExpired(e) == e # Absent /\ e.exp > 0 /\ now >= e.exp

Found(S) == {r \in S : store[r] # Absent}

Stored(r, e) == store' = [store EXCEPT ![r] = e]
Deleted(r) == Stored(r, Absent)

Key(c) == op[c].keys[1]

Goto(c, from, to) == pc[c] = from /\ pc' = [pc EXCEPT ![c] = to]

(* The engine answers: the guard has not been closed.                      *)
EngineUp == handle # "closed"

(* Results: an envelope or Absent of the reads, and these.                 *)
Ok == [status |-> "ok"]
Err == [status |-> "error"]
ErrClosed == [status |-> "closed"]
Count(n) == [status |-> "count", count |-> n]
CountAndErr(n) == [status |-> "error", count |-> n]

(* The call returns r and its deferred unlocks run.                        *)
Return(c, r) ==
  /\ pc' = [pc EXCEPT ![c] = "idle"]
  /\ op' = [op EXCEPT ![c] = NoCall]
  /\ at' = [at EXCEPT ![c] = 1]
  /\ todo' = [todo EXCEPT ![c] = {}]
  /\ got' = [got EXCEPT ![c] = Absent]
  /\ env' = [env EXCEPT ![c] = Absent]
  /\ tally' = [tally EXCEPT ![c] = 0]
  /\ reply' = [to |-> c, result |-> r]
  /\ protocolMu' = IF protocolMu = c THEN None ELSE protocolMu
  /\ collectionMu' = IF collectionMu = c THEN None ELSE collectionMu

-----------------------------------------------------------------------------
(* A call starts: ensureOpen, then HSet encodes its value (without a lock) *)
(* and the other operations go for their mutex or their scan.              *)

FirstStep(name) ==
  CASE name = "HSet" -> "put"
    [] name = "HGetAll" -> "scan"
    [] name \in {"RPush", "LPush"} -> "lockCollection"
    [] OTHER -> "lockProtocol"

(* The bound on lists covers the one a push under way is about to write.   *)
Items(e) == IF e = Absent THEN <<>> ELSE e.data
ListsShort ==
  /\ Len(Items(store["list"])) < MaxLen
  /\ \A d \in Procs : pc[d] = "writeList" => Len(Items(got[d])) < MaxLen

Begin(c) ==
  /\ handle = "open"
  /\ \E q \in Requests :
       /\ q.name \in {"RPush", "LPush"} => ListsShort
       /\ Goto(c, "idle", FirstStep(q.name))
       /\ op' = [op EXCEPT ![c] = q]
       /\ env' = [env EXCEPT ![c] = IF q.name = "HSet" THEN Encode(q) ELSE @]
  /\ UNCHANGED <<store, locks, clock, at, todo, got, tally>> /\ Silent

(* ensureOpen fails with ErrClosed.                                        *)
ensureOpenFails(c) ==
  /\ handle # "open"
  /\ pc[c] = "idle"
  /\ Return(c, ErrClosed)
  /\ UNCHANGED <<store, clock>>

AfterLock(name) ==
  CASE name \in {"Put", "Delete"} -> "collect"
    [] name \in {"Get", "HGet"} -> "read"
    [] OTHER -> "visit"

EnterUnlocked(c) ==
  /\ protocolMu' = c
  /\ Goto(c, "lockProtocol", AfterLock(op[c].name))
  /\ env' = [env EXCEPT ![c] = IF op[c].name = "Put" THEN Encode(op[c]) ELSE @]
  /\ UNCHANGED <<store, collectionMu, clock, op, at, todo, got, tally>> /\ Silent

(* protocolMu.Lock; Put then encodes its value under the lock.             *)
LockProtocol(c) ==
  /\ protocolMu = None
  /\ protocolMu' = c
  /\ Goto(c, "lockProtocol", AfterLock(op[c].name))
  /\ env' = [env EXCEPT ![c] = IF op[c].name = "Put" THEN Encode(op[c]) ELSE @]
  /\ UNCHANGED <<store, collectionMu, clock, op, at, todo, got, tally>> /\ Silent

-----------------------------------------------------------------------------
(* deleteLogicalKey: three exact lookups and two scans, one engine call    *)
(* each, then a Delete per record found.  (Of what the first lookup reads, *)
(* got keeps what the code discards.)                                      *)

Collect(c) ==
  /\ EngineUp
  /\ Goto(c, "collect", IF at[c] < Len(Groups) THEN "collect" ELSE "purge")
  /\ todo' = [todo EXCEPT ![c] = @ \cup Found(Groups[at[c]])]
  /\ at' = [at EXCEPT ![c] = @ + 1]
  /\ got' = [got EXCEPT ![c] = IF at[c] = 1 THEN store["value"] ELSE @]
  /\ UNCHANGED <<store, locks, clock, op, env, tally>> /\ Silent

(* Records go in the order they were collected; a scan's in any order.     *)
Purge(c) ==
  /\ EngineUp
  /\ pc[c] = "purge"
  /\ \E i \in 1..Len(Groups) :
       /\ \A j \in 1..(i - 1) : todo[c] \cap Groups[j] = {}
       /\ \E r \in todo[c] \cap Groups[i] :
            /\ Deleted(r)
            /\ todo' = [todo EXCEPT ![c] = @ \ {r}]
  /\ UNCHANGED <<locks, clock, pc, op, at, got, env, tally>> /\ Silent

(* replaceLogicalValue ends with the Put of the scalar's record.           *)
ReplaceValue(c) ==
  /\ EngineUp
  /\ pc[c] = "purge" /\ todo[c] = {} /\ op[c].name = "Put"
  /\ Stored("value", env[c])
  /\ Return(c, Ok)
  /\ UNCHANGED <<clock>>

(* Delete ends with the last Delete of deleteLogicalKey.                   *)
DeleteReturns(c) ==
  /\ pc[c] = "purge" /\ todo[c] = {} /\ op[c].name = "Delete"
  /\ Return(c, Ok)
  /\ UNCHANGED <<store, clock>>

-----------------------------------------------------------------------------
(* GetStoredValue, get (Get and HGet) and Has: read the record, look at    *)
(* the clock, delete an expired record; an error of that Delete is ignored.*)

Read(c) ==
  /\ EngineUp
  /\ pc[c] = "read"
  /\ \/ /\ store[Key(c)] = Absent
        /\ Return(c, Absent)
     \/ /\ store[Key(c)] # Absent
        /\ pc' = [pc EXCEPT ![c] = "decode"]
        /\ got' = [got EXCEPT ![c] = store[Key(c)]]
        /\ UNCHANGED <<locks, op, at, todo, env, tally>> /\ Silent
  /\ UNCHANGED <<store, clock>>

DecodeLive(c) ==
  /\ pc[c] = "decode"
  /\ ~envelopeExpired(got[c])
  /\ Return(c, got[c])
  /\ UNCHANGED <<store, clock>>

ExpiredUnlocks(c) ==
  /\ envelopeExpired(got[c])
  /\ Goto(c, "decode", "lazy")
  /\ protocolMu' = None
  /\ UNCHANGED <<store, collectionMu, clock, op, local>> /\ Silent

DecodeExpired(c) ==
  /\ envelopeExpired(got[c])
  /\ Goto(c, "decode", "lazy")
  /\ UNCHANGED <<store, locks, clock, op, local>> /\ Silent

LazyDelete(c) ==
  /\ EngineUp
  /\ pc[c] = "lazy"
  /\ Deleted(Key(c))
  /\ Return(c, Absent)
  /\ UNCHANGED <<clock>>

-----------------------------------------------------------------------------
(* Hashes: put (HSet) writes and HGetAll sweeps without a lock.            *)

put(c) ==
  /\ EngineUp
  /\ pc[c] = "put"
  /\ Stored(Key(c), env[c])
  /\ Return(c, Ok)
  /\ UNCHANGED <<clock>>

HGetAll(c) ==
  /\ EngineUp
  /\ Goto(c, "scan", "sweep")
  /\ todo' = [todo EXCEPT ![c] = {f \in Fields : envelopeExpired(store[f])}]
  /\ UNCHANGED <<store, locks, clock, op, at, got, env, tally>> /\ Silent

(* The result of each of these Deletes is ignored.                         *)
Sweep(c) ==
  /\ EngineUp
  /\ pc[c] = "sweep"
  /\ \E f \in todo[c] :
       /\ Deleted(f)
       /\ todo' = [todo EXCEPT ![c] = @ \ {f}]
  /\ UNCHANGED <<locks, clock, pc, op, at, got, env, tally>> /\ Silent

HGetAllReturns(c) ==
  /\ pc[c] = "sweep" /\ todo[c] = {}
  /\ Return(c, Ok)
  /\ UNCHANGED <<store, clock>>

-----------------------------------------------------------------------------
(* HDelete, SRemove and SAdd: for each argument a Get and, when the record *)
(* is (SAdd: is not) there, the Delete (Put) that is counted.              *)

Arg(c) == op[c].keys[at[c]]

Wanted(c) == (store[Arg(c)] = Absent) <=> (op[c].name = "SAdd")

Visit(c) ==
  /\ EngineUp
  /\ at[c] <= Len(op[c].keys)
  /\ Goto(c, "visit", IF Wanted(c) THEN "edit" ELSE "visit")
  /\ at' = [at EXCEPT ![c] = IF Wanted(c) THEN @ ELSE @ + 1]
  /\ UNCHANGED <<store, locks, clock, op, todo, got, env, tally>> /\ Silent

Edit(c) ==
  /\ EngineUp
  /\ Goto(c, "edit", "visit")
  /\ IF op[c].name = "SAdd" THEN Stored(Arg(c), Envelope(One, 0)) ELSE Deleted(Arg(c))
  /\ at' = [at EXCEPT ![c] = @ + 1]
  /\ tally' = [tally EXCEPT ![c] = @ + 1]
  /\ UNCHANGED <<locks, clock, op, todo, got, env>> /\ Silent

VisitReturns(c) ==
  /\ pc[c] = "visit" /\ at[c] > Len(op[c].keys)
  /\ Return(c, Count(tally[c]))
  /\ UNCHANGED <<store, clock>>

-----------------------------------------------------------------------------
(* pushEncodedList: read the list, add the batch, write it back, all under *)
(* collectionMu.                                                           *)

PushUnlocked(c) ==
  /\ collectionMu' = c
  /\ Goto(c, "lockCollection", "readList")
  /\ UNCHANGED <<store, protocolMu, clock, op, local>> /\ Silent

LockCollection(c) ==
  /\ collectionMu = None
  /\ collectionMu' = c
  /\ Goto(c, "lockCollection", "readList")
  /\ UNCHANGED <<store, protocolMu, clock, op, local>> /\ Silent

readList(c) ==
  /\ EngineUp
  /\ Goto(c, "readList", "writeList")
  /\ got' = [got EXCEPT ![c] = store["list"]]
  /\ UNCHANGED <<store, locks, clock, op, at, todo, env, tally>> /\ Silent

Pushed(q, items) == IF q.name = "LPush" THEN q.data \o items ELSE items \o q.data

writeList(c) ==
  LET items == Pushed(op[c], Items(got[c]))
  IN  /\ EngineUp
      /\ pc[c] = "writeList"
      /\ Stored("list", Envelope(items, 0))
      /\ Return(c, Count(Len(items)))
      /\ UNCHANGED <<clock>>

-----------------------------------------------------------------------------
(* An engine call fails: the engine is closed, or the driver or the        *)
(* context fails it, without effect.  Lazy deletes ignore the error; every *)
(* other call site returns it and its locks are released.                  *)

EngineFails ==
  \/ /\ handle = "closed"
     /\ UNCHANGED faults
  \/ /\ faults < MaxFaults
     /\ faults' = faults + 1

AtEngineCall(c) ==
  \/ pc[c] \in {"collect", "read", "put", "scan", "edit", "readList", "writeList"}
  \/ pc[c] = "purge" /\ (todo[c] # {} \/ op[c].name = "Put")
  \/ pc[c] = "visit" /\ at[c] <= Len(op[c].keys)

FailedHoldingLocks(c) ==
  /\ AtEngineCall(c)
  /\ EngineFails
  /\ pc' = [pc EXCEPT ![c] = "idle"]
  /\ reply' = [to |-> c, result |-> Err]
  /\ UNCHANGED <<store, now, handle, locks, op, local>>

Failed(c) ==
  /\ AtEngineCall(c)
  /\ EngineFails
  /\ Return(c, IF op[c].name \in {"HDelete", "SAdd", "SRemove"}
                THEN CountAndErr(tally[c]) ELSE Err)
  /\ UNCHANGED <<store, now, handle>>

FailureIgnored(c) ==
  /\ EngineFails
  /\ \/ /\ pc[c] = "lazy"
        /\ Return(c, Absent)
     \/ /\ pc[c] = "sweep"
        /\ \E f \in todo[c] : todo' = [todo EXCEPT ![c] = @ \ {f}]
        /\ UNCHANGED <<locks, pc, op, at, got, env, tally>> /\ Silent
  /\ UNCHANGED <<store, now, handle>>

-----------------------------------------------------------------------------
(* DB.Close in its two steps (EngineGuard has the guard's own protocol),   *)
(* and the passing of time.                                                *)

CloseFlag ==
  /\ handle = "open"
  /\ handle' = "flagged"
  /\ UNCHANGED <<store, now, locks, faults, pc, op, local>> /\ Silent

CloseEngine ==
  /\ handle = "flagged"
  /\ handle' = "closed"
  /\ UNCHANGED <<store, now, locks, faults, pc, op, local>> /\ Silent

Tick ==
  /\ now < MaxTime
  /\ now' = now + 1
  /\ UNCHANGED <<store, locks, handle, faults, pc, op, local>> /\ Silent

-----------------------------------------------------------------------------
Lock(c) == LockProtocol(c) \/ LockCollection(c)

Run(c) ==
  \/ Collect(c) \/ Purge(c) \/ ReplaceValue(c) \/ DeleteReturns(c)
  \/ Read(c) \/ DecodeLive(c) \/ DecodeExpired(c) \/ LazyDelete(c)
  \/ put(c) \/ HGetAll(c) \/ Sweep(c) \/ HGetAllReturns(c)
  \/ Visit(c) \/ Edit(c) \/ VisitReturns(c)
  \/ readList(c) \/ writeList(c)
  \/ Failed(c) \/ FailureIgnored(c)

Next ==
  \/ \E c \in Procs : Begin(c) \/ ensureOpenFails(c) \/ Lock(c) \/ Run(c)
  \/ CloseFlag \/ CloseEngine \/ Tick

Spec == Init /\ [][Next]_vars

(* A goroutine inside a call keeps running, and a sync.Mutex in starvation *)
(* mode is handed to the longest waiter: a goroutine that wants a mutex    *)
(* which is free again and again gets it.                                  *)
FairSpec ==
  /\ Spec
  /\ \A c \in Procs : WF_vars(Run(c)) /\ SF_vars(LockProtocol(c)) /\ SF_vars(LockCollection(c))

-----------------------------------------------------------------------------
Labels == {"idle", "lockProtocol", "collect", "purge", "read", "decode", "lazy",
           "put", "scan", "sweep", "visit", "edit",
           "lockCollection", "readList", "writeList"}

(* An envelope of the record r.                                            *)
EnvelopeOf(r) ==
  CASE r = "list" -> [data : Seq(ListItems), exp : {0}]
    [] r \in Members -> [data : {One}, exp : {0}]
    [] OTHER -> [data : Data, exp : Nat]

Envelopes ==
  [data : Data \cup {One}, exp : Nat] \cup [data : Seq(ListItems), exp : {0}]

TypeOK ==
  /\ DOMAIN store = Records
  /\ \A r \in Records : store[r] # Absent => store[r] \in EnvelopeOf(r)
  /\ now \in Nat /\ faults \in 0..MaxFaults
  /\ protocolMu \in Procs \cup {None} /\ collectionMu \in Procs \cup {None}
  /\ handle \in {"open", "flagged", "closed"}
  /\ pc \in [Procs -> Labels]
  /\ op \in [Procs -> Requests \cup {NoCall}]
  /\ at \in [Procs -> Nat]
  /\ todo \in [Procs -> SUBSET Records]
  /\ tally \in [Procs -> Nat]
  /\ got \in [Procs -> Envelopes \cup {Absent}]
  /\ env \in [Procs -> Envelopes \cup {Absent}]

(* db.go:284,309,356: no scalar read deletes a value that is alive: what   *)
(* its lazy Delete is about to remove is still the expired record it saw,  *)
(* whoever put, deleted or read the key meanwhile.                         *)
ScalarReadDeletesExpired ==
  \A c \in Procs :
    pc[c] = "lazy" /\ Key(c) = "value" => envelopeExpired(store["value"])

(* db.go:231 and logical_key.go:11-13: when Put or Delete returns success, *)
(* the scalar it stored (or nothing) is all that is left of the key.       *)
ReplacementIsComplete ==
  [][\A c \in Procs :
       /\ pc[c] # "idle" /\ pc'[c] = "idle" /\ reply' = [to |-> c, result |-> Ok]
       /\ op[c].name \in {"Put", "Delete"}
       => \A r \in Records : store'[r] # Absent => r = "value" /\ op[c].name = "Put"]_vars

(* extensions/http/README.md:62-63: concurrent set mutations return the    *)
(* right counts: a member that SAdd or SRemove is about to count is still  *)
(* missing, or still there, whatever other calls did since it looked.      *)
SetCountsExact ==
  \A c \in Procs :
    /\ pc[c] = "edit" /\ op[c].name = "SAdd" => store[Arg(c)] = Absent
    /\ pc[c] = "edit" /\ op[c].name = "SRemove" => store[Arg(c)] # Absent

(* README.md:297-298: a list is updated atomically: the list that a push   *)
(* is about to overwrite is the list it read.                              *)
ListUpdateAtomic ==
  \A c \in Procs : pc[c] = "writeList" => got[c] = store["list"]

(* Every call returns, also when engine calls fail and when the handle is  *)
(* closed under it: no path leaves protocolMu or collectionMu locked.      *)
CallsReturn ==
  \A c \in Procs : pc[c] # "idle" ~> pc[c] = "idle"
=============================================================================
