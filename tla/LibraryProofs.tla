---------------------------- MODULE LibraryProofs ----------------------------
(***************************************************************************)
(* The library at its edges.                                               *)
(*                                                                         *)
(* What the manifest guarantees to any number of processes, drivers,       *)
(* crashes and failed writes.  An open of a linked driver by its name is   *)
(* protected whatever else goes on (OpenInv).  That no directory gets the  *)
(* files of two engines, and that a torn manifest hides no data, holds     *)
(* only when every open is of that kind (ManifestInv): the run             *)
(* BackendManifest_default shows a default open that breaks it.            *)
(*                                                                         *)
(* And the C ABI for any number of threads, databases and cursors: a       *)
(* handle that was closed stays refused, and a shared cursor hands out     *)
(* every pair of its snapshot once and in order.                           *)
(***************************************************************************)
EXTENDS BackendManifest, CHandles, FiniteSetTheorems, SequenceTheorems, TLAPS

-----------------------------------------------------------------------------
(* Opening a directory (BackendManifest).                                  *)

Early == {"idle", "read", "list", "create", "write", "check", "open", "opened"}

(* A process of which the manifest speaks: it named a linked driver.       *)
Named(p) == choice[p].explicit /\ Driver(p) \in Linked

Late == {"adopt", "createLate", "writeLate", "checkLate", "load", "readLate", "listLate"}

(* Only the process that has created the file writes it, so that a         *)
(* manifest, once written, stays; a named open reaches its engine only     *)
(* over the validation; the paths that open first belong to the others.    *)
OpenInv ==
  /\ pc \in [Processes -> Early \cup Late]
  /\ choice \in [Processes -> Selections]
  /\ \A p \in Processes : pc[p] \in {"write", "writeLate"} => manifest = Torn
  /\ \A p, q \in Processes :
       pc[p] \in {"write", "writeLate"} /\ pc[q] \in {"write", "writeLate"} => p = q
  /\ \A p \in Processes : pc[p] \in Late => ~Named(p)
  /\ \A p \in Processes : pc[p] = "open" => manifest = Driver(p)
  /\ \A p \in Processes : pc[p] = "opened" /\ Named(p) => manifest = Driver(p)

LEMMA StepOpen ==
  ASSUME OpenInv, [Next]_vars
  PROVE  OpenInv' /\ (manifest \in Drivers => UNCHANGED manifest)
<1> USE ManifestAssumption DEF OpenInv, Named, Driver, Drivers, Early, Late
<1>1. CASE UNCHANGED vars
  BY <1>1 DEF vars
<1>2. SUFFICES ASSUME NEW p \in Processes,
                      \/ Open(p) \/ Read(p) \/ List(p) \/ Create(p) \/ Write(p)
                      \/ WriteFails(p) \/ Check(p) \/ OpenEngine(p) \/ Close(p)
                      \/ Crash(p) \/ LoadNative(p) \/ ReadLate(p) \/ ListLate(p)
               PROVE  OpenInv' /\ (manifest \in Drivers => UNCHANGED manifest)
  BY <1>1 DEF Next
<1>3. CASE Open(p)
  <2>1. PICK s \in Selections :
          /\ choice' = [choice EXCEPT ![p] = s]
          /\ Goto(p, "idle", IF s.driver \in Linked \cup loaded[p] THEN "read" ELSE "load")
    BY <1>3 DEF Open
  <2> QED
    BY <1>3, <2>1 DEF Open, Goto
<1>4. CASE Read(p) \/ List(p)
  BY <1>4 DEF Read, List, Goto, AdoptsLegacy, validateBackendManifest
<1>5. CASE Create(p)
  BY <1>5 DEF Create, Creating, Writing, Checking
<1>6. CASE Write(p) \/ WriteFails(p)
  BY <1>6 DEF Write, WriteFails, Created
<1>7. CASE Check(p)
  BY <1>7 DEF Check, Created, validateBackendManifest
<1>8. CASE OpenEngine(p)
  BY <1>8 DEF OpenEngine, Goto
<1>9. CASE Close(p) \/ Crash(p)
  BY <1>9 DEF Close, Crash, Goto
<1>10. CASE LoadNative(p) \/ ReadLate(p) \/ ListLate(p)
  BY <1>10 DEF LoadNative, ReadLate, ListLate, Goto
<1> QED
  BY <1>2, <1>3, <1>4, <1>5, <1>6, <1>7, <1>8, <1>9, <1>10

LEMMA OpenInvariant == Spec => []OpenInv
<1>1. Init => OpenInv
  BY DEF Init, OpenInv, Early, Late
<1>2. OpenInv /\ [Next]_vars => OpenInv'
  BY StepOpen
<1> QED
  BY <1>1, <1>2, PTL DEF Spec

(* A database that was opened with a linked driver by its name is open     *)
(* with the driver that the manifest names, next to any default opens,     *)
(* native modules and crashes (prepareBackendManifest,                     *)
(* createBackendManifest).                                                 *)
THEOREM NamedOpenMatches == Spec => []OpenMatchesManifest
<1>1. OpenInv => OpenMatchesManifest
  BY DEF OpenInv, OpenMatchesManifest, Named
<1> QED
  BY <1>1, OpenInvariant, PTL

(* A manifest that names a driver is never replaced, by whatever kind of   *)
(* open and after whatever crash: O_EXCL in createBackendManifest leaves   *)
(* the writing to one process.                                             *)
THEOREM ManifestStays == Spec => ManifestIsForever
<1>1. OpenInv /\ [Next]_vars => [(manifest \in Drivers) => UNCHANGED manifest]_vars
  BY StepOpen
<1> QED
  BY <1>1, OpenInvariant, PTL DEF Spec, ManifestIsForever

-----------------------------------------------------------------------------
(* Every open names a linked driver.                                       *)
ExplicitOnly == \A s \in Selections : s.driver \in Linked /\ s.explicit

(* The engine's files follow the manifest, a process that is past the      *)
(* validation opens what the manifest says, and a process that has created *)
(* the file is alone in writing it.                                        *)
ManifestInv ==
  /\ TypeOK
  /\ \A p \in Processes : pc[p] \in Early
  /\ manifest = Absent => files \subseteq {RocksDB}
  /\ manifest = Torn => files = {}
  /\ manifest \in Drivers => files \subseteq {manifest}
  /\ \A p \in Processes : pc[p] = "create" /\ manifest = Absent => files = {}
  /\ \A p \in Processes : pc[p] = "write" => manifest = Torn
  /\ \A p, q \in Processes : pc[p] = "write" /\ pc[q] = "write" => p = q
  /\ \A p \in Processes : pc[p] \in {"open", "opened"} => manifest = Driver(p)

LEMMA InitManifest ==
  ASSUME Init, RocksDB \in OnDisk
  PROVE  ManifestInv
<1>1. files \subseteq {RocksDB}
  BY DEF Init
<1>2. TypeOK
  <2>1. files \subseteq OnDisk
    BY <1>1
  <2>2. loaded \in [Processes -> SUBSET Native]
    BY DEF Init
  <2>3. pc \in [Processes -> {"idle"}]
    BY DEF Init
  <2> QED
    BY <2>1, <2>2, <2>3, ManifestAssumption DEF Init, TypeOK
<1>3. manifest = Absent /\ \A p \in Processes : pc[p] = "idle"
  BY DEF Init
<1> QED
  BY <1>1, <1>2, <1>3, ManifestAssumption DEF ManifestInv, Early, Drivers

(* Each step of a process keeps the invariant.                             *)
LEMMA StepManifest ==
  ASSUME ManifestInv, [Next]_vars, ExplicitOnly
  PROVE  ManifestInv'
<1> USE ManifestAssumption
<1>1. CASE UNCHANGED vars
  BY <1>1 DEF ManifestInv, TypeOK, vars, Driver
<1>2. SUFFICES ASSUME NEW p \in Processes,
                      \/ Open(p) \/ Read(p) \/ List(p) \/ Create(p) \/ Write(p)
                      \/ WriteFails(p) \/ Check(p) \/ OpenEngine(p) \/ Close(p)
                      \/ Crash(p) \/ LoadNative(p) \/ ReadLate(p) \/ ListLate(p)
               PROVE  ManifestInv'
  BY <1>1 DEF Next
<1>3. CASE Open(p)
  <2>1. PICK s \in Selections :
          /\ choice' = [choice EXCEPT ![p] = s]
          /\ Goto(p, "idle", IF s.driver \in Linked \cup loaded[p] THEN "read" ELSE "load")
    BY <1>3 DEF Open
  <2>2. s.driver \in Linked
    BY DEF ExplicitOnly
  <2>3. pc' = [pc EXCEPT ![p] = "read"]
    BY <2>1, <2>2 DEF Goto
  <2> QED
    BY <1>3, <2>1, <2>3 DEF Open, ManifestInv, TypeOK, Early, Driver
<1>4. CASE Read(p)
  BY <1>4 DEF Read, Goto, validateBackendManifest, ManifestInv, TypeOK, Early, Driver
<1>5. CASE List(p)
  <2>1. ~AdoptsLegacy(p)
    BY DEF AdoptsLegacy, ExplicitOnly, ManifestInv, TypeOK
  <2>2. pc' = [pc EXCEPT ![p] = IF EmptyDirectory THEN "create" ELSE "idle"]
    BY <1>5, <2>1 DEF List, Goto
  <2> QED
    BY <1>5, <2>2 DEF List, EmptyDirectory, ManifestInv, TypeOK, Early, Driver
<1>6. CASE Create(p)
  BY <1>6 DEF Create, Creating, Writing, Checking, ManifestInv, TypeOK, Early, Driver
<1>7. CASE Write(p)
  BY <1>7 DEF Write, Created, ManifestInv, TypeOK, Early, Driver, Drivers
<1>8. CASE WriteFails(p)
  BY <1>8 DEF WriteFails, ManifestInv, TypeOK, Early, Driver
<1>9. CASE Check(p)
  BY <1>9 DEF Check, Created, validateBackendManifest, ManifestInv, TypeOK, Early, Driver
<1>10. CASE OpenEngine(p)
  BY <1>10 DEF OpenEngine, Goto, Touch, ManifestInv, TypeOK, Early, Driver, Drivers
<1>11. CASE Close(p)
  BY <1>11 DEF Close, Goto, ManifestInv, TypeOK, Early, Driver
<1>12. CASE Crash(p)
  BY <1>12 DEF Crash, ManifestInv, TypeOK, Early, Driver
<1>13. CASE LoadNative(p) \/ ReadLate(p) \/ ListLate(p)
  BY <1>13 DEF LoadNative, ReadLate, ListLate, Goto, ManifestInv, Early
<1> QED
  BY <1>2, <1>3, <1>4, <1>5, <1>6, <1>7, <1>8, <1>9, <1>10, <1>11, <1>12, <1>13

LEMMA ManifestInvariant ==
  ASSUME ExplicitOnly, RocksDB \in OnDisk
  PROVE  Spec => []ManifestInv
<1>1. Init => ManifestInv
  BY InitManifest
<1>2. ManifestInv /\ [Next]_vars => ManifestInv'
  BY StepManifest
<1> QED
  BY <1>1, <1>2, PTL DEF Spec

(* No directory ever holds the files of two engines when every open is     *)
(* explicit: the manifest is validated before driver.Open, and whoever     *)
(* finds the file created by another process validates it too.             *)
THEOREM ExplicitOneEngine ==
  ASSUME ExplicitOnly, RocksDB \in OnDisk
  PROVE  Spec => []OneEnginePerDirectory
<1>1. ASSUME NEW S, NEW x, S \subseteq {x}
      PROVE  Cardinality(S) <= 1
  <2>1. S = {} \/ S = {x}
    BY <1>1
  <2>2. CASE S = {}
    BY <2>2, FS_EmptySet
  <2>3. CASE S = {x}
    <3>1. Cardinality({x}) = 1
      BY FS_Singleton
    <3> QED
      BY <2>3, <3>1
  <2> QED
    BY <2>1, <2>2, <2>3
<1>2. ManifestInv => files \subseteq {RocksDB} \/ files \subseteq {manifest}
  BY DEF ManifestInv, TypeOK
<1>3. ManifestInv => OneEnginePerDirectory
  BY <1>1, <1>2 DEF OneEnginePerDirectory
<1> QED
  BY <1>3, ManifestInvariant, PTL

(* A manifest that a crash left unwritten never hides data when every open *)
(* is explicit: the engine is opened only after the write.                 *)
THEOREM ExplicitTornIsEmpty ==
  ASSUME ExplicitOnly, RocksDB \in OnDisk
  PROVE  Spec => []TornOnlyWhenEmpty
<1>1. ManifestInv => TornOnlyWhenEmpty
  BY DEF ManifestInv, TornOnlyWhenEmpty
<1> QED
  BY <1>1, ManifestInvariant, PTL

-----------------------------------------------------------------------------
(* Handles of the C ABI (CHandles).                                        *)

(* Handles are numbered upwards and never reused: a closed one is below    *)
(* the next number and has no entry, so that no lookup finds it again.     *)

Numbered == {h \in Nat : h < nextHandle}

HandleInv ==
  /\ nextHandle \in Nat
  /\ databases \subseteq Numbered /\ closedOK \subseteq Numbered
  /\ databases \cap closedOK = {}
  /\ call = [t \in Threads |-> call[t]] /\ status = [t \in Threads |-> status[t]]
  /\ \A t \in Threads :
       /\ call[t].at = "close" => call[t].handle \in Numbered \ databases
       /\ call[t].at = "scan" \/ "stale" \in DOMAIN call[t] => call[t].stale = FALSE
       /\ status[t].code \notin {"none", "invalid"} => status[t].stale = FALSE

LEMMA HandleInit == CAPIInit => HandleInv
BY DEF CAPIInit, HandleInv, Numbered, Idle

(* A call that has found its handle is not stale, and what it returns is   *)
(* no answer to a stale handle.                                            *)
LEMMA ReturnKeepsHandles ==
  ASSUME HandleInv, NEW t \in Threads, NEW code, Return(t, code),
         UNCHANGED <<nextHandle, databases>>,
         closedOK' \subseteq Numbered \ databases
  PROVE  HandleInv'
BY DEF HandleInv, Return, Numbered, Idle

LEMMA AtOnceKeepsHandles ==
  ASSUME HandleInv, NEW t \in Threads, NEW code, NEW stale,
         ReturnAtOnce(t, code, stale), code = "invalid" \/ stale = FALSE,
         UNCHANGED <<nextHandle, databases, closedOK>>
  PROVE  HandleInv'
BY DEF HandleInv, ReturnAtOnce, Numbered

LEMMA RefusedKeepsHandles ==
  ASSUME HandleInv, NEW t \in Threads, NEW h, ReturnAtOnce(t, "invalid", h \in closedOK),
         UNCHANGED <<nextHandle, databases, closedOK>>
  PROVE  HandleInv'
BY DEF HandleInv, ReturnAtOnce, Numbered

LEMMA EnterKeepsHandles ==
  ASSUME HandleInv, NEW t \in Threads, NEW c, Enter(t, c),
         databases' \subseteq databases, UNCHANGED <<nextHandle, closedOK>>,
         c.at = "close" => c.handle \in Numbered \ databases',
         c.at = "scan" \/ "stale" \in DOMAIN c => c.stale = FALSE
  PROVE  HandleInv'
BY DEF HandleInv, Enter, Numbered

LEMMA HandleStep == HandleInv /\ [CAPINext]_capiVars => HandleInv'
<1> SUFFICES ASSUME HandleInv, [CAPINext]_capiVars  PROVE HandleInv'
  OBVIOUS
<1>0. nextHandle \in Nat /\ closedOK \subseteq Numbered \ databases
  BY DEF HandleInv
<1>1. CASE UNCHANGED capiVars
  BY <1>1 DEF HandleInv, Numbered, capiVars, dbVars, ghosts
<1>2. ASSUME NEW t \in Threads, kvlite_open(t)  PROVE HandleInv'
  <2>1. /\ databases' = databases \cup {nextHandle} /\ nextHandle' = nextHandle + 1
        /\ UNCHANGED <<call, closedOK>>
        /\ status' = [status EXCEPT ![t] = [code |-> "ok", stale |-> FALSE]]
    BY <1>2 DEF kvlite_open, ReturnAtOnce, ghosts
  <2>2. /\ nextHandle' \in Nat /\ databases' \subseteq Numbered' /\ closedOK' \subseteq Numbered'
        /\ databases' \cap closedOK' = {}
        /\ Numbered \ databases \subseteq Numbered' \ databases'
    BY <2>1 DEF HandleInv, Numbered
  <2> QED  BY <2>1, <2>2 DEF HandleInv
<1>3. ASSUME NEW t \in Threads, NEW h \in Handles, kvlite_close(t, h)  PROVE HandleInv'
  <2>1. CASE h \in databases
    <3> DEFINE c == [at |-> "close", handle |-> h]
    <3>1. Enter(t, c) /\ databases' = databases \ {h} /\ UNCHANGED <<nextHandle, closedOK>>
      BY <1>3, <2>1 DEF kvlite_close, ghosts
    <3>2. c.handle \in Numbered \ databases' /\ c.at # "scan" /\ "stale" \notin DOMAIN c
      BY <3>1, <2>1 DEF HandleInv
    <3> QED  BY <3>1, <3>2, EnterKeepsHandles
  <2>2. CASE h \notin databases
    BY <1>3, <2>2, RefusedKeepsHandles DEF kvlite_close, ghosts
  <2> QED  BY <2>1, <2>2
<1>4. ASSUME NEW t \in Threads, NEW h \in Handles, lookup(t, h)  PROVE HandleInv'
  <2>1. CASE h \in databases
    <3>1. PICK op \in Operations, k \in Keys :
            Enter(t, [at |-> op, handle |-> h, key |-> k, stale |-> h \in closedOK])
      BY <1>4, <2>1 DEF lookup
    <3> DEFINE c == [at |-> op, handle |-> h, key |-> k, stale |-> h \in closedOK]
    <3>2. c.at # "close"
      BY DEF Operations
    <3>3. c.stale = FALSE
      <4>1. (h \in closedOK) = FALSE
        BY <2>1 DEF HandleInv
      <4> QED  BY <4>1
    <3>4. UNCHANGED <<nextHandle, databases, closedOK>>
      BY <1>4 DEF lookup, dbVars, ghosts
    <3> HIDE DEF c
    <3> QED  BY <3>1, <3>2, <3>3, <3>4, EnterKeepsHandles DEF c
  <2>2. CASE h \notin databases
    BY <1>4, <2>2, RefusedKeepsHandles DEF lookup, dbVars, ghosts
  <2> QED  BY <2>1, <2>2
<1>5. ASSUME NEW t \in Threads, NEW c \in Cursors, lookupCursor(t, c)  PROVE HandleInv'
  <2>1. UNCHANGED <<nextHandle, databases, closedOK>>
    BY <1>5 DEF lookupCursor, dbVars, ghosts
  <2>2. CASE c \in cursors
    <3> DEFINE d == [at |-> "next", cursor |-> c, place |-> next[c]]
    <3>1. Enter(t, d)
      BY <1>5, <2>2 DEF lookupCursor
    <3>2. d.at \notin {"close", "scan"} /\ "stale" \notin DOMAIN d
      OBVIOUS
    <3> QED  BY <2>1, <3>1, <3>2, EnterKeepsHandles
  <2>3. CASE c \notin cursors
    BY <1>5, <2>1, <2>3, AtOnceKeepsHandles DEF lookupCursor
  <2> QED  BY <2>2, <2>3
<1>6. ASSUME NEW t \in Threads, NEW c \in Cursors, kvlite_raw_scan_close(t, c)  PROVE HandleInv'
  <2> DEFINE code == IF c \in cursors THEN "ok" ELSE "invalid"
  <2>1. ReturnAtOnce(t, code, FALSE) /\ UNCHANGED <<nextHandle, databases, closedOK>>
    BY <1>6 DEF kvlite_raw_scan_close, dbVars, ghosts
  <2> HIDE DEF code
  <2> QED  BY <2>1, AtOnceKeepsHandles
<1>7. ASSUME NEW t \in Threads, CloseDB(t)  PROVE HandleInv'
  BY <1>7, ReturnKeepsHandles DEF CloseDB, HandleInv
<1>8. ASSUME NEW t \in Threads, Operate(t)  PROVE HandleInv'
  BY <1>8, <1>0, ReturnKeepsHandles DEF Operate, ghosts
<1>9. ASSUME NEW t \in Threads, ScanPrefix(t)  PROVE HandleInv'
  <2>1. UNCHANGED <<nextHandle, databases, closedOK>> /\ call[t].at = "scan"
    BY <1>9 DEF ScanPrefix, dbVars, ghosts
  <2>2. CASE closed[call[t].handle]
    BY <1>9, <2>1, <2>2, <1>0, ReturnKeepsHandles DEF ScanPrefix
  <2>3. CASE ~closed[call[t].handle]
    BY <1>9, <2>1, <2>3 DEF ScanPrefix, HandleInv, Numbered
  <2> QED  BY <2>2, <2>3
<1>10. ASSUME NEW t \in Threads, EnterCursor(t)  PROVE HandleInv'
  BY <1>10, <1>0, ReturnKeepsHandles DEF EnterCursor, dbVars, ghosts
<1>11. ASSUME NEW t \in Threads, kvlite_raw_scan_next(t)  PROVE HandleInv'
  BY <1>11, <1>0, ReturnKeepsHandles DEF kvlite_raw_scan_next, NextFrom, dbVars
<1> QED
  BY <1>1, <1>2, <1>3, <1>4, <1>5, <1>6, <1>7, <1>8, <1>9, <1>10, <1>11 DEF CAPINext

(* capi/main.go:168-179: once kvlite_close has returned for a handle, no   *)
(* call that begins later with it does anything but report an invalid      *)
(* argument, for any number of threads and databases.                      *)
THEOREM ClosedStaysInvalid == CAPISpec => []ClosedHandleIsInvalid
<1>1. HandleInv => ClosedHandleIsInvalid
  BY DEF HandleInv, ClosedHandleIsInvalid
<1> QED  BY <1>1, HandleInit, HandleStep, PTL DEF CAPISpec

-----------------------------------------------------------------------------
(* A cursor's place moves only under its mutex and by one, and its         *)
(* snapshot does not change once the cursor has a number.                  *)

IsList(s) == \E T : s \in Seq(T)

LEMMA InOrderIsList ==
  ASSUME NEW keys, IsFiniteSet(keys)
  PROVE  IsList(InOrder(keys))
<1> DEFINE n == Cardinality(keys)
           at(i) == CHOOSE k \in keys : Cardinality({j \in keys : j < k}) = i - 1
           T == {at(i) : i \in 1..n}
<1>1. n \in Nat
  BY FS_CardinalityType
<1>2. InOrder(keys) = [i \in 1..n |-> at(i)]
  BY DEF InOrder
<1>3. \A i \in 1..n : at(i) \in T
  OBVIOUS
<1> HIDE DEF n, at, T
<1>4. [i \in 1..n |-> at(i)] \in Seq(T)
  BY <1>1, <1>3
<1> QED  BY <1>2, <1>4 DEF IsList

Sound(c) ==
  /\ c.at \in {"put", "get", "delete", "scan"} => c.handle \in Handles
  /\ c.at = "enter" => IsList(c.keys)
  /\ c.at = "next" => c.cursor \in Cursors /\ c.cursor < nextCursor

CursorInv ==
  /\ nextCursor \in Nat
  /\ store = [h \in Handles |-> store[h]] /\ \A h \in Handles : IsFiniteSet(store[h])
  /\ next \in [Cursors -> Nat]
  /\ snapshot = [c \in Cursors |-> snapshot[c]] /\ delivered = [c \in Cursors |-> delivered[c]]
  /\ \A c \in Cursors :
       /\ IsList(snapshot[c]) /\ next[c] <= Len(snapshot[c])
       /\ delivered[c] = SubSeq(snapshot[c], 1, next[c])
       /\ c >= nextCursor => next[c] = 0
  /\ call = [t \in Threads |-> call[t]]
  /\ \A t \in Threads : Sound(call[t])

LEMMA EmptyIsList == IsList(<<>>) /\ Len(<<>>) = 0 /\ SubSeq(<<>>, 1, 0) = <<>>
<1>1. <<>> \in Seq({})
  OBVIOUS
<1>2. SubSeq(<<>>, 1, 0) = <<>>
  BY <1>1
<1> QED  BY <1>1, <1>2 DEF IsList

LEMMA EmptyPrefix ==
  ASSUME NEW s, IsList(s)
  PROVE  SubSeq(s, 1, 0) = <<>> /\ Len(s) \in Nat
BY DEF IsList

LEMMA LongerPrefix ==
  ASSUME NEW s, IsList(s), NEW n \in Nat, n < Len(s)
  PROVE  Append(SubSeq(s, 1, n), s[n + 1]) = SubSeq(s, 1, n + 1)
<1>1. PICK T : s \in Seq(T)
  BY DEF IsList
<1>2. SubSeq(s, 1, n) \in Seq(T) /\ Len(SubSeq(s, 1, n)) = n
  BY <1>1
<1>3. SubSeq(s, 1, n + 1) \in Seq(T) /\ Len(SubSeq(s, 1, n + 1)) = n + 1
  BY <1>1
<1>4. \A i \in 1..n : SubSeq(s, 1, n)[i] = s[i] /\ SubSeq(s, 1, n + 1)[i] = s[i]
  BY <1>1
<1>5. SubSeq(s, 1, n + 1)[n + 1] = s[n + 1] /\ s[n + 1] \in T
  BY <1>1
<1> QED  BY <1>2, <1>3, <1>4, <1>5

LEMMA CursorInit == CAPIInit => CursorInv
BY CAPIAssumption, EmptyIsList, FS_EmptySet DEF CAPIInit, CursorInv, Sound, Idle, Handles, Cursors

(* Steps that move no cursor.                                              *)
LEMMA OtherStep ==
  ASSUME CursorInv, NEW t \in Threads, NEW c, Sound(c),
         call' = [call EXCEPT ![t] = c] \/ UNCHANGED call,
         UNCHANGED <<nextCursor, snapshot, next, delivered>>,
         store' = [h \in Handles |-> store'[h]], \A h \in Handles : IsFiniteSet(store'[h])
  PROVE  CursorInv'
BY DEF CursorInv, Sound

LEMMA IdleIsSound == Sound(Idle)
BY DEF Sound, Idle

LEMMA OperateKeepsFinite ==
  ASSUME CursorInv, NEW t \in Threads, Operate(t)
  PROVE  store' = [h \in Handles |-> store'[h]] /\ \A h \in Handles : IsFiniteSet(store'[h])
<1> DEFINE h == call[t].handle
           k == call[t].key
<1>1. h \in Handles /\ IsFiniteSet(store[h])
  BY DEF Operate, CursorInv, Sound
<1>2. IsFiniteSet(store[h] \cup {k}) /\ IsFiniteSet(store[h] \ {k})
  BY <1>1, FS_AddElement, FS_RemoveElement
<1>3. \/ UNCHANGED store
      \/ store' = [store EXCEPT ![h] = store[h] \cup {k}]
      \/ store' = [store EXCEPT ![h] = store[h] \ {k}]
      \/ store' = [store EXCEPT ![h] = store[h]]
  BY DEF Operate
<1> QED  BY <1>1, <1>2, <1>3 DEF CursorInv

LEMMA EnterCursorStep ==
  ASSUME CursorInv, NEW t \in Threads, EnterCursor(t)
  PROVE  CursorInv'
<1> DEFINE keys == call[t].keys
<1>1. IsList(keys) /\ SubSeq(keys, 1, 0) = <<>> /\ Len(keys) \in Nat
  BY EmptyPrefix DEF EnterCursor, CursorInv, Sound
<1>2. /\ snapshot' = [snapshot EXCEPT ![nextCursor] = keys]
      /\ nextCursor' = nextCursor + 1 /\ UNCHANGED <<store, next, delivered>>
      /\ call' = [call EXCEPT ![t] = Idle]
  BY DEF EnterCursor, Return, dbVars, ghosts
<1> HIDE DEF keys
<1>3. ASSUME NEW c \in Cursors
      PROVE  /\ IsList(snapshot'[c]) /\ next'[c] <= Len(snapshot'[c])
             /\ delivered'[c] = SubSeq(snapshot'[c], 1, next'[c])
             /\ c >= nextCursor' => next'[c] = 0
  <2>1. c \in Nat
    BY DEF Cursors
  <2>2. CASE c = nextCursor
    <3>1. next[c] = 0 /\ delivered[c] = <<>>
      <4>1. /\ next[c] = 0 /\ IsList(snapshot[c])
            /\ delivered[c] = SubSeq(snapshot[c], 1, next[c])
        BY <2>1, <2>2 DEF CursorInv
      <4> QED  BY <4>1, EmptyPrefix
    <3> QED  BY <1>1, <1>2, <2>1, <2>2, <3>1 DEF CursorInv
  <2>3. CASE c # nextCursor
    BY <1>2, <2>1, <2>3 DEF CursorInv
  <2> QED  BY <2>2, <2>3
<1>4. \A u \in Threads : Sound(call[u])'
  BY <1>2 DEF CursorInv, Sound, Idle, Cursors
<1>5. snapshot' = [c \in Cursors |-> snapshot'[c]]
  <2>1. snapshot = [c \in Cursors |-> snapshot[c]]
    BY DEF CursorInv
  <2> QED  BY <1>2, <2>1
<1>6. nextCursor' \in Nat /\ call' = [u \in Threads |-> call'[u]]
  <2>1. nextCursor \in Nat /\ call = [u \in Threads |-> call[u]]
    BY DEF CursorInv
  <2>2. call' = [u \in Threads |-> call'[u]]
    BY <1>2, <2>1
  <2> QED  BY <1>2, <2>1, <2>2
<1> QED  BY <1>2, <1>3, <1>4, <1>5, <1>6 DEF CursorInv

LEMMA NextStep ==
  ASSUME CursorInv, NEW t \in Threads, call[t].at = "next", kvlite_raw_scan_next(t)
  PROVE  CursorInv'
<1> DEFINE c == call[t].cursor
           n == next[c]
<1>1. c \in Cursors /\ c < nextCursor /\ n \in Nat /\ IsList(snapshot[c])
  BY DEF CursorInv, Sound
<1>2. UNCHANGED <<store, nextCursor, snapshot>> /\ call' = [call EXCEPT ![t] = Idle]
  BY DEF kvlite_raw_scan_next, NextFrom, Return, dbVars
<1>3. CASE n >= Len(snapshot[c])
  <2>1. UNCHANGED <<next, delivered>>
    BY <1>3 DEF kvlite_raw_scan_next, NextFrom
  <2> QED  BY <1>2, <2>1, IdleIsSound, OtherStep DEF CursorInv
<1>4. CASE n < Len(snapshot[c])
  <2>1. Len(snapshot[c]) \in Nat
    BY <1>1, EmptyPrefix
  <2>2. /\ next' = [next EXCEPT ![c] = n + 1]
        /\ delivered' = [delivered EXCEPT ![c] = Append(delivered[c], snapshot[c][n + 1])]
    <3>1. ~(next[call[t].cursor] >= Len(snapshot[call[t].cursor]))
      BY <1>1, <1>4, <2>1
    <3> QED  BY <3>1, Zenon DEF kvlite_raw_scan_next, NextFrom
  <2>3. Append(delivered[c], snapshot[c][n + 1]) = SubSeq(snapshot[c], 1, n + 1)
    BY <1>1, <1>4, LongerPrefix DEF CursorInv
  <2> HIDE DEF c, n
  <2>4. delivered'[c] = SubSeq(snapshot[c], 1, next'[c]) /\ next'[c] = n + 1
    BY <1>1, <2>2, <2>3 DEF CursorInv
  <2>5. n + 1 <= Len(snapshot[c])
    BY <1>1, <1>4, <2>1
  <2>6. \A d \in Cursors : d # c => next'[d] = next[d] /\ delivered'[d] = delivered[d]
    BY <1>1, <2>2 DEF CursorInv
  <2>7. \A d \in Cursors :
          /\ IsList(snapshot'[d]) /\ next'[d] <= Len(snapshot'[d])
          /\ delivered'[d] = SubSeq(snapshot'[d], 1, next'[d])
          /\ d >= nextCursor' => next'[d] = 0
    <3> TAKE d \in Cursors
    <3>1. /\ IsList(snapshot[d]) /\ next[d] <= Len(snapshot[d])
          /\ delivered[d] = SubSeq(snapshot[d], 1, next[d])
          /\ d >= nextCursor => next[d] = 0
      BY DEF CursorInv
    <3>2. CASE d # c
      BY <1>2, <2>6, <3>1, <3>2
    <3>3. CASE d = c
      <4>1. ~(c >= nextCursor)
        BY <1>1 DEF CursorInv, Cursors
      <4> QED  BY <1>1, <1>2, <2>4, <2>5, <3>3, <4>1
    <3> QED  BY <3>2, <3>3
  <2>8. /\ next' \in [Cursors -> Nat]
        /\ delivered' = [d \in Cursors |-> delivered'[d]]
    <3>1. next \in [Cursors -> Nat] /\ delivered = [d \in Cursors |-> delivered[d]]
      BY DEF CursorInv
    <3>2. next' \in [Cursors -> Nat]
      BY <1>1, <2>2, <3>1
    <3>3. delivered' = [d \in Cursors |-> delivered'[d]]
      BY <2>2, <3>1
    <3> QED  BY <3>2, <3>3
  <2>9. \A u \in Threads : Sound(call[u])'
    BY <1>2 DEF CursorInv, Sound, Idle
  <2> QED  BY <1>2, <2>7, <2>8, <2>9 DEF CursorInv
<1> QED  BY <1>1, <1>3, <1>4, EmptyPrefix

LEMMA CursorStep == CursorInv /\ [CAPINext]_capiVars => CursorInv'
<1> SUFFICES ASSUME CursorInv, [CAPINext]_capiVars  PROVE CursorInv'
  OBVIOUS
<1>0. store = [h \in Handles |-> store[h]] /\ \A h \in Handles : IsFiniteSet(store[h])
  BY DEF CursorInv
<1>1. CASE UNCHANGED capiVars
  BY <1>1 DEF CursorInv, Sound, capiVars, dbVars, cursorVars, ghosts
<1>2. ASSUME NEW t \in Threads, kvlite_open(t)  PROVE CursorInv'
  BY <1>0, <1>2, IdleIsSound, OtherStep DEF kvlite_open, ReturnAtOnce, cursorVars, ghosts
<1>3. ASSUME NEW t \in Threads, NEW h \in Handles, kvlite_close(t, h)  PROVE CursorInv'
  <2> DEFINE c == [at |-> "close", handle |-> h]
  <2>1. Sound(c)
    BY DEF Sound
  <2>2. call' = [call EXCEPT ![t] = c] \/ UNCHANGED call
    BY <1>3 DEF kvlite_close, Enter, ReturnAtOnce
  <2> HIDE DEF c
  <2> QED  BY <1>0, <1>3, <2>1, <2>2, OtherStep DEF kvlite_close, cursorVars, ghosts
<1>4. ASSUME NEW t \in Threads, NEW h \in Handles, lookup(t, h)  PROVE CursorInv'
  <2>1. UNCHANGED <<store, nextCursor, snapshot, next, delivered>>
    BY <1>4 DEF lookup, dbVars, cursorVars, ghosts
  <2>2. CASE UNCHANGED call
    BY <1>0, <2>1, <2>2, IdleIsSound, OtherStep
  <2>3. ASSUME NEW op \in Operations, NEW k \in Keys,
               Enter(t, [at |-> op, handle |-> h, key |-> k, stale |-> h \in closedOK])
        PROVE  CursorInv'
    <3> DEFINE c == [at |-> op, handle |-> h, key |-> k, stale |-> h \in closedOK]
    <3>1. Sound(c)
      BY DEF Sound, Operations
    <3>2. call' = [call EXCEPT ![t] = c]
      BY <2>3 DEF Enter
    <3> HIDE DEF c
    <3> QED  BY <1>0, <2>1, <3>1, <3>2, OtherStep
  <2> QED  BY <1>4, <2>2, <2>3 DEF lookup, ReturnAtOnce
<1>5. ASSUME NEW t \in Threads, NEW c \in Cursors, lookupCursor(t, c)  PROVE CursorInv'
  <2> DEFINE d == [at |-> "next", cursor |-> c, place |-> next[c]]
  <2>1. Sound(d)
    BY <1>5 DEF Sound, lookupCursor
  <2>2. call' = [call EXCEPT ![t] = d] \/ UNCHANGED call
    BY <1>5 DEF lookupCursor, Enter, ReturnAtOnce
  <2> HIDE DEF d
  <2> QED  BY <1>0, <1>5, <2>1, <2>2, OtherStep DEF lookupCursor, dbVars, cursorVars, ghosts
<1>6. ASSUME NEW t \in Threads, NEW c \in Cursors, kvlite_raw_scan_close(t, c)  PROVE CursorInv'
  BY <1>0, <1>6, IdleIsSound, OtherStep DEF kvlite_raw_scan_close, ReturnAtOnce, dbVars, ghosts
<1>7. ASSUME NEW t \in Threads, CloseDB(t)  PROVE CursorInv'
  BY <1>0, <1>7, IdleIsSound, OtherStep DEF CloseDB, Return, cursorVars
<1>8. ASSUME NEW t \in Threads, Operate(t)  PROVE CursorInv'
  <2>1. UNCHANGED <<nextCursor, snapshot, next, delivered>> /\ call' = [call EXCEPT ![t] = Idle]
    BY <1>8 DEF Operate, Return, cursorVars, ghosts
  <2> QED  BY <1>8, <2>1, OperateKeepsFinite, IdleIsSound, OtherStep
<1>9. ASSUME NEW t \in Threads, ScanPrefix(t)  PROVE CursorInv'
  <2> DEFINE h == call[t].handle
             c == [at |-> "enter", stale |-> call[t].stale, keys |-> InOrder(store[h])]
  <2>1. h \in Handles
    BY <1>9 DEF ScanPrefix, CursorInv, Sound
  <2>2. Sound(c)
    BY <1>0, <2>1, InOrderIsList DEF Sound
  <2>3. UNCHANGED <<store, nextCursor, snapshot, next, delivered>>
    BY <1>9 DEF ScanPrefix, dbVars, cursorVars, ghosts
  <2>4. call' = [call EXCEPT ![t] = c] \/ call' = [call EXCEPT ![t] = Idle]
    BY <1>9 DEF ScanPrefix, Return
  <2> HIDE DEF c
  <2> QED  BY <1>0, <2>2, <2>3, <2>4, IdleIsSound, OtherStep
<1>10. ASSUME NEW t \in Threads, EnterCursor(t)  PROVE CursorInv'
  BY <1>10, EnterCursorStep
<1>11. ASSUME NEW t \in Threads, call[t].at = "next" /\ kvlite_raw_scan_next(t)  PROVE CursorInv'
  BY <1>11, NextStep
<1> QED
  BY <1>1, <1>2, <1>3, <1>4, <1>5, <1>6, <1>7, <1>8, <1>9, <1>10, <1>11 DEF CAPINext

(* capi/main.go:371-396: however many threads share a cursor, the pairs it *)
(* has handed out are the first ones of its snapshot, each of them once.   *)
THEOREM CursorsDeliverInOrder == CAPISpec => []SnapshotInOrder
<1>1. CursorInv => SnapshotInOrder
  BY DEF CursorInv, SnapshotInOrder
<1> QED  BY <1>1, CursorInit, CursorStep, PTL DEF CAPISpec
=============================================================================
