--------------------------- MODULE DBScalarProofs ---------------------------
(***************************************************************************)
(* DBCore implements the register of LogicalValue, for any number of       *)
(* goroutines and all values of the constants.  What the locks protect is  *)
(* proved in DBCoreProofs; here it is carried through the two loops of     *)
(* deleteLogicalKey, and the steps outside the section of protocolMu, then *)
(* those inside it, are mapped to steps of the register.                   *)
(***************************************************************************)
EXTENDS DBScalar, DBCoreProofs

(* What a call in progress knows of the scalar.                            *)
InCall(c) ==
  /\ pc[c] = "idle" => op[c] = NoCall
  /\ pc[c] \in {"idle", "lockProtocol"} => env[c] = Absent /\ todo[c] = {}
  /\ pc[c] \in {"scan", "sweep"} => op[c].name = "HGetAll"
  /\ pc[c] = "collect" /\ at[c] = 1 => todo[c] = {}
  /\ pc[c] = "collect" /\ at[c] > 1 =>
       got[c] = store["value"] /\ ("value" \in todo[c] <=> store["value"] # Absent)
  /\ pc[c] = "purge" /\ "value" \in todo[c] => store["value"] = got[c] /\ got[c] # Absent
  /\ pc[c] = "purge" /\ "value" \notin todo[c] => store["value"] = Absent

ScalarInv == CoreInv /\ \A c \in Procs : InCall(c)

(* A step changes the local state of one goroutine only.                   *)
LEMMA LocalsStay ==
  ASSUME TypeInv, NEW c \in Procs, NEW d \in Procs, c # d, Step(d)
  PROVE  /\ pc'[c] = pc[c] /\ op'[c] = op[c] /\ at'[c] = at[c]
         /\ todo'[c] = todo[c] /\ got'[c] = got[c] /\ env'[c] = env[c]
<1>1. /\ pc \in [Procs -> Labels] /\ op \in [Procs -> Requests \cup {NoCall}]
      /\ at \in [Procs -> Nat] /\ todo \in [Procs -> SUBSET Records]
      /\ got \in [Procs -> Envelopes \cup {Absent}] /\ env \in [Procs -> Envelopes \cup {Absent}]
  BY DEF TypeInv, TypeOK
<1> DEFINE Same == /\ pc'[c] = pc[c] /\ op'[c] = op[c] /\ at'[c] = at[c]
                   /\ todo'[c] = todo[c] /\ got'[c] = got[c] /\ env'[c] = env[c]
<1>2. ASSUME NEW r, Return(d, r)  PROVE Same
  BY <1>1, <1>2 DEF Return
<1> USE DEF Goto, local
<1>3. CASE Begin(d) \/ LockProtocol(d) \/ LockCollection(d)
  BY <1>1, <1>3 DEF Begin, LockProtocol, LockCollection
<1>4. CASE Collect(d) \/ Purge(d)
  BY <1>1, <1>4 DEF Collect, Purge
<1>5. CASE Read(d)  BY <1>1, <1>2, <1>5 DEF Read
<1>6. CASE DecodeExpired(d) \/ HGetAll(d) \/ Sweep(d)
  BY <1>1, <1>6 DEF DecodeExpired, HGetAll, Sweep
<1>7. CASE Visit(d) \/ Edit(d) \/ readList(d)
  BY <1>1, <1>7 DEF Visit, Edit, readList
<1>8. CASE FailureIgnored(d)  BY <1>1, <1>2, <1>8 DEF FailureIgnored
<1>9. CASE \/ ensureOpenFails(d) \/ ReplaceValue(d) \/ DeleteReturns(d) \/ DecodeLive(d)
           \/ LazyDelete(d) \/ put(d) \/ HGetAllReturns(d) \/ VisitReturns(d)
           \/ writeList(d) \/ Failed(d)
  <2>1. PICK r : Return(d, r)
    BY <1>9
    DEF ensureOpenFails, ReplaceValue, DeleteReturns, DecodeLive, LazyDelete, put,
        HGetAllReturns, VisitReturns, writeList, Failed
  <2> QED  BY <1>2, <2>1
<1> QED
  BY <1>3, <1>4, <1>5, <1>6, <1>7, <1>8, <1>9 DEF Step, Lock, Run

(* A goroutine that does not hold protocolMu leaves the scalar alone, and  *)
(* does not come to the deletions of a replacement.                        *)
LEMMA OutsideStep ==
  ASSUME TypeInv, NEW d \in Procs, Step(d), pc[d] \notin ProtocolSection
  PROVE  store'["value"] = store["value"] /\ now' = now /\ pc'[d] # "purge"
<1>1. op[d] \in Requests \cup {NoCall} /\ Shape(d) /\ DOMAIN store = Records
      /\ pc \in [Procs -> Labels]
  BY DEF TypeInv, TypeOK
<1> USE DEF ProtocolSection, Goto, locks, clock, local
<1>2. ASSUME NEW r, Return(d, r)  PROVE pc'[d] # "purge"
  BY <1>1, <1>2 DEF Return
<1>3. ASSUME NEW x \in Fields \cup {"list"}, NEW e, store' = [store EXCEPT ![x] = e]
      PROVE  store'["value"] = store["value"]
  <2>1. x # "value"
    BY ConstAssumption DEF Scalars
  <2>2. "value" \in DOMAIN store
    BY <1>1 DEF Records, Scalars
  <2> QED  BY <1>3, <2>1, <2>2
<1>4. CASE put(d) \/ writeList(d)
  <2>1. PICK x \in Fields \cup {"list"} : \E e : store' = [store EXCEPT ![x] = e]
    <3>1. CASE put(d)
      <4>1. Key(d) \in Fields
        BY <1>1, <3>1, CallArguments DEF put, Key, Shape
      <4> QED  BY <3>1, <4>1 DEF put, Stored
    <3>2. CASE writeList(d)
      BY <3>2 DEF writeList, Stored
    <3> QED  BY <1>4, <3>1, <3>2
  <2>2. PICK r : Return(d, r)
    BY <1>4 DEF put, writeList
  <2>3. now' = now
    BY <1>4 DEF put, writeList
  <2> QED  BY <1>2, <1>3, <2>1, <2>2, <2>3
<1>5. CASE Sweep(d)
  <2>1. PICK f \in todo[d] : store' = [store EXCEPT ![f] = Absent]
    BY <1>5 DEF Sweep, Deleted, Stored
  <2>2. todo[d] \subseteq Fields
    BY <1>1, <1>5 DEF Sweep, Shape
  <2>3. UNCHANGED <<pc, now>>
    BY <1>5 DEF Sweep
  <2> QED  BY <1>3, <2>1, <2>2, <2>3
<1>6. CASE Begin(d)  BY <1>1, <1>6 DEF Begin, FirstStep
<1>7. CASE LockProtocol(d)  BY <1>1, <1>7 DEF LockProtocol, AfterLock
<1>8. CASE LockCollection(d)  BY <1>1, <1>8 DEF LockCollection
<1>9. CASE HGetAll(d)  BY <1>1, <1>9 DEF HGetAll
<1>10. CASE readList(d)  BY <1>1, <1>10 DEF readList
<1>11. CASE FailureIgnored(d)  BY <1>1, <1>2, <1>11 DEF FailureIgnored
<1>12. CASE ensureOpenFails(d) \/ HGetAllReturns(d) \/ Failed(d)
  <2>1. store' = store /\ now' = now
    BY <1>12 DEF ensureOpenFails, HGetAllReturns, Failed
  <2>2. PICK r : Return(d, r)
    BY <1>12 DEF ensureOpenFails, HGetAllReturns, Failed
  <2> QED  BY <1>2, <2>1, <2>2
<1>13. ~ (\/ Collect(d) \/ Purge(d) \/ ReplaceValue(d) \/ DeleteReturns(d)
          \/ Read(d) \/ DecodeLive(d) \/ DecodeExpired(d) \/ LazyDelete(d)
          \/ Visit(d) \/ Edit(d) \/ VisitReturns(d))
  BY DEF Collect, Purge, ReplaceValue, DeleteReturns, Read, DecodeLive,
         DecodeExpired, LazyDelete, Visit, Edit, VisitReturns
<1> QED
  BY <1>4, <1>5, <1>6, <1>7, <1>8, <1>9, <1>10, <1>11, <1>12, <1>13 DEF Step, Lock, Run

-----------------------------------------------------------------------------
(* The invariant is inductive.                                             *)

LEMMA GroupsOfScalar ==
  /\ Groups[1] = {"value"} /\ Len(Groups) = 5
  /\ \A i \in 2..5 : "value" \notin Groups[i]
<1>1. Groups[1] = {"value"} /\ Groups[2] = {"list"} /\ Groups[3] = {"ttl"}
      /\ Groups[4] = Fields /\ Groups[5] = Members /\ Len(Groups) = 5
  BY DEF Groups
<1>2. "value" \notin Fields /\ "value" \notin Members
  BY ConstAssumption DEF Scalars
<1>3. \A i \in 2..5 : i = 2 \/ i = 3 \/ i = 4 \/ i = 5
  OBVIOUS
<1> QED  BY <1>1, <1>2, <1>3

LEMMA CollectInCall ==
  ASSUME TypeInv, NEW c \in Procs, InCall(c), Collect(c)
  PROVE  InCall(c)'
<1>1. /\ pc \in [Procs -> Labels] /\ at \in [Procs -> Nat] /\ todo \in [Procs -> SUBSET Records]
      /\ got \in [Procs -> Envelopes \cup {Absent}] /\ Shape(c)
  BY DEF TypeInv, TypeOK
<1>2. /\ pc[c] = "collect" /\ pc'[c] = IF at[c] < 5 THEN "collect" ELSE "purge"
      /\ todo'[c] = todo[c] \cup Found(Groups[at[c]])
      /\ at'[c] = at[c] + 1
      /\ got'[c] = IF at[c] = 1 THEN store["value"] ELSE got[c]
      /\ store' = store
  BY <1>1, GroupsOfScalar DEF Collect, Goto
<1>3. at[c] \in 1..5
  BY <1>1, <1>2 DEF Shape
<1>4. "value" \in todo'[c] <=> store["value"] # Absent
  <2>1. CASE at[c] = 1
    BY <1>2, <2>1, GroupsOfScalar DEF InCall, Found
  <2>2. CASE at[c] # 1
    <3>1. "value" \notin Found(Groups[at[c]])
      BY <1>3, <2>2, GroupsOfScalar DEF Found
    <3> QED  BY <1>2, <1>3, <2>2, <3>1 DEF InCall
  <2> QED  BY <2>1, <2>2
<1>5. got'[c] = store["value"]
  BY <1>2, <1>3 DEF InCall
<1>6. pc'[c] \in {"collect", "purge"} /\ at'[c] # 1
  BY <1>2, <1>3
<1> QED  BY <1>2, <1>4, <1>5, <1>6 DEF InCall

LEMMA PurgeInCall ==
  ASSUME TypeInv, NEW c \in Procs, InCall(c), Purge(c)
  PROVE  InCall(c)'
<1>1. /\ pc \in [Procs -> Labels] /\ todo \in [Procs -> SUBSET Records] /\ DOMAIN store = Records
  BY DEF TypeInv, TypeOK
<1>2. PICK r \in todo[c] : Deleted(r) /\ todo' = [todo EXCEPT ![c] = @ \ {r}]
  BY DEF Purge
<1>3. pc[c] = "purge" /\ pc' = pc /\ got' = got /\ todo'[c] = todo[c] \ {r}
  BY <1>1, <1>2 DEF Purge
<1>4. CASE r = "value"
  <2>1. store'["value"] = Absent /\ "value" \notin todo'[c]
    BY <1>1, <1>2, <1>3, <1>4, RecordKinds DEF Deleted, Stored
  <2> QED  BY <1>3, <2>1 DEF InCall
<1>5. CASE r # "value"
  <2>1. store'["value"] = store["value"] /\ ("value" \in todo'[c] <=> "value" \in todo[c])
    BY <1>1, <1>2, <1>3, <1>5, RecordKinds DEF Deleted, Stored
  <2> QED  BY <1>3, <2>1 DEF InCall
<1> QED  BY <1>4, <1>5

LEMMA OwnStepInCall ==
  ASSUME TypeInv, NEW c \in Procs, InCall(c), Step(c)
  PROVE  InCall(c)'
<1>1. /\ pc \in [Procs -> Labels] /\ op \in [Procs -> Requests \cup {NoCall}]
      /\ at \in [Procs -> Nat] /\ todo \in [Procs -> SUBSET Records]
      /\ env \in [Procs -> Envelopes \cup {Absent}] /\ Shape(c)
  BY DEF TypeInv, TypeOK
<1> USE DEF Goto, local
<1>2. ASSUME NEW r, Return(c, r)  PROVE InCall(c)'
  <2>1. pc'[c] = "idle" /\ op'[c] = NoCall /\ env'[c] = Absent /\ todo'[c] = {}
    BY <1>1, <1>2 DEF Return
  <2> QED  BY <2>1 DEF InCall
<1>3. ASSUME pc'[c] \notin {"idle", "lockProtocol", "scan", "sweep", "collect", "purge"}
      PROVE  InCall(c)'
  BY <1>3 DEF InCall
<1>4. CASE Begin(c)
  <2>1. PICK q \in Requests :
          /\ pc[c] = "idle" /\ pc' = [pc EXCEPT ![c] = FirstStep(q.name)]
          /\ op' = [op EXCEPT ![c] = q]
          /\ env' = [env EXCEPT ![c] = IF q.name = "HSet" THEN Encode(q) ELSE @]
    BY <1>4 DEF Begin
  <2>2. CASE FirstStep(q.name) = "lockProtocol"
    <3>1. q.name # "HSet"
      BY <2>2 DEF FirstStep
    <3>2. pc'[c] = "lockProtocol" /\ env'[c] = env[c] /\ todo'[c] = todo[c]
      BY <1>1, <1>4, <2>1, <2>2, <3>1 DEF Begin
    <3> QED  BY <2>1, <3>2 DEF InCall
  <2>3. CASE FirstStep(q.name) = "scan"
    <3>1. pc'[c] = "scan" /\ op'[c] = q /\ q.name = "HGetAll"
      BY <1>1, <2>1, <2>3 DEF FirstStep
    <3> QED  BY <3>1 DEF InCall
  <2>4. CASE FirstStep(q.name) \notin {"lockProtocol", "scan"}
    BY <1>1, <1>3, <2>1, <2>4 DEF FirstStep
  <2> QED  BY <2>2, <2>3, <2>4
<1>5. CASE LockProtocol(c)
  <2>1. /\ pc[c] = "lockProtocol" /\ pc'[c] = AfterLock(op[c].name)
        /\ at'[c] = at[c] /\ todo'[c] = todo[c]
    BY <1>1, <1>5 DEF LockProtocol
  <2>2. at[c] = 1 /\ todo[c] = {}
    BY <1>1, <2>1 DEF Shape, InCall
  <2>3. AfterLock(op[c].name) \in {"collect", "read", "visit"}
    BY DEF AfterLock
  <2> QED  BY <2>1, <2>2, <2>3 DEF InCall
<1>6. CASE LockCollection(c)  BY <1>1, <1>3, <1>6 DEF LockCollection
<1>7. CASE Read(c)  BY <1>1, <1>2, <1>3, <1>7 DEF Read
<1>8. CASE DecodeExpired(c)  BY <1>1, <1>3, <1>8 DEF DecodeExpired
<1>9. CASE HGetAll(c)
  <2>1. pc[c] = "scan" /\ pc'[c] = "sweep" /\ op' = op
    BY <1>1, <1>9 DEF HGetAll
  <2> QED  BY <2>1 DEF InCall
<1>10. CASE Sweep(c)
  <2>1. pc[c] = "sweep" /\ pc' = pc /\ op' = op
    BY <1>10 DEF Sweep
  <2> QED  BY <2>1 DEF InCall
<1>11. CASE Visit(c)  BY <1>1, <1>3, <1>11 DEF Visit
<1>12. CASE Edit(c)  BY <1>1, <1>3, <1>12 DEF Edit
<1>13. CASE readList(c)  BY <1>1, <1>3, <1>13 DEF readList
<1>14. CASE FailureIgnored(c)
  <2>1. Return(c, Absent) \/ (pc[c] = "sweep" /\ pc' = pc /\ op' = op)
    BY <1>14 DEF FailureIgnored
  <2>2. CASE pc[c] = "sweep" /\ pc' = pc /\ op' = op
    BY <2>2 DEF InCall
  <2> QED  BY <1>2, <2>1, <2>2
<1>15. CASE \/ ensureOpenFails(c) \/ ReplaceValue(c) \/ DeleteReturns(c) \/ DecodeLive(c)
            \/ LazyDelete(c) \/ put(c) \/ HGetAllReturns(c) \/ VisitReturns(c)
            \/ writeList(c) \/ Failed(c)
  <2>1. PICK r : Return(c, r)
    BY <1>15
    DEF ensureOpenFails, ReplaceValue, DeleteReturns, DecodeLive, LazyDelete, put,
        HGetAllReturns, VisitReturns, writeList, Failed
  <2> QED  BY <1>2, <2>1
<1> QED
  BY <1>4, <1>5, <1>6, <1>7, <1>8, <1>9, <1>10, <1>11, <1>12, <1>13, <1>14, <1>15,
     CollectInCall, PurgeInCall
  DEF Step, Lock, Run

LEMMA OtherStepInCall ==
  ASSUME TypeInv, LocksHeld, NEW c \in Procs, NEW d \in Procs, c # d, InCall(c), Step(d)
  PROVE  InCall(c)'
<1>1. /\ pc'[c] = pc[c] /\ op'[c] = op[c] /\ at'[c] = at[c]
      /\ todo'[c] = todo[c] /\ got'[c] = got[c] /\ env'[c] = env[c]
  BY LocalsStay
<1>2. pc[c] \in {"collect", "purge"} => store'["value"] = store["value"]
  BY SectionUndisturbed DEF ProtocolSection
<1> QED  BY <1>1, <1>2 DEF InCall

LEMMA ScalarInvInit == Init => ScalarInv
  BY CoreInvInit DEF Init, ScalarInv, InCall

LEMMA ScalarInvStep == ScalarInv /\ [Next]_vars => ScalarInv'
<1> SUFFICES ASSUME ScalarInv, [Next]_vars  PROVE ScalarInv'
  OBVIOUS
<1>1. CoreInv /\ CoreInv' /\ TypeInv /\ LocksHeld /\ \A c \in Procs : InCall(c)
  BY CoreInvStep DEF ScalarInv, CoreInv
<1>2. ASSUME NEW d \in Procs, Step(d)  PROVE \A c \in Procs : InCall(c)'
  BY <1>1, <1>2, OwnStepInCall, OtherStepInCall
<1>3. CASE UNCHANGED vars \/ CloseFlag \/ CloseEngine \/ Tick
  <2>1. UNCHANGED <<store, pc, op, at, todo, got, env>>
    BY <1>3 DEF vars, CloseFlag, CloseEngine, Tick, local
  <2> QED  BY <1>1, <2>1 DEF ScalarInv, InCall
<1> QED  BY <1>1, <1>2, <1>3 DEF Next, Step, ScalarInv

-----------------------------------------------------------------------------
(* The value the register holds, before and after a step.                  *)

LEMMA VisibleInSection ==
  ASSUME LocksHeld, NEW c \in Procs, pc[c] \in ProtocolSection
  PROVE  Visible = IF Replacing(c) THEN got[c] ELSE store["value"]
<1>1. \A d \in Procs : Replacing(d) => d = c
  BY DEF LocksHeld, Replacing, ProtocolSection
<1> QED  BY <1>1 DEF Visible

LEMMA VisibleAfterSection ==
  ASSUME TypeInv, LocksHeld, NEW c \in Procs, Step(c), pc[c] \in ProtocolSection
  PROVE  Visible' = IF Replacing(c)' THEN got'[c] ELSE store'["value"]
<1>1. \A d \in Procs : Replacing(d)' => d = c
  <2> SUFFICES ASSUME NEW d \in Procs, d # c, Replacing(d)'  PROVE FALSE
    OBVIOUS
  <2>1. pc[d] = "purge"
    BY OtherStays DEF Replacing
  <2> QED  BY <2>1 DEF LocksHeld, ProtocolSection
<1> QED  BY <1>1 DEF Visible

LEMMA VisibleOutside ==
  ASSUME TypeInv, LocksHeld, NEW c \in Procs, Step(c), pc[c] \notin ProtocolSection
  PROVE  Visible' = Visible /\ now' = now
<1>1. store'["value"] = store["value"] /\ now' = now /\ pc'[c] # "purge"
  BY OutsideStep
<1>2. ASSUME NEW d \in Procs
      PROVE  (Replacing(d)' <=> Replacing(d)) /\ (Replacing(d) => got'[d] = got[d])
  <2>1. CASE d = c
    BY <1>1, <2>1 DEF Replacing, ProtocolSection
  <2>2. CASE d # c
    <3>1. pc'[d] = pc[d] /\ op'[d] = op[d] /\ got'[d] = got[d]
      BY <2>2, LocalsStay
    <3> QED  BY <3>1 DEF Replacing
  <2> QED  BY <2>1, <2>2
<1>3. CASE \E d \in Procs : Replacing(d)
  <2>1. PICK d \in Procs : Replacing(d)
    BY <1>3
  <2>2. \A e \in Procs : Replacing(e) => e = d
    BY <2>1 DEF LocksHeld, Replacing, ProtocolSection
  <2>3. Visible = got[d]
    BY <2>1, <2>2 DEF Visible
  <2>4. Replacing(d)' /\ \A e \in Procs : Replacing(e)' => e = d
    BY <1>2, <2>1, <2>2
  <2>5. Visible' = got'[d]
    BY <2>4 DEF Visible
  <2> QED  BY <1>1, <1>2, <2>1, <2>3, <2>5
<1>4. CASE ~ \E d \in Procs : Replacing(d)
  <2>1. ~ \E d \in Procs : Replacing(d)'
    BY <1>2, <1>4
  <2> QED  BY <1>1, <1>4, <2>1 DEF Visible
<1> QED  BY <1>3, <1>4

LEMMA ValueKept ==
  ASSUME Visible' = Visible, now' = now
  PROVE  Value' = Value
  BY DEF Value, envelopeExpired

-----------------------------------------------------------------------------
(* A step of a goroutine moves its own part of the register only.          *)

LEMMA OthersMapped ==
  ASSUME TypeInv, NEW c \in Procs, Step(c)
  PROVE  /\ Phases' = [Phases EXCEPT ![c] = PhaseOf(c)']
         /\ Calls' = [Calls EXCEPT ![c] = CallOf(c)']
         /\ Encoded' = [Encoded EXCEPT ![c] = EnvOf(c)']
<1>1. ASSUME NEW d \in Procs, d # c
      PROVE  PhaseOf(d)' = PhaseOf(d) /\ CallOf(d)' = CallOf(d) /\ EnvOf(d)' = EnvOf(d)
  <2>1. pc'[d] = pc[d] /\ op'[d] = op[d] /\ todo'[d] = todo[d] /\ env'[d] = env[d]
    BY <1>1, LocalsStay
  <2> QED  BY <2>1 DEF PhaseOf, Done, CallOf, EnvOf, ScalarCall
<1> QED  BY <1>1 DEF Phases, Calls, Encoded

LEMMA ReturnMapped ==
  ASSUME TypeInv, NEW c \in Procs, Step(c), NEW r, Return(c, r)
  PROVE  Register!Answer(c, r) /\ CallOf(c)' = NoCall /\ EnvOf(c)' = Absent /\ PhaseOf(c)' = "idle"
<1>1. op'[c] = NoCall /\ env'[c] = Absent
  BY DEF TypeInv, TypeOK, Return
<1>2. ~ScalarCall(c)'
  BY <1>1, NoCallName DEF ScalarCall
<1>3. PhaseOf(c)' = "idle" /\ CallOf(c)' = NoCall /\ EnvOf(c)' = Absent
  BY <1>2 DEF PhaseOf, CallOf, EnvOf
<1>4. reply' = [to |-> c, result |-> r]
  BY DEF Return
<1> QED  BY <1>3, <1>4, OthersMapped DEF Register!Answer, Register!Become

(* A call that is none of the scalar's returns.                            *)
LEMMA OtherMapped ==
  ASSUME TypeInv, NEW c \in Procs, Step(c), NEW r, Return(c, r), ~ScalarCall(c),
         Value' = Value, now' = now
  PROVE  Register!Other(c)
<1>1. PhaseOf(c) = "idle" /\ CallOf(c) = NoCall /\ EnvOf(c) = Absent
  BY DEF PhaseOf, CallOf, EnvOf
<1>2. PhaseOf(c)' = "idle" /\ CallOf(c)' = NoCall /\ EnvOf(c)' = Absent
  BY ReturnMapped
<1>3. Phases' = Phases /\ Calls' = Calls /\ Encoded' = Encoded
  BY <1>1, <1>2, OthersMapped DEF Phases, Calls, Encoded
<1>4. reply'.to = c
  BY DEF Return
<1>5. Phases[c] = "idle"
  BY <1>1 DEF Phases
<1> QED  BY <1>3, <1>4, <1>5 DEF Register!Other

(* A step within a call that no caller of the scalar can see.              *)
LEMMA QuietMapped ==
  ASSUME TypeInv, NEW c \in Procs, Step(c), PhaseOf(c)' = PhaseOf(c), CallOf(c)' = CallOf(c),
         EnvOf(c)' = EnvOf(c), Silent, Value' = Value, now' = now
  PROVE  Register!Quiet
<1>1. Phases' = Phases /\ Calls' = Calls /\ Encoded' = Encoded
  BY OthersMapped DEF Phases, Calls, Encoded
<1> QED  BY <1>1 DEF Register!Quiet, Register!Silent, Register!NoAnswer, Silent, NoReply

-----------------------------------------------------------------------------
(* Calls of other operations: nothing of the register moves.               *)

LEMMA NotScalarMapped ==
  ASSUME ScalarInv, NEW c \in Procs, Step(c), ~ScalarCall(c), ~ScalarCall(c)'
  PROVE  Register!Next
<1>0. TypeInv /\ LocksHeld /\ Protected(c) /\ Shape(c) /\ op[c] \in Requests \cup {NoCall}
      /\ DOMAIN store = Records
  BY DEF ScalarInv, CoreInv, TypeInv, TypeOK
<1>1. Value' = Value /\ now' = now
  <2>1. CASE pc[c] \notin ProtocolSection
    BY <1>0, <2>1, VisibleOutside, ValueKept
  <2>2. CASE pc[c] \in ProtocolSection
    <3>1. op[c].name \notin {"Put", "Delete"}
      BY DEF ScalarCall
    <3>2. ~Replacing(c) /\ ~Replacing(c)'
      BY DEF Replacing, ScalarCall
    <3>3. store'["value"] = store["value"] /\ now' = now
      <4> USE DEF ProtocolSection, Goto, locks, clock, local
      <4>1. CASE LazyDelete(c)
        <5>1. op[c].name = "HGet"
          BY <1>0, <4>1 DEF LazyDelete, Shape, ScalarCall
        <5>2. Key(c) \in Fields
          BY <1>0, <5>1, CallArguments DEF Key
        <5>3. Key(c) # "value" /\ "value" \in DOMAIN store
          BY <1>0, <5>2, ConstAssumption DEF Records, Scalars
        <5>4. store' = [store EXCEPT ![Key(c)] = Absent] /\ now' = now
          BY <4>1 DEF LazyDelete, Deleted, Stored
        <5> QED  BY <5>3, <5>4
      <4>2. CASE Edit(c)
        <5>1. Arg(c) # "value" /\ "value" \in DOMAIN store
          BY <1>0, <4>2, ArgIsRecord DEF Edit, Scalars, Records
        <5>2. (\E e : store' = [store EXCEPT ![Arg(c)] = e]) /\ now' = now
          BY <4>2 DEF Edit, Deleted, Stored
        <5> QED  BY <5>1, <5>2
      <4>3. CASE \/ Read(c) \/ DecodeLive(c) \/ DecodeExpired(c) \/ Visit(c) \/ VisitReturns(c)
                 \/ Failed(c) \/ FailureIgnored(c)
        BY <4>3 DEF Read, DecodeLive, DecodeExpired, Visit, VisitReturns, Failed, FailureIgnored
      <4>4. ~ (\/ Collect(c) \/ Purge(c) \/ ReplaceValue(c) \/ DeleteReturns(c))
        BY <1>0, <3>1 DEF Collect, Purge, ReplaceValue, DeleteReturns, Shape
      <4>5. ~ (\/ Begin(c) \/ ensureOpenFails(c) \/ LockProtocol(c) \/ LockCollection(c)
               \/ put(c) \/ HGetAll(c) \/ Sweep(c) \/ HGetAllReturns(c)
               \/ readList(c) \/ writeList(c))
        BY <2>2 DEF Begin, ensureOpenFails, LockProtocol, LockCollection, put, HGetAll, Sweep,
                    HGetAllReturns, readList, writeList
      <4> QED  BY <4>1, <4>2, <4>3, <4>4, <4>5 DEF Step, Lock, Run
    <3> QED
      BY <1>0, <2>2, <3>2, <3>3, VisibleInSection, VisibleAfterSection, ValueKept
  <2> QED  BY <2>1, <2>2
<1>2. ASSUME NEW r, Return(c, r)  PROVE Register!Next
  BY <1>0, <1>1, <1>2, OtherMapped DEF Register!Next
<1>3. ASSUME Silent  PROVE Register!Next
  <2>1. /\ PhaseOf(c) = "idle" /\ CallOf(c) = NoCall /\ EnvOf(c) = Absent
        /\ PhaseOf(c)' = "idle" /\ CallOf(c)' = NoCall /\ EnvOf(c)' = Absent
    BY DEF PhaseOf, CallOf, EnvOf
  <2>2. Register!Quiet
    BY <1>0, <1>1, <1>3, <2>1, QuietMapped
  <2> QED  BY <2>2 DEF Register!Next
<1>4. Silent \/ \E r : Return(c, r)
  BY DEF Step, Lock, Run,
         Begin, ensureOpenFails, LockProtocol, LockCollection, Collect, Purge, ReplaceValue,
         DeleteReturns, Read, DecodeLive, DecodeExpired, LazyDelete, put, HGetAll, Sweep,
         HGetAllReturns, Visit, Edit, VisitReturns, readList, writeList, Failed, FailureIgnored
<1> QED  BY <1>2, <1>3, <1>4

(* The call of a scalar operation starts: the register is invoked.         *)
LEMMA BeginMapped ==
  ASSUME ScalarInv, NEW c \in Procs, Begin(c), ScalarCall(c)'
  PROVE  Register!Invoke(c)
<1>0. TypeInv /\ LocksHeld /\ InCall(c) /\ Step(c)
  BY DEF ScalarInv, CoreInv, Step
<1>1. PICK q \in Requests :
        /\ pc[c] = "idle" /\ pc' = [pc EXCEPT ![c] = FirstStep(q.name)]
        /\ op' = [op EXCEPT ![c] = q]
        /\ env' = [env EXCEPT ![c] = IF q.name = "HSet" THEN Encode(q) ELSE @]
  BY DEF Begin, Goto
<1>2. op[c] = NoCall /\ env[c] = Absent /\ ~ScalarCall(c)
  <2>1. op[c] = NoCall /\ env[c] = Absent
    BY <1>0, <1>1 DEF InCall
  <2>2. op[c].name = "none"
    BY <2>1, NoCallName
  <2> QED  BY <2>1, <2>2 DEF ScalarCall
<1>3. op'[c] = q /\ q.name \in {"Put", "Delete", "Get"}
  BY <1>0, <1>1 DEF TypeInv, TypeOK, ScalarCall
<1>4. env'[c] = Absent /\ pc'[c] = "lockProtocol"
  BY <1>0, <1>1, <1>2, <1>3 DEF TypeInv, TypeOK, FirstStep
<1>5. PhaseOf(c) = "idle" /\ EnvOf(c) = Absent
  BY <1>2 DEF PhaseOf, EnvOf
<1>6. PhaseOf(c)' = "called" /\ CallOf(c)' = q /\ EnvOf(c)' = Absent
  BY <1>3, <1>4 DEF PhaseOf, Done, CallOf, EnvOf
<1>7. Phases' = [Phases EXCEPT ![c] = "called"] /\ Calls' = [Calls EXCEPT ![c] = q]
  BY <1>0, <1>6, OthersMapped
<1>8. Encoded' = Encoded
  BY <1>0, <1>5, <1>6, OthersMapped DEF Encoded
<1>9. Phases[c] = "idle"
  BY <1>5 DEF Phases
<1>10. Value' = Value /\ now' = now
  BY <1>0, <1>1, VisibleOutside, ValueKept DEF ProtocolSection
<1>11. reply' = NoReply
  BY DEF Begin, Silent
<1> QED
  BY <1>7, <1>8, <1>9, <1>10, <1>11
  DEF Register!Invoke, Register!Become, Register!Silent, Register!NoAnswer, NoReply

(* A Put's expiry is fixed when it has the lock.                           *)
LEMMA LockMapped ==
  ASSUME ScalarInv, NEW c \in Procs, LockProtocol(c), ScalarCall(c)
  PROVE  Register!Stamp(c) \/ Register!Quiet
<1>0. TypeInv /\ LocksHeld /\ Step(c)
  BY DEF ScalarInv, CoreInv, Step, Lock
<1>1. /\ pc[c] = "lockProtocol" /\ pc'[c] = AfterLock(op[c].name) /\ op' = op
      /\ env'[c] = IF op[c].name = "Put" THEN Encode(op[c]) ELSE env[c]
      /\ Silent
  BY <1>0 DEF LockProtocol, Goto, TypeInv, TypeOK
<1>2. Value' = Value /\ now' = now
  BY <1>0, <1>1, VisibleOutside, ValueKept DEF ProtocolSection
<1>3. PhaseOf(c) = "called" /\ CallOf(c) = op[c] /\ EnvOf(c) = env[c]
  BY <1>1 DEF PhaseOf, Done, CallOf, EnvOf
<1>4. CallOf(c)' = op[c] /\ EnvOf(c)' = env'[c]
  BY <1>1 DEF CallOf, EnvOf, ScalarCall
<1>5. CASE op[c].name = "Put"
  <2>1. PhaseOf(c)' = "stamped"
    BY <1>1, <1>5 DEF PhaseOf, ScalarCall, AfterLock
  <2>2. Phases[c] = "called" /\ Calls[c] = op[c]
    BY <1>3 DEF Phases, Calls
  <2>3. Calls' = Calls
    BY <1>0, <1>3, <1>4, OthersMapped DEF Calls
  <2>4. Phases' = [Phases EXCEPT ![c] = "stamped"] /\ Encoded' = [Encoded EXCEPT ![c] = Encode(op[c])]
    BY <1>0, <1>1, <1>4, <1>5, <2>1, OthersMapped
  <2> QED
    BY <1>1, <1>2, <1>5, <2>2, <2>3, <2>4
    DEF Register!Stamp, Register!Become, Register!Silent, Register!NoAnswer, Silent, NoReply,
        Encode, Envelope
<1>6. CASE op[c].name # "Put"
  <2>1. PhaseOf(c)' = "called"
    BY <1>1, <1>6 DEF PhaseOf, Done, ScalarCall, AfterLock
  <2>2. env'[c] = env[c]
    BY <1>1, <1>6
  <2> QED  BY <1>0, <1>1, <1>2, <1>3, <1>4, <2>1, <2>2, QuietMapped
<1> QED  BY <1>5, <1>6

-----------------------------------------------------------------------------
(* The steps of Put, Delete and Get under protocolMu.                      *)

LEMMA CollectMapped ==
  ASSUME ScalarInv, NEW c \in Procs, Collect(c)
  PROVE  Register!Remove(c) \/ Register!Quiet
<1>0. TypeInv /\ LocksHeld /\ InCall(c) /\ InCall(c)' /\ Shape(c) /\ Step(c)
  BY CollectInCall DEF ScalarInv, CoreInv, TypeInv, Step, Run
<1>1. /\ pc[c] = "collect" /\ op' = op /\ env' = env /\ store' = store /\ now' = now /\ Silent
      /\ pc'[c] = IF at[c] < 5 THEN "collect" ELSE "purge"
      /\ at'[c] = at[c] + 1 /\ at[c] \in 1..5
  BY <1>0, GroupsOfScalar DEF Collect, Goto, clock, TypeInv, TypeOK, Shape
<1>2. got'[c] = store["value"]
  <2>1. got'[c] = IF at[c] = 1 THEN store["value"] ELSE got[c]
    BY <1>0 DEF Collect, TypeInv, TypeOK
  <2>2. at[c] > 1 => got[c] = store["value"]
    BY <1>0, <1>1 DEF InCall
  <2>3. at[c] = 1 \/ at[c] > 1
    BY <1>1
  <2> QED  BY <2>1, <2>2, <2>3
<1>3. op[c].name \in {"Put", "Delete"} /\ ScalarCall(c) /\ ScalarCall(c)'
  BY <1>0, <1>1 DEF Shape, ScalarCall
<1>4. Visible = store["value"]
  BY <1>0, <1>1, VisibleInSection DEF ProtocolSection, Replacing
<1>5. Visible' = store["value"]
  BY <1>0, <1>1, <1>2, VisibleAfterSection DEF ProtocolSection
<1>6. Value' = Value
  BY <1>1, <1>4, <1>5, ValueKept
<1>7. CallOf(c)' = CallOf(c) /\ EnvOf(c)' = EnvOf(c) /\ CallOf(c) = op[c]
  BY <1>1, <1>3 DEF CallOf, EnvOf
<1>8. CASE PhaseOf(c)' = PhaseOf(c)
  BY <1>0, <1>1, <1>6, <1>7, <1>8, QuietMapped
<1>9. CASE PhaseOf(c)' # PhaseOf(c)
  <2>1. op[c].name = "Delete" /\ pc'[c] = "purge" /\ "value" \notin todo'[c]
        /\ PhaseOf(c) = "called" /\ PhaseOf(c)' = "done"
    BY <1>1, <1>3, <1>9 DEF PhaseOf, Done
  <2>2. store["value"] = Absent
    BY <1>0, <1>1, <2>1 DEF InCall
  <2>3. Value' = Absent
    BY <1>5, <2>2 DEF Value, envelopeExpired
  <2>4. Phases[c] = "called" /\ Calls[c] = op[c]
    BY <1>7, <2>1 DEF Phases, Calls
  <2>5. Phases' = [Phases EXCEPT ![c] = "done"]
    BY <1>0, <2>1, OthersMapped
  <2>6. Calls' = Calls /\ Encoded' = Encoded
    BY <1>0, <1>7, OthersMapped DEF Calls, Encoded
  <2> QED
    BY <1>1, <2>1, <2>3, <2>4, <2>5, <2>6
    DEF Register!Remove, Register!Become, Register!Silent, Register!NoAnswer, Silent, NoReply
<1> QED  BY <1>8, <1>9

LEMMA PurgeMapped ==
  ASSUME ScalarInv, NEW c \in Procs, Purge(c)
  PROVE  Register!Remove(c) \/ Register!Quiet
<1>0. TypeInv /\ LocksHeld /\ InCall(c) /\ InCall(c)' /\ Shape(c) /\ Step(c)
  BY PurgeInCall DEF ScalarInv, CoreInv, TypeInv, Step, Run
<1>1. /\ pc[c] = "purge" /\ pc' = pc /\ op' = op /\ env' = env /\ got' = got
      /\ now' = now /\ Silent
  BY DEF Purge, clock
<1>2. PICK r \in todo[c] : Deleted(r) /\ todo' = [todo EXCEPT ![c] = @ \ {r}]
  BY DEF Purge
<1>3. todo'[c] = todo[c] \ {r} /\ store' = [store EXCEPT ![r] = Absent] /\ DOMAIN store = Records
  BY <1>0, <1>2 DEF Deleted, Stored, TypeInv, TypeOK
<1>4. op[c].name \in {"Put", "Delete"} /\ ScalarCall(c) /\ ScalarCall(c)'
  BY <1>0, <1>1 DEF Shape, ScalarCall
<1>5. CallOf(c)' = CallOf(c) /\ EnvOf(c)' = EnvOf(c) /\ CallOf(c) = op[c]
  BY <1>1, <1>4 DEF CallOf, EnvOf
<1>6. Visible = IF op[c].name = "Put" THEN got[c] ELSE store["value"]
  BY <1>0, <1>1, VisibleInSection DEF ProtocolSection, Replacing
<1>7. Visible' = IF op[c].name = "Put" THEN got[c] ELSE store'["value"]
  BY <1>0, <1>1, VisibleAfterSection DEF ProtocolSection, Replacing
<1>8. CASE op[c].name = "Put"
  <2>1. Value' = Value
    BY <1>1, <1>6, <1>7, <1>8, ValueKept
  <2>2. PhaseOf(c)' = PhaseOf(c)
    BY <1>1, <1>4, <1>8 DEF PhaseOf
  <2> QED  BY <1>0, <1>1, <1>5, <2>1, <2>2, QuietMapped
<1>9. CASE op[c].name = "Delete" /\ r # "value"
  <2>1. store'["value"] = store["value"] /\ ("value" \in todo'[c] <=> "value" \in todo[c])
    BY <1>3, <1>9, RecordKinds
  <2>2. Value' = Value
    BY <1>1, <1>6, <1>7, <1>9, <2>1, ValueKept
  <2>3. PhaseOf(c)' = PhaseOf(c)
    BY <1>1, <1>4, <1>9, <2>1 DEF PhaseOf, Done
  <2> QED  BY <1>0, <1>1, <1>5, <2>2, <2>3, QuietMapped
<1>10. CASE op[c].name = "Delete" /\ r = "value"
  <2>1. store'["value"] = Absent /\ "value" \in todo[c] /\ "value" \notin todo'[c]
    BY <1>2, <1>3, <1>10, RecordKinds
  <2>2. Value' = Absent
    BY <1>7, <1>10, <2>1 DEF Value, envelopeExpired
  <2>3. PhaseOf(c) = "called" /\ PhaseOf(c)' = "done"
    BY <1>1, <1>4, <1>10, <2>1 DEF PhaseOf, Done
  <2>4. Phases[c] = "called" /\ Calls[c] = op[c]
    BY <1>5, <2>3 DEF Phases, Calls
  <2>5. Phases' = [Phases EXCEPT ![c] = "done"]
    BY <1>0, <2>3, OthersMapped
  <2>6. Calls' = Calls /\ Encoded' = Encoded
    BY <1>0, <1>5, OthersMapped DEF Calls, Encoded
  <2> QED
    BY <1>1, <1>10, <2>2, <2>4, <2>5, <2>6
    DEF Register!Remove, Register!Become, Register!Silent, Register!NoAnswer, Silent, NoReply
<1> QED  BY <1>4, <1>8, <1>9, <1>10

(* What the register holds after a call that held the lock has returned.   *)
LEMMA VisibleAfterReturn ==
  ASSUME TypeInv, LocksHeld, NEW c \in Procs, Step(c), pc[c] \in ProtocolSection,
         NEW r, Return(c, r)
  PROVE  Visible' = store'["value"]
<1>1. ~Replacing(c)'
  BY DEF Return, Replacing, TypeInv, TypeOK
<1> QED  BY <1>1, VisibleAfterSection

LEMMA ReplaceValueMapped ==
  ASSUME ScalarInv, NEW c \in Procs, ReplaceValue(c)
  PROVE  Register!Write(c)
<1>0. TypeInv /\ LocksHeld /\ Step(c)
  BY DEF ScalarInv, CoreInv, TypeInv, Step, Run
<1>1. /\ pc[c] = "purge" /\ op[c].name = "Put" /\ Return(c, Ok) /\ now' = now
      /\ store' = [store EXCEPT !["value"] = env[c]] /\ "value" \in DOMAIN store
  BY <1>0, RecordKinds DEF ReplaceValue, Stored, clock, TypeInv, TypeOK
<1>2. Visible' = env[c]
  BY <1>0, <1>1, VisibleAfterReturn DEF ProtocolSection
<1>3. Phases[c] = "stamped" /\ Encoded[c] = env[c]
  BY <1>1 DEF Phases, Encoded, PhaseOf, EnvOf, ScalarCall
<1>4. Value' = Register!Live(Encoded[c], now)
  BY <1>1, <1>2, <1>3 DEF Value, envelopeExpired, Register!Live
<1>5. Register!Answer(c, Ok)
  BY <1>0, <1>1, ReturnMapped
<1> QED  BY <1>1, <1>3, <1>4, <1>5 DEF Register!Write

LEMMA DeleteReturnsMapped ==
  ASSUME ScalarInv, NEW c \in Procs, DeleteReturns(c)
  PROVE  Register!Finish(c)
<1>0. TypeInv /\ LocksHeld /\ Step(c)
  BY DEF ScalarInv, CoreInv, TypeInv, Step, Run
<1>1. /\ pc[c] = "purge" /\ op[c].name = "Delete" /\ todo[c] = {} /\ Return(c, Ok)
      /\ now' = now /\ store' = store
  BY DEF DeleteReturns, clock
<1>2. Visible = store["value"]
  BY <1>0, <1>1, VisibleInSection DEF ProtocolSection, Replacing
<1>3. Value' = Value
  BY <1>0, <1>1, <1>2, VisibleAfterReturn, ValueKept DEF ProtocolSection
<1>4. Phases[c] = "done" /\ Calls[c] = op[c]
  BY <1>1 DEF Phases, Calls, PhaseOf, Done, CallOf, ScalarCall
<1>5. Register!Answer(c, Ok)
  BY <1>0, <1>1, ReturnMapped
<1> QED  BY <1>1, <1>3, <1>4, <1>5 DEF Register!Finish

(* A Get under the lock sees what the register holds.                      *)
LEMMA GetSees ==
  ASSUME ScalarInv, NEW c \in Procs, ScalarCall(c), pc[c] \in {"read", "decode", "lazy"}
  PROVE  /\ TypeInv /\ LocksHeld
         /\ op[c].name = "Get" /\ Key(c) = "value" /\ Visible = store["value"]
         /\ pc[c] \in {"decode", "lazy"} => got[c] = store["value"]
         /\ pc[c] = "lazy" => Value = Absent
         /\ CallOf(c) = op[c]
         /\ PhaseOf(c) = IF pc[c] = "lazy" THEN "done" ELSE "called"
<1>0. TypeInv /\ LocksHeld /\ Protected(c) /\ Shape(c) /\ op[c] \in Requests \cup {NoCall}
  BY DEF ScalarInv, CoreInv, TypeInv, TypeOK
<1>1. op[c].name = "Get"
  BY <1>0 DEF Shape, ScalarCall
<1>2. Key(c) = "value"
  BY <1>0, <1>1, CallArguments DEF Key
<1>3. Visible = store["value"]
  BY <1>0, <1>1, VisibleInSection DEF ProtocolSection, Replacing
<1>4. pc[c] \in {"decode", "lazy"} => got[c] = store["value"]
  BY <1>0, <1>2 DEF Protected
<1>5. pc[c] = "lazy" => Value = Absent
  BY <1>0, <1>3, <1>4 DEF Protected, Value
<1>6. CallOf(c) = op[c] /\ PhaseOf(c) = IF pc[c] = "lazy" THEN "done" ELSE "called"
  BY <1>1 DEF CallOf, PhaseOf, Done
<1> QED  BY <1>0, <1>1, <1>2, <1>3, <1>4, <1>5, <1>6

(* The value found, or its absence, is returned: the lookup happens here.  *)
LEMMA LookupMapped ==
  ASSUME ScalarInv, NEW c \in Procs, Step(c), ScalarCall(c), pc[c] \in {"read", "decode"},
         Return(c, Value), store' = store, now' = now
  PROVE  Register!Lookup(c)
<1>1. /\ TypeInv /\ LocksHeld /\ op[c].name = "Get" /\ Visible = store["value"]
      /\ CallOf(c) = op[c] /\ PhaseOf(c) = "called"
  BY GetSees
<1>2. Value' = Value
  BY <1>1, VisibleAfterReturn, ValueKept DEF ProtocolSection
<1>3. Phases[c] = "called" /\ Calls[c] = op[c]
  BY <1>1 DEF Phases, Calls
<1>4. Register!Answer(c, Value)
  BY <1>1, ReturnMapped
<1> QED  BY <1>1, <1>2, <1>3, <1>4 DEF Register!Lookup

LEMMA ReadMapped ==
  ASSUME ScalarInv, NEW c \in Procs, Read(c), ScalarCall(c)
  PROVE  Register!Lookup(c) \/ Register!Quiet
<1>0. Step(c) /\ pc[c] = "read" /\ store' = store /\ now' = now
  BY DEF Read, Step, Run, clock
<1>1. /\ TypeInv /\ LocksHeld /\ op[c].name = "Get" /\ Key(c) = "value"
      /\ Visible = store["value"] /\ PhaseOf(c) = "called"
  BY <1>0, GetSees
<1>2. CASE store["value"] = Absent
  <2>1. Value = Absent
    BY <1>1, <1>2 DEF Value, envelopeExpired
  <2>2. Return(c, Absent)
    BY <1>1, <1>2 DEF Read
  <2> QED  BY <1>0, <2>1, <2>2, LookupMapped
<1>3. CASE store["value"] # Absent
  <2>1. pc'[c] = "decode" /\ op' = op /\ env' = env /\ Silent
    BY <1>1, <1>3 DEF Read, TypeInv, TypeOK
  <2>2. Visible' = store["value"]
    BY <1>0, <1>1, <2>1, VisibleAfterSection DEF ProtocolSection, Replacing
  <2>3. Value' = Value
    BY <1>0, <1>1, <2>2, ValueKept
  <2>4. PhaseOf(c)' = "called" /\ CallOf(c)' = CallOf(c) /\ EnvOf(c)' = EnvOf(c)
    BY <1>1, <2>1 DEF PhaseOf, Done, CallOf, EnvOf, ScalarCall
  <2> QED  BY <1>0, <1>1, <2>1, <2>3, <2>4, QuietMapped
<1> QED  BY <1>2, <1>3

LEMMA DecodeLiveMapped ==
  ASSUME ScalarInv, NEW c \in Procs, DecodeLive(c), ScalarCall(c)
  PROVE  Register!Lookup(c)
<1>0. /\ Step(c) /\ pc[c] = "decode" /\ store' = store /\ now' = now
      /\ ~envelopeExpired(got[c]) /\ Return(c, got[c])
  BY DEF DecodeLive, Step, Run, clock
<1>1. Value = got[c]
  <2>1. got[c] = store["value"] /\ Visible = store["value"]
    BY <1>0, GetSees
  <2> QED  BY <1>0, <2>1 DEF Value
<1> QED  BY <1>0, <1>1, LookupMapped

LEMMA DecodeExpiredMapped ==
  ASSUME ScalarInv, NEW c \in Procs, DecodeExpired(c), ScalarCall(c)
  PROVE  Register!Miss(c)
<1>0. /\ Step(c) /\ pc[c] = "decode" /\ store' = store /\ now' = now
      /\ envelopeExpired(got[c]) /\ op' = op /\ env' = env /\ Silent
  BY DEF DecodeExpired, Step, Run, clock, Goto, local
<1>1. /\ TypeInv /\ LocksHeld /\ op[c].name = "Get" /\ got[c] = store["value"]
      /\ Visible = store["value"] /\ PhaseOf(c) = "called" /\ CallOf(c) = op[c]
  BY <1>0, GetSees
<1>2. pc'[c] = "lazy"
  BY <1>1 DEF DecodeExpired, Goto, TypeInv, TypeOK
<1>3. Visible' = store["value"]
  BY <1>0, <1>1, <1>2, VisibleAfterSection DEF ProtocolSection, Replacing
<1>4. Value = Absent /\ Value' = Value
  BY <1>0, <1>1, <1>3, ValueKept DEF Value
<1>5. PhaseOf(c)' = "done" /\ CallOf(c)' = CallOf(c) /\ EnvOf(c)' = EnvOf(c)
  BY <1>0, <1>1, <1>2 DEF PhaseOf, Done, CallOf, EnvOf, ScalarCall
<1>6. Phases[c] = "called" /\ Calls[c] = op[c]
  BY <1>1 DEF Phases, Calls
<1>7. Phases' = [Phases EXCEPT ![c] = "done"]
  BY <1>0, <1>1, <1>5, OthersMapped
<1>8. Calls' = Calls /\ Encoded' = Encoded
  BY <1>0, <1>1, <1>5, OthersMapped DEF Calls, Encoded
<1> QED
  BY <1>0, <1>1, <1>4, <1>6, <1>7, <1>8
  DEF Register!Miss, Register!Become, Register!Silent, Register!NoAnswer, Silent, NoReply

(* The lazy Delete, done or failed, changes nothing a caller can see.      *)
LEMMA LazyMapped ==
  ASSUME ScalarInv, NEW c \in Procs, LazyDelete(c) \/ FailureIgnored(c), ScalarCall(c)
  PROVE  Register!Finish(c)
<1>0. Step(c)
  BY DEF Step, Run
<1>1. pc[c] = "lazy" /\ Return(c, Absent) /\ now' = now
      /\ (store' = store \/ store' = [store EXCEPT ![Key(c)] = Absent])
  <2>1. CASE LazyDelete(c)
    BY <2>1 DEF LazyDelete, Deleted, Stored, clock
  <2>2. CASE FailureIgnored(c)
    <3>1. pc[c] # "sweep"
      BY DEF ScalarInv, InCall, ScalarCall
    <3> QED  BY <2>2, <3>1 DEF FailureIgnored
  <2> QED  BY <2>1, <2>2
<1>2. /\ TypeInv /\ LocksHeld /\ op[c].name = "Get" /\ Key(c) = "value"
      /\ Visible = store["value"] /\ Value = Absent /\ PhaseOf(c) = "done" /\ CallOf(c) = op[c]
  BY <1>1, GetSees
<1>3. Visible' = Visible \/ Visible' = Absent
  <2>1. "value" \in DOMAIN store
    BY <1>2, RecordKinds DEF TypeInv, TypeOK
  <2>2. Visible' = store'["value"]
    BY <1>0, <1>1, <1>2, VisibleAfterReturn DEF ProtocolSection
  <2> QED  BY <1>1, <1>2, <2>1, <2>2
<1>4. Value' = Value
  <2>1. CASE Visible' = Visible  BY <1>1, <2>1, ValueKept
  <2>2. CASE Visible' = Absent  BY <1>2, <2>2 DEF Value, envelopeExpired
  <2> QED  BY <1>3, <2>1, <2>2
<1>5. Phases[c] = "done" /\ Calls[c] = op[c]
  BY <1>2 DEF Phases, Calls
<1>6. Register!Answer(c, Absent)
  BY <1>0, <1>1, <1>2, ReturnMapped
<1> QED  BY <1>1, <1>2, <1>4, <1>5, <1>6 DEF Register!Finish

(* A failed Put or Delete may have removed the old value; no call that     *)
(* fails has stored a new one.                                             *)
LEMMA FailedMapped ==
  ASSUME ScalarInv, NEW c \in Procs, Failed(c), ScalarCall(c)
  PROVE  Register!Fail(c)
<1>0. TypeInv /\ LocksHeld /\ Step(c) /\ Shape(c) /\ InCall(c) /\ op[c].name \in {"Put", "Delete", "Get"}
  BY DEF ScalarInv, CoreInv, TypeInv, Step, Run, ScalarCall
<1>1. Return(c, Err) /\ store' = store /\ now' = now
  BY <1>0 DEF Failed
<1>2. pc[c] \in {"collect", "purge", "read"}
  BY <1>0 DEF Failed, AtEngineCall, Shape, InCall
<1>3. Visible' = store["value"]
  BY <1>0, <1>1, <1>2, VisibleAfterReturn DEF ProtocolSection
<1>4. CallOf(c) = op[c] /\ PhaseOf(c) # "idle"
  BY <1>0 DEF CallOf, PhaseOf, ScalarCall
<1>5. Phases[c] # "idle" /\ Calls[c] = op[c]
  BY <1>4 DEF Phases, Calls
<1>6. Value' = Value \/ (op[c].name \in {"Put", "Delete"} /\ Value' = Absent)
  <2>1. CASE ~Replacing(c)
    <3>1. Visible = store["value"]
      BY <1>0, <1>2, <2>1, VisibleInSection DEF ProtocolSection
    <3> QED  BY <1>1, <1>3, <3>1, ValueKept
  <2>2. CASE Replacing(c)
    <3>1. Visible = got[c] /\ pc[c] = "purge" /\ op[c].name = "Put"
      BY <1>0, <1>2, <2>2, VisibleInSection DEF ProtocolSection, Replacing
    <3>2. CASE "value" \in todo[c]
      <4>1. Visible' = Visible
        BY <1>0, <1>3, <3>1, <3>2 DEF InCall
      <4> QED  BY <1>1, <4>1, ValueKept
    <3>3. CASE "value" \notin todo[c]
      <4>1. Visible' = Absent
        BY <1>0, <1>3, <3>1, <3>3 DEF InCall
      <4> QED  BY <3>1, <4>1 DEF Value, envelopeExpired
    <3> QED  BY <3>2, <3>3
  <2> QED  BY <2>1, <2>2
<1>7. Register!Answer(c, Err)
  BY <1>0, <1>1, ReturnMapped
<1> QED  BY <1>1, <1>5, <1>6, <1>7 DEF Register!Fail

LEMMA EnvelopeExpiry == \A e \in Envelopes : e.exp \in Nat
<1> TAKE e \in Envelopes
<1>1. CASE e \in [data : Data \cup {One}, exp : Nat]
  BY <1>1
<1>2. CASE e \in [data : Seq(ListItems), exp : {0}]
  <2>1. e.exp \in {0}
    BY <1>2
  <2> QED  BY <2>1
<1> QED  BY <1>1, <1>2, Zenon DEF Envelopes

(* Time passes: a value is gone at its expiry, and not earlier.            *)
LEMMA TickMapped ==
  ASSUME ScalarInv, Tick
  PROVE  Register!Tick
<1>1. /\ now \in Nat /\ now' = now + 1 /\ Silent
      /\ UNCHANGED <<store, pc, op, at, todo, got, env, tally>>
  BY DEF ScalarInv, CoreInv, TypeInv, TypeOK, Tick, local
<1>2. Phases' = Phases /\ Calls' = Calls /\ Encoded' = Encoded
  BY <1>1 DEF Phases, Calls, Encoded, PhaseOf, Done, CallOf, EnvOf, ScalarCall
<1>3. Visible' = Visible
  BY <1>1 DEF Visible, Replacing
<1>4. Visible \in Envelopes \cup {Absent}
  <2>1. store["value"] \in Envelopes \cup {Absent}
    BY RecordKinds DEF ScalarInv, CoreInv, TypeInv, TypeOK
  <2>2. \A c \in Procs : got[c] \in Envelopes \cup {Absent}
    BY DEF ScalarInv, CoreInv, TypeInv, TypeOK
  <2> QED  BY <2>1, <2>2 DEF Visible
<1>5. Visible # Absent => Visible.exp \in Nat
  BY <1>4, EnvelopeExpiry
<1>6. Value' = Register!Live(Value, now + 1)
  <2>1. CASE envelopeExpired(Visible)
    <3>1. Visible # Absent /\ Visible.exp > 0 /\ now + 1 >= Visible.exp
      BY <1>1, <1>5, <2>1 DEF envelopeExpired
    <3>2. envelopeExpired(Visible)'
      BY <1>1, <1>3, <3>1 DEF envelopeExpired
    <3> QED  BY <2>1, <3>2 DEF Value, Register!Live
  <2>2. CASE ~envelopeExpired(Visible)
    BY <1>1, <1>3, <2>2 DEF Value, envelopeExpired, Register!Live
  <2> QED  BY <2>1, <2>2
<1> QED
  BY <1>1, <1>2, <1>6 DEF Register!Tick, Register!Silent, Register!NoAnswer, Silent, NoReply

-----------------------------------------------------------------------------
(* Every step of a goroutine is a step of the register.                    *)
LEMMA StepMapped ==
  ASSUME ScalarInv, NEW c \in Procs, Step(c)
  PROVE  Register!Next
<1>0. op \in [Procs -> Requests \cup {NoCall}] /\ Shape(c) /\ InCall(c)
  BY DEF ScalarInv, CoreInv, TypeInv, TypeOK
<1>1. CASE ~ScalarCall(c) /\ ~ScalarCall(c)'
  BY <1>1, NotScalarMapped
<1>2. CASE ~ScalarCall(c) /\ ScalarCall(c)'
  <2>1. CASE Begin(c)
    BY <1>2, <2>1, BeginMapped DEF Register!Next
  <2>2. CASE ~Begin(c)
    <3>1. op'[c] = op[c] \/ op'[c] = NoCall
      BY <1>0, <2>2
      DEF Step, Lock, Run, Return,
          ensureOpenFails, LockProtocol, LockCollection, Collect, Purge, ReplaceValue,
          DeleteReturns, Read, DecodeLive, DecodeExpired, LazyDelete, put, HGetAll, Sweep,
          HGetAllReturns, Visit, Edit, VisitReturns, readList, writeList, Failed, FailureIgnored
    <3>2. CASE op'[c] = op[c]
      BY <1>2, <3>2, Zenon DEF ScalarCall
    <3>3. CASE op'[c] = NoCall
      <4>1. op'[c].name = "none"
        BY <3>3, NoCallName
      <4> QED  BY <1>2, <4>1 DEF ScalarCall
    <3> QED  BY <3>1, <3>2, <3>3
  <2> QED  BY <2>1, <2>2
<1>3. CASE ScalarCall(c)
  <2>1. pc[c] \notin {"idle", "put", "scan", "sweep", "visit", "edit",
                      "lockCollection", "readList", "writeList"}
    <3>1. pc[c] # "idle"
      <4>1. pc[c] = "idle" => op[c] = NoCall
        BY <1>0 DEF InCall
      <4>2. op[c] # NoCall
        BY <1>3, NoCallName DEF ScalarCall
      <4> QED  BY <4>1, <4>2
    <3>2. pc[c] \notin {"scan", "sweep"}
      BY <1>0, <1>3 DEF InCall, ScalarCall
    <3>3. pc[c] \notin {"put", "visit", "edit", "lockCollection", "readList", "writeList"}
      BY <1>0, <1>3 DEF Shape, ScalarCall
    <3> QED  BY <3>1, <3>2, <3>3
  <2>2. ~ (\/ Begin(c) \/ ensureOpenFails(c) \/ LockCollection(c) \/ put(c) \/ HGetAll(c)
           \/ Sweep(c) \/ HGetAllReturns(c) \/ Visit(c) \/ Edit(c) \/ VisitReturns(c)
           \/ readList(c) \/ writeList(c))
    BY <2>1 DEF Goto, Begin, ensureOpenFails, LockCollection, put, HGetAll, Sweep,
                HGetAllReturns, Visit, Edit, VisitReturns, readList, writeList
  <2>3. \/ LockProtocol(c) \/ Collect(c) \/ Purge(c) \/ ReplaceValue(c) \/ DeleteReturns(c)
        \/ Read(c) \/ DecodeLive(c) \/ DecodeExpired(c) \/ LazyDelete(c) \/ FailureIgnored(c)
        \/ Failed(c)
    BY <2>2 DEF Step, Lock, Run
  <2>4. \/ Register!Stamp(c) \/ Register!Write(c) \/ Register!Remove(c) \/ Register!Lookup(c)
        \/ Register!Miss(c) \/ Register!Finish(c) \/ Register!Fail(c) \/ Register!Quiet
    <3>1. CASE LockProtocol(c)  BY <1>3, <3>1, LockMapped
    <3>2. CASE Collect(c)  BY <3>2, CollectMapped
    <3>3. CASE Purge(c)  BY <3>3, PurgeMapped
    <3>4. CASE ReplaceValue(c)  BY <3>4, ReplaceValueMapped
    <3>5. CASE DeleteReturns(c)  BY <3>5, DeleteReturnsMapped
    <3>6. CASE Read(c)  BY <1>3, <3>6, ReadMapped
    <3>7. CASE DecodeLive(c)  BY <1>3, <3>7, DecodeLiveMapped
    <3>8. CASE DecodeExpired(c)  BY <1>3, <3>8, DecodeExpiredMapped
    <3>9. CASE LazyDelete(c) \/ FailureIgnored(c)  BY <1>3, <3>9, LazyMapped
    <3>10. CASE Failed(c)  BY <1>3, <3>10, FailedMapped
    <3> QED
      BY <2>3, <3>1, <3>2, <3>3, <3>4, <3>5, <3>6, <3>7, <3>8, <3>9, <3>10
  <2> QED  BY <2>4 DEF Register!Next
<1> QED  BY <1>1, <1>2, <1>3

(* So is every step of the handle and of the clock.                        *)
LEMMA NextMapped ==
  ASSUME ScalarInv, [Next]_vars
  PROVE  [Register!Next]_(Register!avars)
<1>1. ASSUME NEW c \in Procs, Step(c)  PROVE Register!Next
  BY <1>1, StepMapped
<1>2. CASE Tick
  BY <1>2, TickMapped DEF Register!Next
<1>3. CASE CloseFlag \/ CloseEngine \/ UNCHANGED vars
  <2>1. UNCHANGED <<store, now, pc, op, todo, got, env>>
    BY <1>3 DEF CloseFlag, CloseEngine, vars, local
  <2>2. Phases' = Phases /\ Calls' = Calls /\ Encoded' = Encoded
    BY <2>1 DEF Phases, Calls, Encoded, PhaseOf, Done, CallOf, EnvOf, ScalarCall
  <2>3. Value' = Value
    BY <2>1 DEF Value, Visible, Replacing, envelopeExpired
  <2>4. CASE Silent
    BY <2>1, <2>2, <2>3, <2>4
    DEF Register!Next, Register!Quiet, Register!Silent, Register!NoAnswer, Silent, NoReply
  <2>5. CASE UNCHANGED vars
    BY <2>1, <2>2, <2>3, <2>5 DEF Register!avars, vars
  <2> QED  BY <1>3, <2>4, <2>5 DEF CloseFlag, CloseEngine
<1> QED  BY <1>1, <1>2, <1>3 DEF Next, Step

LEMMA InitMapped == Init => Register!Init
<1> SUFFICES ASSUME Init  PROVE Register!Init
  OBVIOUS
<1>1. \A c \in Procs : pc[c] = "idle" /\ op[c] = NoCall /\ ~ScalarCall(c)
  BY NoCallName DEF Init, ScalarCall
<1>2. Visible = Absent
  BY <1>1, RecordKinds DEF Init, Visible, Replacing
<1>3. Value = Absent
  BY <1>2 DEF Value, envelopeExpired
<1>4. /\ Phases = [c \in Procs |-> "idle"] /\ Calls = [c \in Procs |-> NoCall]
      /\ Encoded = [c \in Procs |-> Absent]
  BY <1>1 DEF Phases, Calls, Encoded, PhaseOf, CallOf, EnvOf
<1> QED  BY <1>3, <1>4 DEF Init, Register!Init, Register!NoAnswer, NoReply

(* db.go:24-26: Get, Put and Delete of a scalar are atomic and exact about *)
(* expiry: with any number of goroutines and any mix of calls, through     *)
(* failed engine calls and a Close, every behaviour of the DB is one of    *)
(* the register with an expiry.                                            *)
THEOREM DBImplementsRegister == Spec => ScalarIsRegister
<1>1. Init => Register!Init
  BY InitMapped
<1>2. Init => ScalarInv
  BY ScalarInvInit
<1>3. ScalarInv /\ [Next]_vars => ScalarInv'
  BY ScalarInvStep
<1>4. ScalarInv /\ [Next]_vars => [Register!Next]_(Register!avars)
  BY NextMapped
<1> QED  BY <1>1, <1>2, <1>3, <1>4, PTL DEF Spec, ScalarIsRegister, Register!Spec
=============================================================================
