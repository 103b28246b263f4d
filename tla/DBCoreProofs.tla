---------------------------- MODULE DBCoreProofs ----------------------------
(***************************************************************************)
(* DBCore for any number of goroutines, fields, members, payloads and TTLs *)
(* and for any bounds.  The proofs go in layers: the shape of a call in    *)
(* progress (TypeInv), who holds which mutex (LocksHeld), and on top of    *)
(* them what the mutexes protect.                                          *)
(***************************************************************************)
EXTENDS DBCore, TLAPS

Scalar == [data : Data, exp : Nat]

(* What a goroutine's program counter says about the rest of its state.    *)
Shape(c) ==
  /\ pc[c] = "lockProtocol" =>
       op[c].name \in {"Put", "Delete", "Get", "HGet", "HDelete", "SAdd", "SRemove"}
  /\ pc[c] \in {"collect", "purge"} => op[c].name \in {"Put", "Delete"}
  /\ pc[c] \in {"read", "decode", "lazy"} => op[c].name \in {"Get", "HGet"}
  /\ pc[c] \in {"visit", "edit"} => op[c].name \in {"HDelete", "SAdd", "SRemove"}
  /\ pc[c] = "put" => op[c].name = "HSet"
  /\ pc[c] \in {"scan", "sweep"} => op[c].name = "HGetAll"
  /\ pc[c] \in {"lockCollection", "readList", "writeList"} =>
       op[c].name \in {"RPush", "LPush"}
  /\ pc[c] = "collect" => at[c] \in 1..5
  /\ pc[c] \in {"lockProtocol", "visit", "edit", "idle"} => at[c] >= 1
  /\ pc[c] \in {"idle", "lockProtocol"} => at[c] = 1
  /\ pc[c] = "edit" => at[c] <= Len(op[c].keys)
  /\ pc[c] = "sweep" => todo[c] \subseteq Fields
  /\ pc[c] = "put" \/ (pc[c] \in {"collect", "purge"} /\ op[c].name = "Put")
       => env[c] \in Scalar
  /\ pc[c] = "writeList" => got[c] = Absent \/ got[c] \in EnvelopeOf("list")

TypeInv == TypeOK /\ \A c \in Procs : Shape(c)

(* A goroutine whose local state a step leaves alone keeps its shape.      *)
LEMMA ShapeKept ==
  ASSUME NEW d \in Procs, Shape(d), pc'[d] = pc[d], op'[d] = op[d], at'[d] = at[d],
         todo'[d] = todo[d], got'[d] = got[d], env'[d] = env[d]
  PROVE  Shape(d)'
BY DEF Shape, EnvelopeOf

(* What the name of a call says about its arguments.                       *)
LEMMA CallArguments ==
  ASSUME NEW q \in Requests \cup {NoCall}
  PROVE  /\ q.ttl \in Nat
         /\ q.name \in {"Put", "HSet"} => q.data \in Data
         /\ q.name = "Get" => q.keys[1] = "value"
         /\ q.name \in {"HSet", "HGet"} => q.keys[1] \in Fields
         /\ q.name = "HDelete" => q.keys \in Seq(Fields)
         /\ q.name \in {"SAdd", "SRemove"} => q.keys \in Seq(Members)
         /\ q.name \in {"RPush", "LPush"} => q.data \in Batches
         /\ q.name \in Operations \cup {"none"}
<1>1. \A S : KeyLists(S) \subseteq Seq(S)
  BY ConstAssumption DEF KeyLists
<1> USE ConstAssumption DEF Request
<1>2. CASE q \in Request({"Put"}, {<<"value">>}, Data, TTLs)  BY <1>2 DEF Operations
<1>3. CASE q \in Request({"Get"}, {<<"value">>}, {Absent}, {0})
  <2>1. q.name = "Get" /\ q.keys = <<"value">> /\ q.ttl = 0  BY <1>3
  <2>2. q.keys[1] = "value"  BY <2>1
  <2>3. QED  BY <2>1, <2>2 DEF Operations
<1>4. CASE q \in Request({"Delete", "HGetAll"}, {<<>>}, {Absent}, {0})
  BY <1>4 DEF Operations
<1>5. CASE q \in Request({"HSet"}, [1..1 -> Fields], Data, TTLs)
  <2>1. q.name = "HSet" /\ q.keys \in [1..1 -> Fields] /\ q.data \in Data /\ q.ttl \in Nat
    BY <1>5
  <2>2. q.keys[1] \in Fields  BY <2>1
  <2>3. QED  BY <2>1, <2>2 DEF Operations
<1>6. CASE q \in Request({"HGet"}, [1..1 -> Fields], {Absent}, {0})
  <2>1. q.name = "HGet" /\ q.keys \in [1..1 -> Fields] /\ q.ttl = 0  BY <1>6
  <2>2. q.keys[1] \in Fields  BY <2>1
  <2>3. QED  BY <2>1, <2>2 DEF Operations
<1>7. CASE q \in Request({"HDelete"}, KeyLists(Fields), {Absent}, {0})
  BY <1>1, <1>7 DEF Operations
<1>8. CASE q \in Request({"SAdd", "SRemove"}, KeyLists(Members), {Absent}, {0})
  BY <1>1, <1>8 DEF Operations
<1>9. CASE q \in Request({"RPush", "LPush"}, {<<"list">>}, Batches, {0})
  BY <1>9 DEF Operations
<1>10. CASE q = NoCall
  BY <1>10 DEF NoCall
<1>11. QED
  BY <1>2, <1>3, <1>4, <1>5, <1>6, <1>7, <1>8, <1>9, <1>10, Zenon DEF Requests

LEMMA NoCallName == NoCall.name = "none"
  BY DEF NoCall

LEMMA CallInWorkload == \A q \in Requests : q.name \in Workload
  BY DEF Requests, Request

LEMMA RequestName == \A q \in Requests : q.name \in Operations
  BY ConstAssumption DEF Requests, Request

(* The envelopes of each kind of record.                                   *)
LEMMA RecordKinds ==
  /\ EnvelopeOf("value") = Scalar
  /\ \A f \in Fields : EnvelopeOf(f) = Scalar
  /\ \A m \in Members : EnvelopeOf(m) = [data : {One}, exp : {0}]
  /\ EnvelopeOf("list") = [data : Seq(ListItems), exp : {0}]
  /\ {"value", "list", "ttl"} \subseteq Records /\ Fields \subseteq Records /\ Members \subseteq Records
  /\ \A r \in Records : EnvelopeOf(r) \subseteq Envelopes
  /\ Scalar \subseteq Envelopes
<1>1. \A r \in Records : EnvelopeOf(r) \subseteq Envelopes
  BY DEF Envelopes, EnvelopeOf
<1>2. EnvelopeOf("value") = Scalar /\ "value" \in Records
  BY ConstAssumption DEF EnvelopeOf, Scalar, Records, Scalars
<1>3. Scalar \subseteq Envelopes
  BY <1>1, <1>2
<1>4. QED
  BY <1>1, <1>2, <1>3, ConstAssumption DEF EnvelopeOf, Scalar, Records, Scalars

LEMMA ExpiryIsNat == \A e \in Envelopes : e.exp \in Nat
<1>1. \A D : \A e \in [data : D, exp : Nat] : e.exp \in Nat
  OBVIOUS
<1>2. \A D : \A e \in [data : D, exp : {0}] : e.exp \in Nat
  OBVIOUS
<1>3. QED  BY <1>1, <1>2, Zenon DEF Envelopes

LEMMA TypeInvInit == Init => TypeInv
  BY ConstAssumption
  DEF Init, TypeInv, TypeOK, Shape, Labels, Records, Scalars, NoCall

(* A call that returns leaves its goroutine idle and everything typed.     *)
LEMMA ReturnTyped ==
  ASSUME TypeInv, NEW c \in Procs, NEW r, Return(c, r),
         DOMAIN store' = Records,
         \A k \in Records : store'[k] # Absent => store'[k] \in EnvelopeOf(k),
         now' = now, handle' = handle, faults' \in 0..MaxFaults
  PROVE  TypeInv'
<1> USE DEF TypeInv
<1>1. TypeOK'
  BY DEF TypeOK, Return, Labels
<1>2. ASSUME NEW d \in Procs  PROVE Shape(d)'
  BY DEF TypeOK, Return, Shape
<1>3. QED  BY <1>1, <1>2

LEMMA BeginTyped ==
  ASSUME TypeInv, NEW c \in Procs, Begin(c)
  PROVE  TypeInv'
<1> USE DEF TypeInv
<1>1. PICK q \in Requests :
        /\ pc[c] = "idle" /\ pc' = [pc EXCEPT ![c] = FirstStep(q.name)]
        /\ op' = [op EXCEPT ![c] = q]
        /\ env' = [env EXCEPT ![c] = IF q.name = "HSet" THEN Encode(q) ELSE @]
  BY DEF Begin, Goto
<1>2. UNCHANGED <<store, now, handle, faults, protocolMu, collectionMu, at, todo, got, tally>>
  BY DEF Begin, locks, clock
<1>3. q.name = "HSet" => Encode(q) \in Scalar
  BY CallArguments DEF TypeOK, Encode, Envelope, Scalar
<1>4. /\ FirstStep(q.name) \in Labels
      /\ FirstStep(q.name) \in {"put", "scan", "lockCollection", "lockProtocol"}
      /\ FirstStep(q.name) = "put" <=> q.name = "HSet"
      /\ FirstStep(q.name) = "scan" => q.name = "HGetAll"
      /\ FirstStep(q.name) = "lockCollection" => q.name \in {"RPush", "LPush"}
      /\ FirstStep(q.name) = "lockProtocol" =>
           q.name \in {"Put", "Delete", "Get", "HGet", "HDelete", "SAdd", "SRemove"}
  BY RequestName DEF FirstStep, Labels, Operations
<1>5. TypeOK'
  BY <1>1, <1>2, <1>3, <1>4, RecordKinds DEF TypeOK
<1>6. ASSUME NEW d \in Procs  PROVE Shape(d)'
  BY <1>1, <1>2, <1>3, <1>4 DEF TypeOK, Shape
<1>7. QED  BY <1>5, <1>6

(* The steps that return leave the store well typed.                       *)
LEMMA ReturningTyped ==
  ASSUME TypeInv, NEW c \in Procs,
         \/ ensureOpenFails(c) \/ ReplaceValue(c) \/ DeleteReturns(c) \/ DecodeLive(c)
         \/ LazyDelete(c) \/ put(c) \/ HGetAllReturns(c) \/ VisitReturns(c)
         \/ writeList(c) \/ Failed(c)
  PROVE  TypeInv'
<1> USE DEF TypeInv
<1>1. op[c] \in Requests \cup {NoCall} /\ Shape(c)
  BY DEF TypeOK
<1>2. CASE ensureOpenFails(c) \/ DeleteReturns(c) \/ DecodeLive(c)
           \/ HGetAllReturns(c) \/ VisitReturns(c)
  BY <1>2, ReturnTyped
  DEF TypeOK, ensureOpenFails, DeleteReturns, DecodeLive, HGetAllReturns, VisitReturns, clock
<1>3. CASE ReplaceValue(c)
  BY <1>1, <1>3, ReturnTyped, RecordKinds DEF TypeOK, Shape, ReplaceValue, Stored, clock
<1>4. CASE LazyDelete(c)
  BY <1>4, ReturnTyped DEF TypeOK, LazyDelete, Deleted, Stored, clock
<1>5. CASE put(c)
  <2>1. op[c].name = "HSet" /\ env[c] \in Scalar
    BY <1>1, <1>5 DEF Shape, put
  <2>2. Key(c) \in Fields
    BY <1>1, <2>1, CallArguments DEF Key
  <2>3. QED
    BY <1>5, <2>1, <2>2, ReturnTyped, RecordKinds DEF TypeOK, put, Stored, clock
<1>6. CASE writeList(c)
  <2> op[c].name \in {"RPush", "LPush"} /\ (got[c] = Absent \/ got[c] \in EnvelopeOf("list"))
    BY <1>1, <1>6 DEF Shape, writeList
  <2>0. op[c].data \in Seq(ListItems)
    BY <1>1, CallArguments, ConstAssumption
  <2>1. Items(got[c]) \in Seq(ListItems)
    <3>1. EnvelopeOf("list") = [data : Seq(ListItems), exp : {0}]  BY RecordKinds
    <3>2. CASE got[c] = Absent
      <4>1. Items(got[c]) = <<>>  BY <3>2 DEF Items
      <4>2. QED  BY <4>1
    <3>3. CASE got[c] # Absent
      <4>1. got[c] \in [data : Seq(ListItems), exp : {0}]  BY <3>1, <3>3
      <4>2. got[c].data \in Seq(ListItems)  BY <4>1
      <4>3. QED  BY <3>3, <4>2 DEF Items
    <3>4. QED  BY <3>2, <3>3
  <2>2. Pushed(op[c], Items(got[c])) \in Seq(ListItems)
    BY <2>0, <2>1 DEF Pushed
  <2>3. Envelope(Pushed(op[c], Items(got[c])), 0) \in EnvelopeOf("list")
    BY <2>2, RecordKinds DEF Envelope
  <2>4. QED
    BY <1>6, <2>3, ReturnTyped, RecordKinds DEF TypeOK, writeList, Stored, clock
<1>7. CASE Failed(c)
  <2>1. faults' \in 0..MaxFaults
    BY <1>7, ConstAssumption DEF TypeOK, Failed, EngineFails
  <2>2. PICK r : Return(c, r)
    BY <1>7 DEF Failed
  <2>3. store' = store /\ now' = now /\ handle' = handle
    BY <1>7 DEF Failed
  <2>4. QED
    BY <2>1, <2>2, <2>3, ReturnTyped DEF TypeOK
<1>8. QED  BY <1>2, <1>3, <1>4, <1>5, <1>6, <1>7

LEMMA ArgIsRecord ==
  ASSUME TypeInv, NEW c \in Procs, pc[c] = "edit"
  PROVE  Arg(c) \in Records \ Scalars /\ (op[c].name \in {"SAdd", "SRemove"} => Arg(c) \in Members)
<1>1. op[c] \in Requests \cup {NoCall} /\ Shape(c) /\ at[c] \in Nat
  BY DEF TypeInv, TypeOK
<1>2. CASE op[c].name = "HDelete"
  <2>1. op[c].keys \in Seq(Fields) /\ at[c] \in 1..Len(op[c].keys)
    BY <1>1, <1>2, CallArguments DEF Shape
  <2>2. QED  BY <1>2, <2>1, RecordKinds, ConstAssumption DEF Arg
<1>3. CASE op[c].name \in {"SAdd", "SRemove"}
  <2>1. op[c].keys \in Seq(Members) /\ at[c] \in 1..Len(op[c].keys)
    BY <1>1, <1>3, CallArguments DEF Shape
  <2>2. QED  BY <1>3, <2>1, RecordKinds, ConstAssumption DEF Arg
<1>4. QED  BY <1>1, <1>2, <1>3 DEF Shape

(* The steps that stay within a call.                                      *)
LEMMA RunningTyped ==
  ASSUME TypeInv, NEW c \in Procs,
         \/ LockProtocol(c) \/ LockCollection(c) \/ Collect(c) \/ Purge(c) \/ DecodeExpired(c)
         \/ HGetAll(c) \/ Sweep(c) \/ Visit(c) \/ Edit(c) \/ readList(c)
  PROVE  TypeInv'
<1> USE DEF TypeInv, Goto, locks, clock, local
<1>1. op[c] \in Requests \cup {NoCall} /\ Shape(c)
  BY DEF TypeOK
<1>2. CASE LockProtocol(c)
  <2>1. op[c].name = "Put" => Encode(op[c]) \in Scalar
    <3>1. op[c].ttl \in Nat /\ (op[c].name = "Put" => op[c].data \in Data)
      BY Zenon, <1>1, CallArguments
    <3>2. now \in Nat
      BY DEF TypeOK
    <3>3. QED  BY <3>1, <3>2 DEF Encode, Envelope, Scalar
  <2>2. TypeOK'
    BY <1>2, <2>1, RecordKinds DEF TypeOK, LockProtocol, AfterLock, Labels
  <2>3. ASSUME NEW d \in Procs  PROVE Shape(d)'
    BY <1>1, <1>2, <2>1 DEF TypeOK, Shape, LockProtocol, AfterLock
  <2>4. QED  BY <2>2, <2>3
<1>3. CASE LockCollection(c)
  <2>1. TypeOK'
    BY <1>3 DEF TypeOK, LockCollection, Labels
  <2>2. ASSUME NEW d \in Procs  PROVE Shape(d)'
    <3>1. CASE d # c
      BY <1>3, <3>1, ShapeKept DEF TypeOK, LockCollection
    <3>2. CASE d = c
      BY <1>1, <1>3, <3>2 DEF TypeOK, Shape, LockCollection
    <3>3. QED  BY <3>1, <3>2
  <2>3. QED  BY <2>1, <2>2
<1>4. CASE Collect(c)
  <2>1. Found(Groups[at[c]]) \subseteq Records
    <3>1. at[c] \in 1..5
      BY <1>1, <1>4 DEF Shape, Collect
    <3>2. Groups[at[c]] \subseteq Records
      BY <3>1 DEF Groups, Records, Scalars
    <3>3. QED  BY <3>2 DEF Found
  <2>2. TypeOK'
    <3>1. pc' \in [Procs -> Labels] /\ at' \in [Procs -> Nat]
      BY <1>4 DEF TypeOK, Collect, Labels
    <3>2. todo' \in [Procs -> SUBSET Records]
      <4>1. todo[c] \cup Found(Groups[at[c]]) \in SUBSET Records
        BY <2>1 DEF TypeOK
      <4>2. todo' = [todo EXCEPT ![c] = todo[c] \cup Found(Groups[at[c]])]
        BY <1>4 DEF Collect
      <4>3. QED  BY <4>1, <4>2 DEF TypeOK
    <3>3. got' \in [Procs -> Envelopes \cup {Absent}]
      <4>1. store["value"] \in Envelopes \cup {Absent}
        BY RecordKinds DEF TypeOK
      <4>2. got' = [got EXCEPT ![c] = IF at[c] = 1 THEN store["value"] ELSE got[c]]
        BY <1>4 DEF Collect
      <4>3. QED  BY <4>1, <4>2 DEF TypeOK
    <3>4. UNCHANGED <<store, now, handle, faults, protocolMu, collectionMu, op, env, tally>>
      BY <1>4 DEF Collect
    <3>5. QED  BY <3>1, <3>2, <3>3, <3>4 DEF TypeOK
  <2>3. ASSUME NEW d \in Procs  PROVE Shape(d)'
    <3>1. CASE d # c
      BY <1>4, <3>1, ShapeKept DEF TypeOK, Collect
    <3>2. CASE d = c
      <4>1. /\ pc'[c] = IF at[c] < 5 THEN "collect" ELSE "purge"
            /\ at'[c] = at[c] + 1 /\ op'[c] = op[c] /\ env'[c] = env[c]
        BY <1>4 DEF TypeOK, Collect, Groups
      <4>2. at[c] \in 1..5 /\ op[c].name \in {"Put", "Delete"} /\ pc[c] = "collect"
        BY <1>1, <1>4 DEF Shape, Collect
      <4>3. op[c].name = "Put" => env[c] \in Scalar
        BY <1>1, <4>2 DEF Shape
      <4>4. op'[c].name \in {"Put", "Delete"} /\ (op'[c].name = "Put" => env'[c] \in Scalar)
        BY Zenon, <4>1, <4>2, <4>3
      <4>5. pc'[c] \in {"collect", "purge"} /\ (pc'[c] = "collect" => at'[c] \in 1..5)
        <5>1. at \in [Procs -> Nat] /\ at[c] \in 1..5
          BY <4>2 DEF TypeOK
        <5>2. /\ pc'[c] = IF at[c] < 5 THEN "collect" ELSE "purge"
              /\ at'[c] = at[c] + 1
          BY <4>1
        <5>3. at[c] < 5 => at[c] + 1 \in 1..5
          BY <5>1
        <5>4. QED  BY <5>2, <5>3, Zenon
      <4>6. QED  BY <3>2, <4>4, <4>5 DEF Shape
    <3>3. QED  BY <3>1, <3>2
  <2>4. QED  BY <2>2, <2>3
<1>5. CASE Purge(c)
  <2>1. PICK r \in todo[c] : Deleted(r) /\ todo' = [todo EXCEPT ![c] = @ \ {r}]
    BY <1>5 DEF Purge
  <2>2. TypeOK'
    BY <1>5, <2>1 DEF TypeOK, Purge, Deleted, Stored
  <2>3. ASSUME NEW d \in Procs  PROVE Shape(d)'
    BY ZenonT(60), <1>1, <1>5, <2>1 DEF TypeOK, Shape, Purge
  <2>4. QED  BY <2>2, <2>3
<1>6. CASE DecodeExpired(c)
  <2>1. pc[c] = "decode" /\ pc' = [pc EXCEPT ![c] = "lazy"]
    BY <1>6 DEF DecodeExpired
  <2>2. UNCHANGED <<store, now, handle, faults, protocolMu, collectionMu,
                    op, at, todo, got, env, tally>>
    BY <1>6 DEF DecodeExpired
  <2>3. TypeOK'
    BY <2>1, <2>2 DEF TypeOK, Labels
  <2>4. ASSUME NEW d \in Procs, d # c  PROVE Shape(d)'
    BY <2>1, <2>2, <2>4, ShapeKept DEF TypeOK
  <2>5. Shape(c)'
    BY <1>1, <2>1, <2>2 DEF TypeOK, Shape
  <2>6. QED  BY <2>3, <2>4, <2>5
<1>7. CASE HGetAll(c)
  <2>1. TypeOK'
    BY <1>7, RecordKinds DEF TypeOK, HGetAll, Labels
  <2>2. ASSUME NEW d \in Procs  PROVE Shape(d)'
    BY <1>1, <1>7 DEF TypeOK, Shape, HGetAll
  <2>3. QED  BY <2>1, <2>2
<1>8. CASE Sweep(c)
  <2>1. PICK f \in todo[c] : Deleted(f) /\ todo' = [todo EXCEPT ![c] = @ \ {f}]
    BY <1>8 DEF Sweep
  <2>2. TypeOK'
    BY <1>8, <2>1 DEF TypeOK, Sweep, Deleted, Stored
  <2>3. ASSUME NEW d \in Procs  PROVE Shape(d)'
    BY <1>1, <1>8, <2>1 DEF TypeOK, Shape, Sweep
  <2>4. QED  BY <2>2, <2>3
<1>9. CASE Visit(c)
  <2>1. /\ pc[c] = "visit" /\ at[c] <= Len(op[c].keys)
        /\ pc' = [pc EXCEPT ![c] = IF Wanted(c) THEN "edit" ELSE "visit"]
        /\ at' = [at EXCEPT ![c] = IF Wanted(c) THEN at[c] ELSE at[c] + 1]
    BY <1>9 DEF Visit
  <2>2. UNCHANGED <<store, now, handle, faults, protocolMu, collectionMu,
                    op, todo, got, env, tally>>
    BY <1>9 DEF Visit
  <2>3. TypeOK'
    BY <2>1, <2>2 DEF TypeOK, Labels
  <2>4. ASSUME NEW d \in Procs, d # c  PROVE Shape(d)'
    BY <2>1, <2>2, <2>4, ShapeKept DEF TypeOK
  <2>5. Shape(c)'
    <3>1. op[c].name \in {"HDelete", "SAdd", "SRemove"} /\ at[c] >= 1 /\ at[c] \in Nat
      BY <1>1, <2>1 DEF TypeOK, Shape
    <3>2. /\ pc'[c] \in {"visit", "edit"} /\ op'[c] = op[c] /\ at'[c] >= 1
          /\ pc'[c] = "edit" => at'[c] = at[c]
      BY <2>1, <2>2, <3>1 DEF TypeOK
    <3>3. QED  BY <2>1, <3>1, <3>2 DEF Shape
  <2>6. QED  BY <2>3, <2>4, <2>5
<1>10. CASE Edit(c)
  <2>1. Arg(c) \in Records /\ (op[c].name = "SAdd" => Arg(c) \in Members)
    BY <1>10, ArgIsRecord DEF Edit
  <2>2. TypeOK'
    <3>1. /\ DOMAIN store' = Records
          /\ \A r \in Records : store'[r] # Absent => store'[r] \in EnvelopeOf(r)
      <4>1. CASE op[c].name = "SAdd"
        <5>1. store' = [store EXCEPT ![Arg(c)] = Envelope(One, 0)]
          BY <1>10, <4>1 DEF Edit, Stored
        <5>2. Envelope(One, 0) \in EnvelopeOf(Arg(c))
          BY <2>1, <4>1, RecordKinds DEF Envelope
        <5>3. QED  BY <2>1, <5>1, <5>2 DEF TypeOK
      <4>2. CASE op[c].name # "SAdd"
        <5>1. store' = [store EXCEPT ![Arg(c)] = Absent]
          BY <1>10, <4>2 DEF Edit, Stored, Deleted
        <5>2. QED  BY <2>1, <5>1 DEF TypeOK
      <4>3. QED  BY <4>1, <4>2
    <3>2. pc' \in [Procs -> Labels] /\ at' \in [Procs -> Nat] /\ tally' \in [Procs -> Nat]
      BY <1>10 DEF TypeOK, Edit, Labels
    <3>3. UNCHANGED <<now, handle, faults, protocolMu, collectionMu, op, todo, got, env>>
      BY <1>10 DEF Edit
    <3>4. QED  BY <3>1, <3>2, <3>3 DEF TypeOK
  <2>3. ASSUME NEW d \in Procs  PROVE Shape(d)'
    <3>1. CASE d # c
      BY <1>10, <3>1, ShapeKept DEF TypeOK, Edit
    <3>2. CASE d = c
      <4>1. pc[c] = "edit" /\ pc'[c] = "visit" /\ at'[c] = at[c] + 1 /\ op'[c] = op[c]
        BY <1>10 DEF TypeOK, Edit
      <4>2. op[c].name \in {"HDelete", "SAdd", "SRemove"} /\ at[c] >= 1 /\ at[c] \in Nat
        BY <1>1, <4>1 DEF TypeOK, Shape
      <4>3. op'[c].name \in {"HDelete", "SAdd", "SRemove"}
        BY Zenon, <4>1, <4>2
      <4>4. at'[c] >= 1
        BY <1>10 DEF TypeOK, Edit
      <4>5. QED  BY <3>2, <4>1, <4>3, <4>4 DEF Shape
    <3>3. QED  BY <3>1, <3>2
  <2>4. QED  BY <2>2, <2>3
<1>11. CASE readList(c)
  <2>1. TypeOK'
    BY <1>11, RecordKinds DEF TypeOK, readList, Labels
  <2>2. ASSUME NEW d \in Procs  PROVE Shape(d)'
    BY <1>1, <1>11, RecordKinds DEF TypeOK, Shape, readList
  <2>3. QED  BY <2>1, <2>2
<1>12. QED
  BY <1>2, <1>3, <1>4, <1>5, <1>6, <1>7, <1>8, <1>9, <1>10, <1>11

LEMMA TypeInvStep == TypeInv /\ [Next]_vars => TypeInv'
<1> SUFFICES ASSUME TypeInv, [Next]_vars  PROVE TypeInv'
  OBVIOUS
<1> USE DEF TypeInv
<1>1. CASE UNCHANGED vars
  BY <1>1 DEF vars, TypeOK, Shape, EnvelopeOf
<1>2. ASSUME NEW c \in Procs, Read(c)  PROVE TypeInv'
  <2>1. op[c] \in Requests \cup {NoCall} /\ Shape(c) /\ op[c].name \in {"Get", "HGet"}
    BY <1>2 DEF TypeOK, Shape, Read
  <2>2. Key(c) \in Records
    BY <2>1, CallArguments, RecordKinds DEF Key
  <2>3. CASE Return(c, Absent)
    BY <1>2, <2>3, ReturnTyped DEF TypeOK, Read, clock
  <2>4. CASE ~Return(c, Absent)
    <3>1. TypeOK'
      BY <1>2, <2>2, <2>4, RecordKinds DEF TypeOK, Read, locks, clock, Labels
    <3>2. ASSUME NEW d \in Procs  PROVE Shape(d)'
      <4>1. CASE d # c
        BY <1>2, <2>4, <4>1, ShapeKept DEF TypeOK, Read
      <4>2. CASE d = c
        <5>1. pc'[c] = "decode" /\ op'[c] = op[c]
          BY <1>2, <2>4 DEF TypeOK, Read
        <5>2. QED  BY <2>1, <4>2, <5>1 DEF Shape
      <4>3. QED  BY <4>1, <4>2
    <3>3. QED  BY <3>1, <3>2
  <2>5. QED  BY <2>3, <2>4
<1>3. ASSUME NEW c \in Procs, FailureIgnored(c)  PROVE TypeInv'
  <2>1. faults' \in 0..MaxFaults /\ store' = store /\ now' = now /\ handle' = handle
    BY <1>3, ConstAssumption DEF TypeOK, FailureIgnored, EngineFails
  <2>2. CASE Return(c, Absent)
    BY <2>1, <2>2, ReturnTyped DEF TypeOK
  <2>3. CASE ~Return(c, Absent)
    <3>1. PICK f \in todo[c] : todo' = [todo EXCEPT ![c] = @ \ {f}]
      BY <1>3, <2>3 DEF FailureIgnored
    <3>2. UNCHANGED <<protocolMu, collectionMu, pc, op, at, got, env, tally>>
      BY <1>3, <2>3 DEF FailureIgnored, locks
    <3>3. TypeOK'
      BY <2>1, <3>1, <3>2 DEF TypeOK
    <3>4. ASSUME NEW d \in Procs  PROVE Shape(d)'
      BY <2>1, <3>1, <3>2 DEF TypeOK, Shape
    <3>5. QED  BY <3>3, <3>4
  <2>4. QED  BY <2>2, <2>3
<1>4. CASE CloseFlag
  <2>1. TypeOK'
    BY <1>4 DEF TypeOK, CloseFlag, locks, local
  <2>2. QED  BY <1>4, <2>1, ShapeKept DEF CloseFlag, local
<1>5. CASE CloseEngine
  <2>1. TypeOK'
    BY <1>5 DEF TypeOK, CloseEngine, locks, local
  <2>2. QED  BY <1>5, <2>1, ShapeKept DEF CloseEngine, local
<1>6. CASE Tick
  <2>1. TypeOK'
    BY <1>6 DEF TypeOK, Tick, locks, local
  <2>2. QED  BY <1>6, <2>1, ShapeKept DEF Tick, local
<1>7. QED
  BY <1>1, <1>2, <1>3, <1>4, <1>5, <1>6, BeginTyped, ReturningTyped, RunningTyped
  DEF Next, Lock, Run

(* Every call in progress is well formed, and every record the engine      *)
(* holds is an envelope of its kind, for all values of the constants.      *)
THEOREM CoreTypeCorrect == Spec => []TypeOK
<1>1. TypeInv => TypeOK
  BY DEF TypeInv
<1>2. QED  BY TypeInvInit, TypeInvStep, <1>1, PTL DEF Spec

-----------------------------------------------------------------------------
(* The second layer: a mutex is held by exactly the goroutine that is in   *)
(* the section it guards, on every path through a call.                    *)

ProtocolSection == {"collect", "purge", "read", "decode", "lazy", "visit", "edit"}
CollectionSection == {"readList", "writeList"}

LocksHeld ==
  \A c \in Procs : /\ protocolMu = c <=> pc[c] \in ProtocolSection
                   /\ collectionMu = c <=> pc[c] \in CollectionSection

Step(c) == Begin(c) \/ ensureOpenFails(c) \/ Lock(c) \/ Run(c)

LEMMA LocksHeldStep ==
  ASSUME TypeInv, LocksHeld, NEW c \in Procs, Step(c)
  PROVE  LocksHeld'
<1> USE ConstAssumption DEF LocksHeld, ProtocolSection, CollectionSection, locks, local, Goto
<1>0. pc \in [Procs -> Labels] /\ Shape(c) /\ protocolMu \in Procs \cup {None}
  BY DEF TypeInv, TypeOK
<1>1. ASSUME NEW r, Return(c, r)  PROVE LocksHeld'
  BY <1>0, <1>1 DEF Return
<1>2. CASE Begin(c)
  <2>1. PICK q \in Requests : pc[c] = "idle" /\ pc' = [pc EXCEPT ![c] = FirstStep(q.name)]
    BY <1>2 DEF Begin
  <2>2. FirstStep(q.name) \in {"put", "scan", "lockCollection", "lockProtocol"}
    BY DEF FirstStep
  <2>3. QED  BY <1>0, <1>2, <2>1, <2>2 DEF Begin
<1>3. CASE LockProtocol(c)
  BY <1>0, <1>3 DEF LockProtocol, AfterLock
<1>4. CASE LockCollection(c)
  BY <1>0, <1>4 DEF LockCollection
<1>5. CASE Collect(c)  BY <1>0, <1>5 DEF Collect
<1>6. CASE Purge(c)  BY <1>0, <1>6 DEF Purge
<1>7. CASE Read(c)
  BY <1>0, <1>1, <1>7 DEF Read
<1>8. CASE DecodeExpired(c)  BY <1>0, <1>8 DEF DecodeExpired
<1>9. CASE HGetAll(c)  BY <1>0, <1>9 DEF HGetAll
<1>10. CASE Sweep(c)  BY <1>0, <1>10 DEF Sweep
<1>11. CASE Visit(c)  BY <1>0, <1>11 DEF Visit
<1>12. CASE Edit(c)  BY <1>0, <1>12 DEF Edit
<1>13. CASE readList(c)  BY <1>0, <1>13 DEF readList
<1>14. CASE FailureIgnored(c)  BY <1>0, <1>1, <1>14 DEF FailureIgnored
<1>15. CASE \/ ensureOpenFails(c) \/ ReplaceValue(c) \/ DeleteReturns(c) \/ DecodeLive(c)
            \/ LazyDelete(c) \/ put(c) \/ HGetAllReturns(c) \/ VisitReturns(c)
            \/ writeList(c) \/ Failed(c)
  BY <1>1, <1>15
  DEF ensureOpenFails, ReplaceValue, DeleteReturns, DecodeLive, LazyDelete, put,
      HGetAllReturns, VisitReturns, writeList, Failed
<1>16. QED
  BY <1>2, <1>3, <1>4, <1>5, <1>6, <1>7, <1>8, <1>9, <1>10, <1>11, <1>12, <1>13, <1>14, <1>15
  DEF Step, Lock, Run

(* A goroutine in the section of protocolMu is left alone: a step of any   *)
(* other one changes neither the scalar nor a set member under it.         *)
LEMMA SectionUndisturbed ==
  ASSUME TypeInv, LocksHeld, NEW c \in Procs, NEW d \in Procs, c # d, Step(d),
         pc[c] \in ProtocolSection
  PROVE  /\ store'["value"] = store["value"]
         /\ \A m \in Members : store'[m] = store[m]
         /\ pc'[c] = pc[c] /\ op'[c] = op[c] /\ got'[c] = got[c] /\ at'[c] = at[c]
         /\ now' = now
<1>1. pc[d] \notin ProtocolSection /\ protocolMu # None
  BY ConstAssumption DEF LocksHeld
<1>2. op[d] \in Requests \cup {NoCall} /\ Shape(d) /\ DOMAIN store = Records
  BY DEF TypeInv, TypeOK
<1>3. /\ pc \in [Procs -> Labels] /\ op \in [Procs -> Requests \cup {NoCall}]
      /\ got \in [Procs -> Envelopes \cup {Absent}] /\ at \in [Procs -> Nat]
  BY DEF TypeInv, TypeOK
<1> USE DEF ProtocolSection, Goto, locks, clock, local
<1>4. ASSUME NEW r, Return(d, r)
      PROVE  pc'[c] = pc[c] /\ op'[c] = op[c] /\ got'[c] = got[c] /\ at'[c] = at[c]
  BY <1>3, <1>4 DEF Return
<1>5. ASSUME NEW x \in Fields \cup {"list"}, NEW e, store' = [store EXCEPT ![x] = e]
      PROVE  store'["value"] = store["value"] /\ \A m \in Members : store'[m] = store[m]
  <2>1. x # "value" /\ x \notin Members
    BY ConstAssumption DEF Scalars
  <2>2. "value" \in DOMAIN store /\ Members \subseteq DOMAIN store
    BY <1>2 DEF Records, Scalars
  <2>3. QED  BY <1>5, <2>1, <2>2
<1>6. CASE put(d) \/ writeList(d)
  <2>1. PICK x \in Fields \cup {"list"} : \E e : store' = [store EXCEPT ![x] = e]
    <3>1. CASE put(d)
      <4>1. Key(d) \in Fields
        BY <1>2, <3>1, CallArguments DEF put, Key, Shape
      <4>2. QED  BY <3>1, <4>1 DEF put, Stored
    <3>2. CASE writeList(d)
      BY <3>2 DEF writeList, Stored
    <3>3. QED  BY <1>6, <3>1, <3>2
  <2>2. PICK r : Return(d, r)
    BY <1>6 DEF put, writeList
  <2>3. now' = now
    BY <1>6 DEF put, writeList
  <2>4. QED  BY <1>4, <1>5, <2>1, <2>2, <2>3
<1>7. CASE Sweep(d)
  <2>1. PICK f \in todo[d] : store' = [store EXCEPT ![f] = Absent]
    BY <1>7 DEF Sweep, Deleted, Stored
  <2>2. todo[d] \subseteq Fields
    BY <1>2, <1>7 DEF Sweep, Shape
  <2>3. UNCHANGED <<pc, op, at, got, now>>
    BY <1>7 DEF Sweep
  <2>4. QED  BY <1>5, <2>1, <2>2, <2>3
<1>8. CASE Begin(d)  BY <1>3, <1>8 DEF Begin
<1>9. CASE LockCollection(d)  BY <1>3, <1>9 DEF LockCollection
<1>10. CASE HGetAll(d)  BY <1>3, <1>10 DEF HGetAll
<1>11. CASE readList(d)  BY <1>3, <1>11 DEF readList
<1>12. CASE FailureIgnored(d)  BY <1>1, <1>3, <1>12 DEF FailureIgnored
<1>13. CASE ensureOpenFails(d) \/ HGetAllReturns(d) \/ Failed(d)
  <2>1. store' = store /\ now' = now
    BY <1>13 DEF ensureOpenFails, HGetAllReturns, Failed
  <2>2. PICK r : Return(d, r)
    BY <1>13 DEF ensureOpenFails, HGetAllReturns, Failed
  <2>3. QED  BY <1>4, <2>1, <2>2
<1>14. ~ (\/ LockProtocol(d) \/ Collect(d) \/ Purge(d) \/ ReplaceValue(d) \/ DeleteReturns(d)
          \/ Read(d) \/ DecodeLive(d) \/ DecodeExpired(d) \/ LazyDelete(d)
          \/ Visit(d) \/ Edit(d) \/ VisitReturns(d))
  BY <1>1
  DEF LockProtocol, Collect, Purge, ReplaceValue, DeleteReturns, Read, DecodeLive,
      DecodeExpired, LazyDelete, Visit, Edit, VisitReturns
<1>15. QED
  BY <1>6, <1>7, <1>8, <1>9, <1>10, <1>11, <1>12, <1>13, <1>14 DEF Step, Lock, Run

-----------------------------------------------------------------------------
(* The third layer: what a goroutine in the section has read still holds.  *)

Protected(c) ==
  /\ pc[c] \in {"decode", "lazy"} /\ Key(c) = "value" => got[c] = store["value"]
  /\ pc[c] = "lazy" => envelopeExpired(got[c])
  /\ pc[c] = "edit" /\ op[c].name = "SAdd" => store[Arg(c)] = Absent
  /\ pc[c] = "edit" /\ op[c].name = "SRemove" => store[Arg(c)] # Absent

CoreInv == TypeInv /\ LocksHeld /\ \A c \in Procs : Protected(c)

LEMMA OwnStepProtected ==
  ASSUME TypeInv, NEW c \in Procs, Protected(c), Step(c)
  PROVE  Protected(c)'
<1> USE DEF Goto, locks, clock, local
<1>0. pc \in [Procs -> Labels] /\ op \in [Procs -> Requests \cup {NoCall}]
      /\ got \in [Procs -> Envelopes \cup {Absent}] /\ at \in [Procs -> Nat] /\ Shape(c)
  BY DEF TypeInv, TypeOK
<1>1. ASSUME pc'[c] \notin {"decode", "lazy", "edit"}  PROVE Protected(c)'
  BY <1>1 DEF Protected
<1>2. ASSUME NEW r, Return(c, r)  PROVE Protected(c)'
  BY <1>0, <1>1, <1>2 DEF Return
<1>3. CASE Begin(c)
  <2>1. PICK q \in Requests : pc' = [pc EXCEPT ![c] = FirstStep(q.name)]
    BY <1>3 DEF Begin
  <2>2. QED  BY <1>0, <1>1, <2>1 DEF FirstStep
<1>4. CASE LockProtocol(c)  BY <1>0, <1>1, <1>4 DEF LockProtocol, AfterLock
<1>5. CASE LockCollection(c)  BY <1>0, <1>1, <1>5 DEF LockCollection
<1>6. CASE Collect(c)  BY <1>0, <1>1, <1>6 DEF Collect
<1>7. CASE Purge(c)  BY <1>0, <1>1, <1>7 DEF Purge
<1>8. CASE HGetAll(c)  BY <1>0, <1>1, <1>8 DEF HGetAll
<1>9. CASE Sweep(c)  BY <1>0, <1>1, <1>9 DEF Sweep
<1>10. CASE Edit(c)  BY <1>0, <1>1, <1>10 DEF Edit
<1>11. CASE readList(c)  BY <1>0, <1>1, <1>11 DEF readList
<1>12. CASE Read(c)
  <2>1. CASE Return(c, Absent)  BY <1>2, <2>1
  <2>2. CASE ~Return(c, Absent)
    <3>1. /\ pc' = [pc EXCEPT ![c] = "decode"] /\ got' = [got EXCEPT ![c] = store[Key(c)]]
          /\ op' = op /\ store' = store
      BY <1>12, <2>2 DEF Read
    <3>2. pc'[c] = "decode" /\ got'[c] = store[Key(c)]
      BY <1>0, <3>1
    <3>3. QED  BY <3>1, <3>2 DEF Protected, Key
  <2>3. QED  BY <2>1, <2>2
<1>13. CASE DecodeExpired(c)
  BY <1>0, <1>13 DEF DecodeExpired, Protected, Key, envelopeExpired
<1>14. CASE Visit(c)  BY <1>0, <1>1, <1>14 DEF Visit, Protected, Wanted, Arg
<1>15. CASE FailureIgnored(c)  BY <1>0, <1>1, <1>2, <1>15 DEF FailureIgnored
<1>16. CASE \/ ensureOpenFails(c) \/ ReplaceValue(c) \/ DeleteReturns(c) \/ DecodeLive(c)
            \/ LazyDelete(c) \/ put(c) \/ HGetAllReturns(c) \/ VisitReturns(c)
            \/ writeList(c) \/ Failed(c)
  BY <1>2, <1>16
  DEF ensureOpenFails, ReplaceValue, DeleteReturns, DecodeLive, LazyDelete, put,
      HGetAllReturns, VisitReturns, writeList, Failed
<1>17. QED
  BY <1>3, <1>4, <1>5, <1>6, <1>7, <1>8, <1>9, <1>10, <1>11, <1>12, <1>13, <1>14, <1>15, <1>16
  DEF Step, Lock, Run

(* A step moves one goroutine only.                                        *)
LEMMA OtherStays ==
  ASSUME TypeInv, NEW c \in Procs, NEW d \in Procs, c # d, Step(d)
  PROVE  pc'[c] = pc[c]
  BY DEF TypeInv, TypeOK, Step, Lock, Run, Goto, Return, local,
         Begin, ensureOpenFails, LockProtocol, LockCollection, Collect, Purge, ReplaceValue,
         DeleteReturns, Read, DecodeLive, DecodeExpired, LazyDelete, put, HGetAll, Sweep,
         HGetAllReturns, Visit, Edit, VisitReturns, readList, writeList, Failed, FailureIgnored

LEMMA OtherStepProtected ==
  ASSUME TypeInv, LocksHeld, NEW c \in Procs, NEW d \in Procs, c # d, Protected(c), Step(d)
  PROVE  Protected(c)'
<1>1. CASE pc[c] \in ProtocolSection
  <2>1. /\ store'["value"] = store["value"]
        /\ \A m \in Members : store'[m] = store[m]
        /\ pc'[c] = pc[c] /\ op'[c] = op[c] /\ got'[c] = got[c] /\ at'[c] = at[c]
        /\ now' = now
    BY <1>1, SectionUndisturbed
  <2>2. Key(c)' = Key(c) /\ Arg(c)' = Arg(c) /\ envelopeExpired(got[c])' = envelopeExpired(got[c])
    BY <2>1 DEF Key, Arg, envelopeExpired
  <2>3. pc[c] = "edit" /\ op[c].name \in {"SAdd", "SRemove"} => store'[Arg(c)] = store[Arg(c)]
    BY <2>1, ArgIsRecord
  <2>4. QED  BY <2>1, <2>2, <2>3 DEF Protected
<1>2. CASE pc[c] \notin ProtocolSection
  <2>2. pc'[c] \notin ProtocolSection
    <3>1. pc'[c] = pc[c]
      BY OtherStays
    <3>2. QED  BY <1>2, <3>1
  <2>3. QED  BY <2>2 DEF Protected, ProtocolSection
<1>3. QED  BY <1>1, <1>2

LEMMA CoreInvInit == Init => CoreInv
<1> SUFFICES ASSUME Init  PROVE CoreInv
  OBVIOUS
<1>1. TypeInv  BY TypeInvInit
<1>2. LocksHeld
  BY ConstAssumption DEF Init, LocksHeld, ProtocolSection, CollectionSection
<1>3. ASSUME NEW c \in Procs  PROVE Protected(c)
  BY DEF Init, Protected
<1>4. QED  BY <1>1, <1>2, <1>3 DEF CoreInv

LEMMA CoreInvStep == CoreInv /\ [Next]_vars => CoreInv'
<1> SUFFICES ASSUME CoreInv, [Next]_vars  PROVE CoreInv'
  OBVIOUS
<1>0. TypeInv /\ LocksHeld /\ \A c \in Procs : Protected(c)
  BY DEF CoreInv
<1>1. TypeInv'
  BY <1>0, TypeInvStep
<1>2. ASSUME NEW d \in Procs, Step(d)  PROVE CoreInv'
  <2>1. LocksHeld'  BY <1>0, <1>2, LocksHeldStep
  <2>2. ASSUME NEW c \in Procs  PROVE Protected(c)'
    BY <1>0, <1>2, OwnStepProtected, OtherStepProtected
  <2>3. QED  BY <1>1, <2>1, <2>2 DEF CoreInv
<1>3. CASE UNCHANGED vars
  <2>1. LocksHeld'  BY <1>0, <1>3 DEF LocksHeld, vars
  <2>2. ASSUME NEW c \in Procs  PROVE Protected(c)'
    BY <1>0, <1>3 DEF Protected, Key, Arg, envelopeExpired, vars
  <2>3. QED  BY <1>1, <2>1, <2>2 DEF CoreInv
<1>4. CASE CloseFlag \/ CloseEngine
  <2>1. LocksHeld'  BY <1>0, <1>4 DEF LocksHeld, CloseFlag, CloseEngine, locks
  <2>2. ASSUME NEW c \in Procs  PROVE Protected(c)'
    BY <1>0, <1>4 DEF Protected, Key, Arg, envelopeExpired, CloseFlag, CloseEngine, local
  <2>3. QED  BY <1>1, <2>1, <2>2 DEF CoreInv
<1>5. CASE Tick
  <2>1. LocksHeld'  BY <1>0, <1>5 DEF LocksHeld, Tick, locks
  <2>2. ASSUME NEW c \in Procs  PROVE Protected(c)'
    <3>1. now \in Nat /\ now' = now + 1 /\ got' = got /\ got[c] \in Envelopes \cup {Absent}
      BY <1>0, <1>5 DEF TypeInv, TypeOK, Tick, local
    <3>2. got[c] # Absent => got[c].exp \in Nat
      <4>1. \A e \in Envelopes : e.exp \in Nat
        BY ExpiryIsNat
      <4>2. QED  BY <3>1, <4>1, Zenon
    <3>3. envelopeExpired(got[c]) => envelopeExpired(got[c])'
      BY <3>1, <3>2 DEF envelopeExpired
    <3>4. QED  BY <1>0, <1>5, <3>3 DEF Protected, Key, Arg, Tick, local
  <2>3. QED  BY <1>1, <2>1, <2>2 DEF CoreInv
<1>6. QED  BY <1>2, <1>3, <1>4, <1>5 DEF Next, Step

(* db.go:284,309,356: with any number of goroutines, the lazy Delete of a  *)
(* scalar read removes an expired record and never one that a concurrent   *)
(* Put has just stored.                                                    *)
THEOREM LazyDeleteSafe == Spec => []ScalarReadDeletesExpired
<1>1. CoreInv => ScalarReadDeletesExpired
  BY DEF CoreInv, Protected, ScalarReadDeletesExpired
<1>2. QED  BY CoreInvInit, CoreInvStep, <1>1, PTL DEF Spec

(* extensions/http/README.md:62-63: with any number of concurrent callers  *)
(* and of any operations, SAdd and SRemove count exactly the members they  *)
(* add and remove.                                                         *)
THEOREM SetCountsCorrect == Spec => []SetCountsExact
<1>1. CoreInv => SetCountsExact
  BY DEF CoreInv, Protected, SetCountsExact
<1>2. QED  BY CoreInvInit, CoreInvStep, <1>1, PTL DEF Spec

-----------------------------------------------------------------------------
(* Lists are guarded by collectionMu alone, which replaceLogicalValue and  *)
(* Delete do not take.  Without them, pushes are atomic.                   *)

NoReplacement == Workload \cap {"Put", "Delete"} = {}

LEMMA ListUndisturbed ==
  ASSUME NoReplacement, TypeInv, LocksHeld,
         NEW c \in Procs, NEW d \in Procs, c # d, Step(d), pc[c] = "writeList"
  PROVE  store'["list"] = store["list"] /\ got'[c] = got[c]
<1>1. pc[d] \notin CollectionSection
  BY DEF LocksHeld, CollectionSection
<1>2. op[d] \in Requests \cup {NoCall} /\ Shape(d) /\ DOMAIN store = Records
  BY DEF TypeInv, TypeOK
<1>3. got \in [Procs -> Envelopes \cup {Absent}]
  BY DEF TypeInv, TypeOK
<1>4. op[d].name \notin {"Put", "Delete"}
  <2>1. CASE op[d] \in Requests
    BY <2>1, CallInWorkload DEF NoReplacement
  <2>2. CASE op[d] = NoCall
    BY <2>2, NoCallName
  <2>3. QED  BY <1>2, <2>1, <2>2
<1>5. "list" \in Records /\ "list" \notin Fields \cup Members
  BY ConstAssumption DEF Records, Scalars
<1> USE DEF locks, clock, local
<1>6. CASE put(d)
  <2>1. Key(d) \in Fields
    BY <1>2, <1>6, CallArguments DEF put, Key, Shape
  <2>2. QED  BY <1>2, <1>3, <1>5, <1>6, <2>1 DEF put, Stored, Return
<1>7. CASE LazyDelete(d)
  <2>1. Key(d) \in Fields \cup {"value"}
    BY <1>2, <1>7, CallArguments DEF LazyDelete, Key, Shape
  <2>2. QED  BY <1>2, <1>3, <1>5, <1>7, <2>1 DEF LazyDelete, Deleted, Stored, Return
<1>8. CASE Sweep(d)
  BY <1>2, <1>3, <1>5, <1>8 DEF Sweep, Shape, Deleted, Stored
<1>9. CASE Edit(d)
  <2>1. Arg(d) # "list"
    BY <1>9, ArgIsRecord DEF Edit, Goto, Scalars
  <2>2. \E e : store' = [store EXCEPT ![Arg(d)] = e]
    BY <1>9 DEF Edit, Deleted, Stored
  <2>3. QED  BY <1>2, <1>3, <1>5, <1>9, <2>1, <2>2 DEF Edit
<1>10. ~ (\/ ReplaceValue(d) \/ Purge(d) \/ Collect(d) \/ DeleteReturns(d)
          \/ readList(d) \/ writeList(d))
  BY <1>1, <1>2, <1>4
  DEF Shape, ReplaceValue, Purge, Collect, DeleteReturns, readList, writeList,
      CollectionSection, Goto
<1>11. CASE \/ Begin(d) \/ ensureOpenFails(d) \/ LockProtocol(d) \/ LockCollection(d)
            \/ Read(d) \/ DecodeLive(d) \/ DecodeExpired(d) \/ HGetAll(d)
            \/ HGetAllReturns(d) \/ Visit(d) \/ VisitReturns(d) \/ Failed(d)
            \/ FailureIgnored(d)
  BY <1>3, <1>11
  DEF Begin, ensureOpenFails, LockProtocol, LockCollection, Read, DecodeLive, DecodeExpired,
      HGetAll, HGetAllReturns, Visit, VisitReturns, Failed, FailureIgnored, Return
<1>12. QED
  BY <1>6, <1>7, <1>8, <1>9, <1>10, <1>11 DEF Step, Lock, Run

(* A goroutine comes to write a list by reading it.                        *)
LEMMA OwnWriteList ==
  ASSUME TypeInv, NEW c \in Procs, Step(c), pc'[c] = "writeList"
  PROVE  got'[c] = store'["list"]
<1>0. /\ pc \in [Procs -> Labels] /\ got \in [Procs -> Envelopes \cup {Absent}]
      /\ Shape(c)
  BY DEF TypeInv, TypeOK
<1>1. readList(c) => got'[c] = store'["list"]
  BY <1>0 DEF readList
<1>2. ASSUME NEW r, Return(c, r)  PROVE FALSE
  BY <1>0, <1>2 DEF Return
<1>3. ~Begin(c) /\ ~LockProtocol(c)
  BY <1>0 DEF Begin, LockProtocol, FirstStep, AfterLock, Goto
<1>4. ~ (\/ LockCollection(c) \/ Collect(c) \/ Purge(c) \/ DecodeExpired(c) \/ HGetAll(c)
         \/ Sweep(c) \/ Visit(c) \/ Edit(c))
  BY <1>0
  DEF LockCollection, Collect, Purge, DecodeExpired, HGetAll, Sweep, Visit, Edit, Goto
<1>5. ~ (\/ ensureOpenFails(c) \/ ReplaceValue(c) \/ DeleteReturns(c) \/ DecodeLive(c)
         \/ LazyDelete(c) \/ put(c) \/ HGetAllReturns(c) \/ VisitReturns(c)
         \/ writeList(c) \/ Failed(c))
  BY <1>2
  DEF ensureOpenFails, ReplaceValue, DeleteReturns, DecodeLive, LazyDelete, put,
      HGetAllReturns, VisitReturns, writeList, Failed
<1>6. ~Read(c) /\ ~FailureIgnored(c)
  BY <1>0, <1>2 DEF Read, FailureIgnored
<1>7. QED
  BY <1>1, <1>3, <1>4, <1>5, <1>6 DEF Step, Lock, Run

ListInv == CoreInv /\ ListUpdateAtomic

LEMMA ListInvStep ==
  ASSUME NoReplacement  PROVE ListInv /\ [Next]_vars => ListInv'
<1> SUFFICES ASSUME ListInv, [Next]_vars  PROVE ListUpdateAtomic'
  BY CoreInvStep DEF ListInv
<1>0. TypeInv /\ LocksHeld /\ ListUpdateAtomic
  BY DEF ListInv, CoreInv
<1>1. ASSUME NEW d \in Procs, Step(d)  PROVE ListUpdateAtomic'
  <2> SUFFICES ASSUME NEW c \in Procs, pc'[c] = "writeList"
               PROVE  got'[c] = store'["list"]
    BY DEF ListUpdateAtomic
  <2>1. CASE c # d
    <3>1. pc[c] = "writeList"
      BY <1>0, <1>1, <2>1, OtherStays
    <3>2. QED
      BY <1>0, <1>1, <2>1, <3>1, ListUndisturbed DEF ListUpdateAtomic
  <2>2. CASE c = d
    BY <1>0, <1>1, <2>2, OwnWriteList
  <2>3. QED  BY <2>1, <2>2
<1>2. CASE UNCHANGED vars  BY <1>0, <1>2 DEF ListUpdateAtomic, vars
<1>3. CASE CloseFlag \/ CloseEngine \/ Tick
  BY <1>0, <1>3 DEF ListUpdateAtomic, CloseFlag, CloseEngine, Tick, local
<1>4. QED  BY <1>1, <1>2, <1>3 DEF Next, Step

(* README.md:297-298: as long as nobody replaces or deletes the key, list  *)
(* pushes by any number of goroutines, next to any other operation, are    *)
(* atomic: no push is lost.                                                *)
THEOREM PushAtomic ==
  ASSUME NoReplacement  PROVE Spec => []ListUpdateAtomic
<1>1. Init => ListInv
  BY CoreInvInit DEF ListInv, ListUpdateAtomic, Init
<1>2. ListInv => ListUpdateAtomic
  BY DEF ListInv
<1>3. ListInv /\ [Next]_vars => ListInv'
  BY ListInvStep
<1>4. QED  BY <1>1, <1>2, <1>3, PTL DEF Spec

-----------------------------------------------------------------------------
(* HSet writes outside protocolMu and pushes write under collectionMu.     *)
(* Without them, whoever replaces or deletes the key sees every record.    *)

LockedWrites == Workload \cap {"HSet", "RPush", "LPush"} = {}

(* What a replacement has looked at and is still there, it will delete.    *)
Collected(c) ==
  pc[c] \in {"collect", "purge"} =>
    \A j \in 1..5 : pc[c] = "purge" \/ j < at[c] =>
      \A r \in Groups[j] : store[r] # Absent => r \in todo[c]

LEMMA AllGroups == \A r \in Records : \E j \in 1..5 : r \in Groups[j]
<1>1. /\ Groups[1] = {"value"} /\ Groups[2] = {"list"} /\ Groups[3] = {"ttl"}
      /\ Groups[4] = Fields /\ Groups[5] = Members
  BY DEF Groups
<1>2. ASSUME NEW r \in Records  PROVE \E j \in {1, 2, 3, 4, 5} : r \in Groups[j]
  <2>1. r = "value" \/ r = "list" \/ r = "ttl" \/ r \in Fields \/ r \in Members
    BY DEF Records, Scalars
  <2>2. QED  BY <1>1, <2>1, Zenon
<1>3. {1, 2, 3, 4, 5} \subseteq 1..5
  OBVIOUS
<1>4. QED  BY <1>2, <1>3, Zenon

(* Outside the section of protocolMu, a goroutine adds no record then.     *)
LEMMA NothingAppears ==
  ASSUME LockedWrites, TypeInv, LocksHeld,
         NEW c \in Procs, NEW d \in Procs, c # d, Step(d), pc[c] \in ProtocolSection
  PROVE  todo'[c] = todo[c] /\ \A r \in Records : store'[r] # Absent => store[r] # Absent
<1>1. pc[d] \notin ProtocolSection /\ protocolMu # None
  BY ConstAssumption DEF LocksHeld
<1>2. op[d] \in Requests \cup {NoCall} /\ Shape(d) /\ DOMAIN store = Records
  BY DEF TypeInv, TypeOK
<1>3. todo \in [Procs -> SUBSET Records]
  BY DEF TypeInv, TypeOK
<1>4. op[d].name \notin {"HSet", "RPush", "LPush"}
  <2>1. CASE op[d] \in Requests
    BY <2>1, CallInWorkload DEF LockedWrites
  <2>2. CASE op[d] = NoCall
    BY <2>2, NoCallName
  <2>3. QED  BY <1>2, <2>1, <2>2
<1> USE DEF ProtocolSection, Goto, locks, clock, local
<1>5. ~ (\/ LockProtocol(d) \/ Collect(d) \/ Purge(d) \/ ReplaceValue(d) \/ DeleteReturns(d)
         \/ Read(d) \/ DecodeLive(d) \/ DecodeExpired(d) \/ LazyDelete(d)
         \/ Visit(d) \/ Edit(d) \/ VisitReturns(d))
  BY <1>1
  DEF LockProtocol, Collect, Purge, ReplaceValue, DeleteReturns, Read, DecodeLive,
      DecodeExpired, LazyDelete, Visit, Edit, VisitReturns
<1>6. ~ (put(d) \/ LockCollection(d) \/ readList(d) \/ writeList(d))
  BY <1>2, <1>4 DEF Shape, put, LockCollection, readList, writeList
<1>7. CASE Sweep(d)
  <2>1. PICK f \in todo[d] : /\ store' = [store EXCEPT ![f] = Absent]
                             /\ todo' = [todo EXCEPT ![d] = todo[d] \ {f}]
    BY <1>7 DEF Sweep, Deleted, Stored
  <2>2. QED  BY <1>2, <1>3, <2>1
<1>8. CASE Begin(d) \/ HGetAll(d)
  BY <1>3, <1>8 DEF Begin, HGetAll
<1>9. CASE ensureOpenFails(d) \/ HGetAllReturns(d) \/ Failed(d)
  <2>1. store' = store /\ todo' = [todo EXCEPT ![d] = {}]
    BY <1>9 DEF ensureOpenFails, HGetAllReturns, Failed, Return
  <2>2. QED  BY <1>3, <2>1
<1>10. CASE FailureIgnored(d)
  <2>1. store' = store /\ \E S : todo' = [todo EXCEPT ![d] = S]
    BY <1>10 DEF FailureIgnored, Return
  <2>2. QED  BY <1>3, <2>1
<1>11. QED
  BY <1>5, <1>6, <1>7, <1>8, <1>9, <1>10 DEF Step, Lock, Run

LEMMA OwnStepCollects ==
  ASSUME TypeInv, NEW c \in Procs, Collected(c), Step(c)
  PROVE  Collected(c)'
<1> USE DEF Goto, locks, clock, local
<1>0. /\ pc \in [Procs -> Labels] /\ at \in [Procs -> Nat] /\ todo \in [Procs -> SUBSET Records]
      /\ Shape(c) /\ DOMAIN store = Records
  BY DEF TypeInv, TypeOK
<1>1. ASSUME pc'[c] \notin {"collect", "purge"}  PROVE Collected(c)'
  BY <1>1 DEF Collected
<1>2. ASSUME NEW r, Return(c, r)  PROVE Collected(c)'
  BY <1>0, <1>1, <1>2 DEF Return
<1>3. CASE Begin(c)
  <2>1. PICK q \in Requests : pc' = [pc EXCEPT ![c] = FirstStep(q.name)]
    BY <1>3 DEF Begin
  <2>2. QED  BY <1>0, <1>1, <2>1 DEF FirstStep
<1>4. CASE LockProtocol(c)
  <2>1. pc[c] = "lockProtocol" /\ at' = at /\ pc' = [pc EXCEPT ![c] = AfterLock(op[c].name)]
    BY <1>4 DEF LockProtocol
  <2>2. at'[c] = 1
    BY <1>0, <2>1 DEF Shape
  <2>3. pc'[c] # "purge"
    BY <1>0, <2>1 DEF AfterLock
  <2>4. QED  BY <2>2, <2>3 DEF Collected
<1>5. CASE Collect(c)
  <2>1. at[c] \in 1..5 /\ Len(Groups) = 5 /\ pc[c] = "collect"
    BY <1>0, <1>5 DEF Collect, Shape, Groups
  <2>2. store' = store /\ todo'[c] = todo[c] \cup Found(Groups[at[c]])
    BY <1>0, <1>5 DEF Collect
  <2>5. at[c] \in 1..5 /\ at'[c] = at[c] + 1 /\ (pc'[c] = "purge" => at[c] = 5)
    BY <1>0, <1>5, <2>1 DEF Collect
  <2>3. ASSUME NEW j \in 1..5, pc'[c] = "purge" \/ j < at'[c],
               NEW r \in Groups[j], store'[r] # Absent
        PROVE  r \in todo'[c]
    <3>1. j < at[c] \/ j = at[c]
      <4>1. \A i \in 1..5 : i = 5 \/ j < i + 1 => j < i \/ j = i
        OBVIOUS
      <4>2. at[c] = 5 \/ j < at[c] + 1
        BY <2>3, <2>5, Zenon
      <4>3. QED  BY <2>5, <4>1, <4>2, Zenon
    <3>2. CASE j < at[c]
      BY <2>1, <2>2, <2>3, <3>2 DEF Collected
    <3>3. CASE j = at[c]
      BY <2>2, <2>3, <3>3 DEF Found
    <3>4. QED  BY <3>1, <3>2, <3>3
  <2>4. QED  BY <2>3 DEF Collected
<1>6. CASE Purge(c)
  <2>1. PICK x \in todo[c] : /\ store' = [store EXCEPT ![x] = Absent]
                             /\ todo' = [todo EXCEPT ![c] = todo[c] \ {x}]
    BY <1>6 DEF Purge, Deleted, Stored
  <2>2. pc' = pc /\ at' = at /\ pc[c] = "purge" /\ todo'[c] = todo[c] \ {x} /\ x \in Records
    BY <1>0, <1>6, <2>1 DEF Purge
  <2>3. \A r \in Records : store'[r] # Absent => r # x /\ store[r] # Absent
    BY <1>0, <2>1, <2>2
  <2>4. ASSUME NEW j \in 1..5, NEW r \in Groups[j], store'[r] # Absent
        PROVE  r \in todo'[c]
    <3>1. r \in Records
      BY DEF Groups, Records, Scalars
    <3>2. QED  BY <2>2, <2>3, <2>4, <3>1 DEF Collected
  <2>5. QED  BY <2>4 DEF Collected
<1>7. CASE \/ LockCollection(c) \/ DecodeExpired(c) \/ HGetAll(c) \/ Sweep(c) \/ Visit(c)
           \/ Edit(c) \/ readList(c)
  BY <1>0, <1>1, <1>7
  DEF LockCollection, DecodeExpired, HGetAll, Sweep, Visit, Edit, readList
<1>8. CASE Read(c)  BY <1>0, <1>1, <1>2, <1>8 DEF Read
<1>9. CASE FailureIgnored(c)  BY <1>0, <1>1, <1>2, <1>9 DEF FailureIgnored
<1>10. CASE \/ ensureOpenFails(c) \/ ReplaceValue(c) \/ DeleteReturns(c) \/ DecodeLive(c)
            \/ LazyDelete(c) \/ put(c) \/ HGetAllReturns(c) \/ VisitReturns(c)
            \/ writeList(c) \/ Failed(c)
  BY <1>2, <1>10
  DEF ensureOpenFails, ReplaceValue, DeleteReturns, DecodeLive, LazyDelete, put,
      HGetAllReturns, VisitReturns, writeList, Failed
<1>11. QED
  BY <1>3, <1>4, <1>5, <1>6, <1>7, <1>8, <1>9, <1>10 DEF Step, Lock, Run

CollectInv == CoreInv /\ \A c \in Procs : Collected(c)

LEMMA CollectInvStep ==
  ASSUME LockedWrites  PROVE CollectInv /\ [Next]_vars => CollectInv'
<1> SUFFICES ASSUME CollectInv, [Next]_vars, NEW c \in Procs  PROVE Collected(c)'
  BY CoreInvStep DEF CollectInv
<1>0. TypeInv /\ LocksHeld /\ Collected(c)
  BY DEF CollectInv, CoreInv
<1>1. ASSUME NEW d \in Procs, Step(d), c # d  PROVE Collected(c)'
  <2>1. pc'[c] = pc[c]
    BY <1>0, <1>1, OtherStays
  <2>2. CASE pc[c] \notin {"collect", "purge"}
    BY <2>1, <2>2 DEF Collected
  <2>3. CASE pc[c] \in {"collect", "purge"}
    <3>1. pc[c] \in ProtocolSection
      BY <2>3 DEF ProtocolSection
    <3>2. todo'[c] = todo[c] /\ \A r \in Records : store'[r] # Absent => store[r] # Absent
      BY <1>0, <1>1, <3>1, NothingAppears
    <3>3. at'[c] = at[c]
      BY <1>0, <1>1, <3>1, SectionUndisturbed
    <3>4. \A j \in 1..5 : Groups[j] \subseteq Records
      BY DEF Groups, Records, Scalars
    <3>5. QED  BY <1>0, <2>1, <3>2, <3>3, <3>4 DEF Collected
  <2>4. QED  BY <2>2, <2>3
<1>2. CASE UNCHANGED vars  BY <1>0, <1>2 DEF Collected, vars
<1>3. CASE CloseFlag \/ CloseEngine \/ Tick
  BY <1>0, <1>3 DEF Collected, CloseFlag, CloseEngine, Tick, local
<1>4. QED  BY <1>0, <1>1, <1>2, <1>3, OwnStepCollects DEF Next, Step

(* A step that tells a caller of Put or Delete of success is the last one  *)
(* of that call.                                                           *)
LEMMA SuccessIsLastStep ==
  ASSUME TypeInv, NEW c \in Procs, Next, op[c].name \in {"Put", "Delete"},
         pc[c] # "idle", reply' = [to |-> c, result |-> Ok]
  PROVE  ReplaceValue(c) \/ DeleteReturns(c)
<1>0. Shape(c) /\ reply'.to = c /\ reply'.result = Ok /\ c # None
  BY ConstAssumption DEF TypeInv
<1>1. ~Silent
  BY <1>0 DEF Silent, NoReply
<1>2. ASSUME NEW d \in Procs, NEW r, Return(d, r)  PROVE d = c /\ r = Ok
  BY <1>0, <1>2 DEF Return
<1>3. PICK d \in Procs : Step(d)
  BY <1>1 DEF Next, Step, CloseFlag, CloseEngine, Tick
<1>4. ~ (\/ Begin(d) \/ LockProtocol(d) \/ LockCollection(d) \/ Collect(d) \/ Purge(d)
         \/ DecodeExpired(d) \/ HGetAll(d) \/ Sweep(d) \/ Visit(d) \/ Edit(d) \/ readList(d))
  BY <1>1
  DEF Begin, LockProtocol, LockCollection, Collect, Purge, DecodeExpired, HGetAll, Sweep,
      Visit, Edit, readList
<1>5. d = c
  BY <1>1, <1>2, <1>3, <1>4
  DEF Step, Lock, Run, ensureOpenFails, ReplaceValue, DeleteReturns, Read, DecodeLive,
      LazyDelete, put, HGetAllReturns, VisitReturns, writeList, Failed, FailureIgnored
<1>6. pc[c] \notin {"idle", "read", "decode", "lazy", "put", "visit", "writeList"}
  BY <1>0 DEF Shape
<1>7. ~ (\/ ensureOpenFails(c) \/ Read(c) \/ DecodeLive(c) \/ LazyDelete(c) \/ put(c)
         \/ VisitReturns(c) \/ writeList(c))
  BY <1>6 DEF ensureOpenFails, Read, DecodeLive, LazyDelete, put, VisitReturns, writeList
<1>8. ~Failed(c)
  <2>1. Err # Ok
    BY DEF Err, Ok
  <2>2. QED  BY <1>2, <2>1 DEF Failed
<1>9. pc[c] # "sweep"
  BY <1>0 DEF Shape
<1>10. ~HGetAllReturns(c) /\ ~FailureIgnored(c)
  BY <1>6, <1>9 DEF HGetAllReturns, FailureIgnored
<1>11. QED
  BY <1>3, <1>4, <1>5, <1>7, <1>8, <1>10 DEF Step, Lock, Run

(* db.go:231 and logical_key.go:11-13: as long as every writer takes       *)
(* protocolMu, a Put that returns success leaves its scalar and nothing    *)
(* else of the key, and a Delete nothing, next to any number of readers    *)
(* and of set mutations.                                                   *)
THEOREM ReplacementComplete ==
  ASSUME LockedWrites  PROVE Spec => ReplacementIsComplete
<1>1. Init => CollectInv
  BY CoreInvInit DEF CollectInv, Collected, Init
<1>2. CollectInv /\ [Next]_vars => CollectInv'
  BY CollectInvStep
<1>3. ASSUME CollectInv, [Next]_vars, NEW c \in Procs, pc[c] # "idle", pc'[c] = "idle",
             reply' = [to |-> c, result |-> Ok], op[c].name \in {"Put", "Delete"}
      PROVE  \A r \in Records : store'[r] # Absent => r = "value" /\ op[c].name = "Put"
  <2>1. TypeInv /\ Collected(c) /\ DOMAIN store = Records
    BY <1>3 DEF CollectInv, CoreInv, TypeInv, TypeOK
  <2>2. Next
    BY <1>3 DEF vars
  <2>3. ReplaceValue(c) \/ DeleteReturns(c)
    BY <1>3, <2>1, <2>2, SuccessIsLastStep
  <2>4. pc[c] = "purge" /\ todo[c] = {}
    BY <2>3 DEF ReplaceValue, DeleteReturns
  <2>5. \A r \in Records : store[r] = Absent
    BY <2>1, <2>4, AllGroups DEF Collected
  <2>6. QED
    BY <2>1, <2>3, <2>5 DEF ReplaceValue, DeleteReturns, Stored
<1>4. CollectInv /\ [Next]_vars =>
        [\A c \in Procs :
           /\ pc[c] # "idle" /\ pc'[c] = "idle" /\ reply' = [to |-> c, result |-> Ok]
           /\ op[c].name \in {"Put", "Delete"}
           => \A r \in Records : store'[r] # Absent => r = "value" /\ op[c].name = "Put"]_vars
  BY <1>3
<1>5. QED  BY <1>1, <1>2, <1>4, PTL DEF Spec, ReplacementIsComplete
=============================================================================
