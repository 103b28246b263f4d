-------------------------- MODULE RemoteOwnerProofs --------------------------
(***************************************************************************)
(* The HTTP owner for any number of clients, requests, Redis pushes and    *)
(* failing engine calls: no read falls into a replacement, the counts of   *)
(* set mutations add up, and pushes are neither lost nor repeated.         *)
(***************************************************************************)
EXTENDS RemoteOwner, FiniteSetTheorems, TLAPS

-----------------------------------------------------------------------------
(* Requests are numbered in the order they are sent, each asks for what a  *)
(* route of the owner offers, and an answer is given once, at the end.     *)

Places == {"unsent", "sent", "clear", "mutate", "push", "done"}

Formed(r) ==
  /\ r.route = "put" => r.record = "field"
  /\ r.route = "add" => r.record = "member"
  /\ r.route = "remove" => r.record \in {"member", "field"}
  /\ r.route \in {"get", "delete"} => r.record \in {"value", "field"}

Shape ==
  /\ sent \in 0..MaxRequests
  /\ request = [i \in Ids |-> request[i]] /\ \A i \in Ids : Formed(request[i])
  /\ at \in [Ids -> Places]
  /\ got = [i \in Ids |-> got[i]]
  /\ answer = [i \in Ids |-> answer[i]]
  /\ waits \in [Clients -> Ids \cup {None}]
  /\ store = [r \in Records |-> store[r]]
  /\ \A i \in Ids : i > sent => request[i] = NoRequest /\ at[i] = "unsent"
  /\ \A i \in Ids : at[i] # "done" => answer[i] = Absent

(* A handler between its two steps holds the mutex of its route, and so    *)
(* does a Redis push: at most one of them is between its steps.            *)
LocksHeld ==
  /\ \A i \in Ids : at[i] \in {"clear", "mutate"} => protocolMu = i
  /\ redis.at = "write" => protocolMu = Redis
  /\ \A i \in Ids : at[i] = "push" => collectionMu = i
  /\ \A i \in Ids : at[i] = "clear" => request[i].route = "logical"
  /\ \A i \in Ids : at[i] = "mutate" => request[i].route \in {"add", "remove"}
  /\ \A i \in Ids : at[i] = "push" => request[i].route = "push"

LEMMA ShapeInit == Init => Shape /\ LocksHeld
BY RemoteAssumption DEF Init, Shape, LocksHeld, Ids, Formed, NoRequest, Places, Records

LEMMA AsksFormed ==
  ASSUME NEW name \in Calls, NEW r \in Asks(name)
  PROVE  Formed(Stamped(r))
<1>1. CASE name = "Put"
  <2>1. PICK e \in TTLs : r = [route |-> "logical", exp |-> e]
    BY <1>1 DEF Asks
  <2> QED
    BY <2>1 DEF Formed, Stamped
<1>2. CASE name = "HSet"
  <2>1. PICK e \in TTLs : r = [route |-> "put", record |-> "field", exp |-> e]
    BY <1>2 DEF Asks
  <2> QED
    BY <2>1 DEF Formed, Stamped
<1>3. CASE name \notin {"Put", "HSet"}
  <2>1. \/ r = [route |-> "get", record |-> "value"]
        \/ r = [route |-> "get", record |-> "field"]
        \/ r = [route |-> "push"]
        \/ r = [route |-> "add", record |-> "member"]
        \/ r = [route |-> "remove", record |-> "member"]
        \/ r = [route |-> "remove", record |-> "field"]
    BY <1>3, RemoteAssumption DEF Asks
  <2> QED
    BY <2>1 DEF Formed, Stamped
<1> QED
  BY <1>1, <1>2, <1>3

(* What a step does to the requests: it sends one, or it moves one of the  *)
(* handlers on, or it touches neither.                                     *)
LEMMA SendShape ==
  ASSUME Shape, LocksHeld, NEW c \in Clients, NEW r, Send(c, r), Formed(r),
         UNCHANGED <<store, locks, got, answer, redis>>
  PROVE  Shape' /\ LocksHeld'
<1>1. sent + 1 \in Ids /\ sent' \in 0..MaxRequests /\ sent' = sent + 1
  BY RemoteAssumption DEF Send, Shape, Ids
<1>2. /\ request' = [i \in Ids |-> IF i = sent + 1 THEN r ELSE request[i]]
      /\ at' = [i \in Ids |-> IF i = sent + 1 THEN "sent" ELSE at[i]]
  BY <1>1 DEF Send, Shape
<1>3. \A i \in Ids : i > sent' => i > sent /\ i # sent + 1
  BY <1>1, RemoteAssumption DEF Shape, Ids
<1>4. waits' \in [Clients -> Ids \cup {None}]
  BY <1>1 DEF Send, Shape
<1>5. Shape'
  BY <1>1, <1>2, <1>3, <1>4 DEF Shape, Places
<1>6. LocksHeld'
  BY <1>2 DEF LocksHeld, locks
<1> QED
  BY <1>5, <1>6

LEMMA WaitShape ==
  ASSUME Shape, LocksHeld, waits' \in [Clients -> Ids \cup {None}],
         UNCHANGED <<store, locks, wire, handlers, redis>>
  PROVE  Shape' /\ LocksHeld'
BY DEF Shape, LocksHeld, locks, wire, handlers

(* A handler moves to a place between its steps, with the mutex it needs.  *)
LEMMA AdvanceShape ==
  ASSUME Shape, LocksHeld, NEW i \in Ids, NEW place \in {"clear", "mutate", "push"},
         NEW g, Advance(i, place), got' = [got EXCEPT ![i] = g], at[i] = "sent",
         place = "clear" => request[i].route = "logical",
         place = "mutate" => request[i].route \in {"add", "remove"},
         place = "push" => request[i].route = "push",
         \/ place # "push" /\ protocolMu = None /\ protocolMu' = i /\ collectionMu' = collectionMu
         \/ place = "push" /\ collectionMu = None /\ collectionMu' = i /\ protocolMu' = protocolMu,
         UNCHANGED <<store, wire, answer, waits, redis>>
  PROVE  Shape' /\ LocksHeld'
<1>1. at' = [j \in Ids |-> IF j = i THEN place ELSE at[j]]
  BY DEF Advance, Shape
<1>2. got' = [j \in Ids |-> got'[j]]
  BY DEF Shape
<1>3. \A j \in Ids : j > sent => j # i
  BY DEF Shape
<1>4. Shape'
  BY <1>1, <1>2, <1>3 DEF Shape, Places, wire
<1>5. ASSUME NEW j \in Ids, j # i  PROVE at[j] \in {"clear", "mutate"} /\ place # "push" => FALSE
  BY RemoteAssumption DEF LocksHeld
<1>6. ASSUME NEW j \in Ids, j # i  PROVE at[j] = "push" /\ place = "push" => FALSE
  BY RemoteAssumption DEF LocksHeld
<1>7. redis.at = "write" => place = "push"
  BY RemoteAssumption DEF LocksHeld
<1>8. LocksHeld'
  BY <1>1, <1>5, <1>6, <1>7 DEF LocksHeld, wire
<1> QED
  BY <1>4, <1>8

(* A handler answers and gives back what it holds.                         *)
LEMMA RespondShape ==
  ASSUME Shape, LocksHeld, NEW i \in Ids, NEW a, Respond(i, a), at[i] # "unsent",
         store' = [r \in Records |-> store'[r]],
         protocolMu' \in {protocolMu, Unlocked(protocolMu, i)},
         collectionMu' \in {collectionMu, Unlocked(collectionMu, i)},
         UNCHANGED <<wire, waits, redis>>
  PROVE  Shape' /\ LocksHeld'
<1>1. at' = [j \in Ids |-> IF j = i THEN "done" ELSE at[j]]
  BY DEF Respond, Shape
<1>2. answer' = [j \in Ids |-> IF j = i THEN a ELSE answer[j]]
  BY DEF Respond, Shape
<1>3. \A j \in Ids : j > sent => j # i
  BY DEF Shape
<1>4. Shape'
  BY <1>1, <1>2, <1>3 DEF Shape, Places, wire, Respond
<1>5. Redis # i
  BY RemoteAssumption DEF Redis, Ids
<1>6. LocksHeld'
  BY <1>1, <1>5 DEF LocksHeld, wire, Unlocked
<1> QED
  BY <1>4, <1>6

LEMMA ShapeStep == Shape /\ LocksHeld /\ [Next]_vars => Shape' /\ LocksHeld'
<1> SUFFICES ASSUME Shape, LocksHeld, [Next]_vars  PROVE Shape' /\ LocksHeld'
  OBVIOUS
<1>1. ASSUME NEW c \in Clients, Call(c)  PROVE Shape' /\ LocksHeld'
  <2>1. PICK name \in Calls : \E r \in Asks(name) : Send(c, Stamped(r))
    BY <1>1 DEF Call
  <2>2. PICK r \in Asks(name) : Send(c, Stamped(r))
    BY <2>1
  <2> QED
    BY <1>1, <2>2, AsksFormed, SendShape DEF Call, redisVars
<1>2. ASSUME NEW c \in Clients, Receive(c)  PROVE Shape' /\ LocksHeld'
  <2>1. waits' \in [Clients -> Ids \cup {None}]
    BY <1>2 DEF Receive, Shape
  <2> QED
    BY <1>2, <2>1, WaitShape DEF Receive, redisVars
<1>3. ASSUME NEW c \in Clients, LazyDelete(c)  PROVE Shape' /\ LocksHeld'
  <2>1. waits[c] \in Ids
    BY <1>3 DEF LazyDelete, Answered, Shape
  <2>2. Formed([route |-> "delete", record |-> request[waits[c]].record])
    BY <1>3, <2>1 DEF LazyDelete, ReadExpired, Formed, Shape
  <2> QED
    BY <1>3, <2>2, SendShape DEF LazyDelete, redisVars
<1>4. ASSUME NEW c \in Clients, GiveUp(c)  PROVE Shape' /\ LocksHeld'
  <2>1. waits' \in [Clients -> Ids \cup {None}]
    BY <1>4 DEF GiveUp, Shape
  <2> QED
    BY <1>4, <2>1, WaitShape DEF GiveUp, redisVars
<1>5. ASSUME NEW i \in Ids, KVGet(i) \/ KVPut(i) \/ KVDelete(i)  PROVE Shape' /\ LocksHeld'
  <2>1. PICK a : Respond(i, a)
    BY <1>5 DEF KVGet, KVPut, KVDelete
  <2>2. at[i] # "unsent" /\ UNCHANGED <<locks, wire, waits, redis>>
    BY <1>5 DEF KVGet, KVPut, KVDelete, Route, client, redisVars
  <2>3. store' = [r \in Records |-> store'[r]]
    BY <1>5 DEF KVGet, KVPut, KVDelete, Shape
  <2> QED
    BY <2>1, <2>2, <2>3, RespondShape DEF locks
<1>6. ASSUME NEW i \in Ids, LockLogical(i)  PROVE Shape' /\ LocksHeld'
  BY <1>6, AdvanceShape DEF LockLogical, Route, client, redisVars
<1>7. ASSUME NEW i \in Ids, ClearRecord(i)  PROVE Shape' /\ LocksHeld'
  <2>1. store' = [r \in Records |-> store'[r]] /\ got' = [j \in Ids |-> got'[j]]
    BY <1>7 DEF ClearRecord, Shape
  <2> QED
    BY <1>7, <2>1 DEF ClearRecord, Shape, LocksHeld, wire, locks, client, redisVars
<1>8. ASSUME NEW i \in Ids, StoreLogical(i)  PROVE Shape' /\ LocksHeld'
  <2>1. protocolMu' = Unlocked(protocolMu, i)
    BY <1>8 DEF StoreLogical, Route, LocksHeld, Unlocked
  <2>2. store' = [r \in Records |-> store'[r]]
    BY <1>8 DEF StoreLogical, Shape
  <2> QED
    BY <1>8, <2>1, <2>2, RespondShape DEF StoreLogical, Route, client, redisVars
<1>9. ASSUME NEW i \in Ids, LockMutation(i)  PROVE Shape' /\ LocksHeld'
  BY <1>9, AdvanceShape DEF LockMutation, client, redisVars
<1>10. ASSUME NEW i \in Ids, Mutate(i)  PROVE Shape' /\ LocksHeld'
  <2>1. store' = [r \in Records |-> store'[r]]
    BY <1>10 DEF Mutate, Shape
  <2> QED
    BY <1>10, <2>1, RespondShape DEF Mutate, client, redisVars
<1>11. ASSUME NEW i \in Ids, LockPush(i)  PROVE Shape' /\ LocksHeld'
  BY <1>11, AdvanceShape DEF LockPush, Route, client, redisVars
<1>12. ASSUME NEW i \in Ids, Push(i)  PROVE Shape' /\ LocksHeld'
  <2>1. store' = [r \in Records |-> store'[r]]
    BY <1>12 DEF Push, Shape
  <2> QED
    BY <1>12, <2>1, RespondShape DEF Push, Route, client, redisVars
<1>13. ASSUME NEW i \in Ids, HandlerFails(i)  PROVE Shape' /\ LocksHeld'
  <2>1. store' = [r \in Records |-> store'[r]]
    BY <1>13 DEF HandlerFails, Shape
  <2> QED
    BY <1>13, <2>1, RespondShape DEF HandlerFails, client, redisVars
<1>14. CASE RedisRead
  <2>1. \A i \in Ids : at[i] \notin {"clear", "mutate"}
    BY <1>14, RemoteAssumption DEF RedisRead, LocksHeld
  <2> QED
    BY <1>14, <2>1 DEF RedisRead, Shape, LocksHeld, wire, handlers, client
<1>15. CASE RedisWrite
  <2>1. store' = [r \in Records |-> store'[r]]
    BY <1>15 DEF RedisWrite, Shape
  <2>2. \A i \in Ids : at[i] \notin {"clear", "mutate"}
    BY <1>15, RemoteAssumption DEF RedisWrite, LocksHeld, Redis, Ids
  <2> QED
    BY <1>15, <2>1, <2>2 DEF RedisWrite, Shape, LocksHeld, wire, handlers, client
<1>16. CASE Tick \/ UNCHANGED vars
  BY <1>16 DEF Tick, vars, Shape, LocksHeld, wire, locks, handlers, client, redisVars
<1> QED
  BY <1>1, <1>2, <1>3, <1>4, <1>5, <1>6, <1>7, <1>8, <1>9, <1>10, <1>11, <1>12, <1>13, <1>14,
     <1>15, <1>16 DEF Next, ClientStep, Serves

(* extensions/http/http.go, GET /v1/kv: a read does not fall into the gap  *)
(* that a replacement makes, since both work under protocolMu.             *)
THEOREM ReadsSeeNoGapHolds == Spec => ReadsSeeNoGap
<1>1. ASSUME Shape, LocksHeld, [Next]_vars, NEW i \in Ids,
             at[i] = "sent", at'[i] = "done",
             request[i].route = "get", answer'[i].status = "missing",
             NEW j \in Ids, request[j].route = "logical", at[j] = "clear"
      PROVE  FALSE
  <2>1. protocolMu = j /\ protocolMu # None
    BY <1>1, RemoteAssumption DEF LocksHeld
  <2>2. ASSUME NEW h \in Ids, NEW a, Respond(h, a)  PROVE h = i /\ a.status = "missing"
    BY <1>1, <2>2 DEF Respond, Shape
  <2>3. ASSUME NEW h \in Ids, Serves(h) \/ HandlerFails(h)  PROVE FALSE
    <3>1. CASE KVGet(h)
      BY <3>1, <2>1 DEF KVGet
    <3>2. CASE KVPut(h) \/ KVDelete(h) \/ StoreLogical(h) \/ Mutate(h) \/ Push(h)
      BY <1>1, <3>2, <2>2 DEF KVPut, KVDelete, StoreLogical, Mutate, Push, Route
    <3>3. CASE HandlerFails(h)
      BY <3>3, <2>2 DEF HandlerFails
    <3>4. CASE LockLogical(h) \/ LockMutation(h) \/ LockPush(h) \/ ClearRecord(h)
      BY <1>1, <3>4 DEF LockLogical, LockMutation, LockPush, ClearRecord, Advance, Shape
    <3> QED
      BY <2>3, <3>1, <3>2, <3>3, <3>4 DEF Serves
  <2>4. ASSUME NEW c \in Clients, ClientStep(c)  PROVE FALSE
    BY <1>1, <2>4 DEF ClientStep, Call, Receive, LazyDelete, GiveUp, Send, handlers, Shape
  <2>5. CASE RedisRead \/ RedisWrite \/ Tick \/ UNCHANGED vars
    BY <1>1, <2>5 DEF RedisRead, RedisWrite, Tick, vars, handlers
  <2> QED
    BY <1>1, <2>3, <2>4, <2>5 DEF Next
<1>2. Shape /\ LocksHeld /\ [Next]_vars =>
        [\A i \in Ids :
           /\ at[i] = "sent" /\ at'[i] = "done"
           /\ request[i].route = "get" /\ answer'[i].status = "missing"
           => \A j \in Ids : ~(request[j].route = "logical" /\ at[j] = "clear")]_vars
  BY <1>1
<1> QED
  BY <1>2, ShapeInit, ShapeStep, PTL DEF Spec, ReadsSeeNoGap

-----------------------------------------------------------------------------
(* Set mutations: the handler that is between its look-up and its write    *)
(* has seen the member as it still is.                                     *)

BalanceInv ==
  /\ CountsBalance
  /\ ~Replaced => \A i \in Ids :
       at[i] = "mutate" /\ request[i].record = "member" => got[i] = store["member"]

ToldBy(route) ==
  {i \in Ids : /\ request[i].route = route /\ request[i].record = "member"
               /\ answer[i] = Count(1)}

LEMMA AbsentIsNoCount == Absent # Count(1)
BY RemoteAssumption DEF Count

LEMMA BalanceInit == Init => BalanceInv
<1> SUFFICES ASSUME Init  PROVE BalanceInv
  OBVIOUS
<1>1. ToldBy("add") = {} /\ ToldBy("remove") = {}
  BY AbsentIsNoCount DEF Init, ToldBy
<1>2. Told("add") = 0 /\ Told("remove") = 0
  BY <1>1, FS_EmptySet DEF Told, ToldBy
<1>3. store["member"] = Absent
  BY DEF Init, Records
<1> QED
  BY <1>2, <1>3 DEF Init, BalanceInv, CountsBalance

LEMMA BalanceFrame ==
  ASSUME BalanceInv, ~Replaced' => ~Replaced /\ store'["member"] = store["member"],
         ToldBy("add")' = ToldBy("add"), ToldBy("remove")' = ToldBy("remove")
  PROVE  CountsBalance'
<1>1. Told("add")' = Told("add") /\ Told("remove")' = Told("remove")
  BY DEF Told, ToldBy
<1> QED
  BY <1>1 DEF BalanceInv, CountsBalance

LEMMA BalanceSend ==
  ASSUME Shape, BalanceInv, NEW c \in Clients, NEW r, Send(c, r),
         UNCHANGED <<store, got, answer>>
  PROVE  BalanceInv'
<1>1. sent + 1 \in Ids /\ sent + 1 > sent
  BY RemoteAssumption DEF Send, Shape, Ids
<1>2. request[sent + 1] = NoRequest /\ answer[sent + 1] = Absent /\ at[sent + 1] = "unsent"
  BY <1>1 DEF Shape
<1>3. \A i \in Ids : i # sent + 1 => request'[i] = request[i] /\ at'[i] = at[i]
  BY <1>1 DEF Send, Shape
<1>4. at'[sent + 1] = "sent"
  BY <1>1 DEF Send, Shape
<1>5. ~Replaced' => ~Replaced
  BY <1>1, <1>2, <1>3 DEF Replaced, NoRequest
<1>6. ToldBy("add")' = ToldBy("add") /\ ToldBy("remove")' = ToldBy("remove")
  BY <1>2, <1>3, AbsentIsNoCount DEF ToldBy
<1>7. CountsBalance'
  BY <1>5, <1>6, BalanceFrame
<1> QED
  BY <1>3, <1>4, <1>5, <1>7 DEF BalanceInv

(* An answer that is no count of a set mutation, while the member stays.   *)
LEMMA BalanceRespond ==
  ASSUME Shape, BalanceInv, NEW i \in Ids, NEW a, Respond(i, a), at[i] # "done",
         \/ a # Count(1)
         \/ request[i].route \notin {"add", "remove"}
         \/ request[i].record # "member",
         ~Replaced => store'["member"] = store["member"],
         UNCHANGED request
  PROVE  BalanceInv'
<1>1. answer[i] # Count(1)
  BY AbsentIsNoCount DEF Shape
<1>2. answer'[i] = a /\ \A j \in Ids : j # i => answer'[j] = answer[j]
  BY DEF Respond, Shape
<1>3. at'[i] = "done" /\ \A j \in Ids : j # i => at'[j] = at[j]
  BY DEF Respond, Shape
<1>4. ToldBy("add")' = ToldBy("add") /\ ToldBy("remove")' = ToldBy("remove")
  BY <1>1, <1>2 DEF ToldBy
<1>5. Replaced' <=> Replaced
  BY DEF Replaced
<1>6. CountsBalance'
  BY <1>4, <1>5, BalanceFrame
<1> QED
  BY <1>3, <1>5, <1>6 DEF BalanceInv, Respond

LEMMA BalanceQuiet ==
  ASSUME BalanceInv, UNCHANGED <<request, answer>>,
         ~Replaced => store'["member"] = store["member"],
         \A j \in Ids : at'[j] = "mutate" /\ request[j].record = "member" =>
           \/ at[j] = "mutate" /\ got'[j] = got[j]
           \/ got'[j] = store["member"]
  PROVE  BalanceInv'
<1>1. ToldBy("add")' = ToldBy("add") /\ ToldBy("remove")' = ToldBy("remove")
  BY DEF ToldBy
<1>2. Replaced' <=> Replaced
  BY DEF Replaced
<1>3. CountsBalance'
  BY <1>1, <1>2, BalanceFrame
<1> QED
  BY <1>2, <1>3 DEF BalanceInv

(* The mutation that changes something: one more count, and the member     *)
(* comes or goes.                                                          *)
LEMMA BalanceMutate ==
  ASSUME Shape, LocksHeld, BalanceInv, NEW i \in Ids, Mutate(i),
         request[i].record = "member", Changes(i)
  PROVE  BalanceInv'
<1>1. at[i] = "mutate" /\ answer[i] = Absent /\ i \notin ToldBy("add") \cup ToldBy("remove")
  BY AbsentIsNoCount DEF Mutate, Shape, ToldBy
<1>2. answer'[i] = Count(1) /\ \A j \in Ids : j # i => answer'[j] = answer[j]
  BY DEF Mutate, Respond, Shape
<1>3. at'[i] = "done" /\ (\A j \in Ids : j # i => at'[j] = at[j]) /\ got' = got
  BY DEF Mutate, Respond, Shape
<1>4. request' = request /\ (Replaced' <=> Replaced)
  BY DEF Mutate, Replaced, wire
<1>5. \A j \in Ids : at'[j] # "mutate"
  BY <1>1, <1>3 DEF LocksHeld
<1>6. IsFiniteSet(ToldBy("add")) /\ IsFiniteSet(ToldBy("remove"))
  <2>1. IsFiniteSet(Ids)
    BY FS_Interval, RemoteAssumption DEF Ids
  <2>2. ToldBy("add") \subseteq Ids /\ ToldBy("remove") \subseteq Ids
    BY DEF ToldBy
  <2> QED
    BY <2>1, <2>2, FS_Subset
<1>7. Told("add") \in Nat /\ Told("remove") \in Nat
  BY <1>6, FS_CardinalityType DEF Told, ToldBy
<1>8. ASSUME ~Replaced  PROVE CountsBalance'
  <2>1. got[i] = store["member"]
    BY <1>1, <1>8 DEF BalanceInv
  <2>2. CASE request[i].route = "add"
    <3>1. store["member"] = Absent /\ store'["member"] = Envelope(i, 0)
      BY <2>1, <2>2 DEF Mutate, Changes, Shape, Records
    <3>2. Envelope(i, 0) # Absent
      BY RemoteAssumption DEF Envelope
    <3>3. ToldBy("add")' = ToldBy("add") \cup {i} /\ ToldBy("remove")' = ToldBy("remove")
      BY <1>2, <1>4, <2>2 DEF ToldBy
    <3>4. Cardinality(ToldBy("add") \cup {i}) = Cardinality(ToldBy("add")) + 1
      BY <1>1, <1>6, FS_AddElement
    <3>5. Told("add")' = Told("add") + 1 /\ Told("remove")' = Told("remove")
      BY <3>3, <3>4 DEF Told, ToldBy
    <3> QED
      BY <1>7, <1>8, <3>1, <3>2, <3>5 DEF BalanceInv, CountsBalance
  <2>3. CASE request[i].route = "remove"
    <3>1. store["member"] # Absent /\ store'["member"] = Absent
      BY <2>1, <2>3 DEF Mutate, Changes, Shape, Records
    <3>3. ToldBy("remove")' = ToldBy("remove") \cup {i} /\ ToldBy("add")' = ToldBy("add")
      BY <1>2, <1>4, <2>3 DEF ToldBy
    <3>4. Cardinality(ToldBy("remove") \cup {i}) = Cardinality(ToldBy("remove")) + 1
      BY <1>1, <1>6, FS_AddElement
    <3>5. Told("remove")' = Told("remove") + 1 /\ Told("add")' = Told("add")
      BY <3>3, <3>4 DEF Told, ToldBy
    <3> QED
      BY <1>7, <1>8, <3>1, <3>5 DEF BalanceInv, CountsBalance
  <2> QED
    BY <2>2, <2>3 DEF Mutate
<1> QED
  BY <1>4, <1>5, <1>8 DEF BalanceInv, CountsBalance

LEMMA BalanceStep == Shape /\ LocksHeld /\ BalanceInv /\ [Next]_vars => BalanceInv'
<1> SUFFICES ASSUME Shape, LocksHeld, BalanceInv, [Next]_vars  PROVE BalanceInv'
  OBVIOUS
<1>1. ASSUME NEW c \in Clients, Call(c) \/ LazyDelete(c)  PROVE BalanceInv'
  <2>1. PICK r : Send(c, r)
    BY <1>1 DEF Call, LazyDelete
  <2> QED
    BY <1>1, <2>1, BalanceSend DEF Call, LazyDelete
<1>2. ASSUME NEW c \in Clients, Receive(c) \/ GiveUp(c)  PROVE BalanceInv'
  BY <1>2, BalanceQuiet DEF Receive, GiveUp, wire, handlers
<1>3. ASSUME NEW i \in Ids, KVGet(i) \/ KVPut(i) \/ KVDelete(i)  PROVE BalanceInv'
  <2>1. PICK a : Respond(i, a)
    BY <1>3 DEF KVGet, KVPut, KVDelete
  <2>2. at[i] # "done" /\ request[i].route \notin {"add", "remove"} /\ UNCHANGED request
    BY <1>3 DEF KVGet, KVPut, KVDelete, Route, wire
  <2>3. store'["member"] = store["member"]
    BY <1>3 DEF KVGet, KVPut, KVDelete, Route, Shape, Formed, Records
  <2> QED
    BY <2>1, <2>2, <2>3, BalanceRespond
<1>4. ASSUME NEW i \in Ids, LockLogical(i) \/ LockPush(i)  PROVE BalanceInv'
  <2>1. \A j \in Ids : at'[j] = "mutate" => at[j] = "mutate" /\ got'[j] = got[j]
    BY <1>4 DEF LockLogical, LockPush, Advance, Shape
  <2> QED
    BY <1>4, <2>1, BalanceQuiet DEF LockLogical, LockPush, wire
<1>5. ASSUME NEW i \in Ids, ClearRecord(i)  PROVE BalanceInv'
  <2>1. Replaced
    BY <1>5 DEF ClearRecord, Route, Replaced
  <2>2. \A j \in Ids : at'[j] = "mutate" => at[j] = "mutate" /\ got'[j] = got[j]
    BY <1>5 DEF ClearRecord, Route, Shape
  <2> QED
    BY <1>5, <2>1, <2>2, BalanceQuiet DEF ClearRecord, wire
<1>6. ASSUME NEW i \in Ids, StoreLogical(i)  PROVE BalanceInv'
  <2>1. Replaced
    BY <1>6 DEF StoreLogical, Route, Replaced
  <2> QED
    BY <1>6, <2>1, BalanceRespond DEF StoreLogical, Route, wire
<1>7. ASSUME NEW i \in Ids, LockMutation(i)  PROVE BalanceInv'
  <2>1. \A j \in Ids : at'[j] = "mutate" /\ request[j].record = "member" =>
          (at[j] = "mutate" /\ got'[j] = got[j]) \/ got'[j] = store["member"]
    BY <1>7 DEF LockMutation, Advance, Shape
  <2> QED
    BY <1>7, <2>1, BalanceQuiet DEF LockMutation, wire
<1>8. ASSUME NEW i \in Ids, Mutate(i)  PROVE BalanceInv'
  <2>1. CASE request[i].record = "member" /\ Changes(i)
    BY <1>8, <2>1, BalanceMutate
  <2>2. CASE request[i].record # "member"
    <3>1. store'["member"] = store["member"]
      BY <1>8, <2>2 DEF Mutate, Shape, Records
    <3> QED
      BY <1>8, <2>2, <3>1, BalanceRespond DEF Mutate, wire
  <2>3. CASE ~Changes(i)
    <3>1. store'["member"] = store["member"]
      BY <1>8, <2>3 DEF Mutate, Shape, Records
    <3>2. Count(0) # Count(1)
      BY DEF Count
    <3> QED
      BY <1>8, <2>3, <3>1, <3>2, BalanceRespond DEF Mutate, wire
  <2> QED
    BY <2>1, <2>2, <2>3
<1>9. ASSUME NEW i \in Ids, Push(i)  PROVE BalanceInv'
  <2>1. store'["member"] = store["member"]
    BY <1>9 DEF Push, Shape, Records
  <2> QED
    BY <1>9, <2>1, BalanceRespond DEF Push, Route, wire
<1>10. ASSUME NEW i \in Ids, HandlerFails(i)  PROVE BalanceInv'
  <2>1. [status |-> "error"] # Count(1)
    BY DEF Count
  <2> QED
    BY <1>10, <2>1, BalanceRespond DEF HandlerFails, wire
<1>11. CASE RedisRead \/ RedisWrite
  <2>1. store'["member"] = store["member"]
    BY <1>11 DEF RedisRead, RedisWrite, Shape, Records
  <2> QED
    BY <1>11, <2>1, BalanceQuiet DEF RedisRead, RedisWrite, wire, handlers
<1>12. CASE Tick \/ UNCHANGED vars
  BY <1>12, BalanceQuiet DEF Tick, vars, wire, handlers
<1> QED
  BY <1>1, <1>2, <1>3, <1>4, <1>5, <1>6, <1>7, <1>8, <1>9, <1>10, <1>11, <1>12
     DEF Next, ClientStep, Serves

(* extensions/http/http.go, POST /v1/set/add and /v1/set/remove: the       *)
(* counts that mutations report add up to the member that is there, since  *)
(* look-up and write are under protocolMu and nobody else writes members.  *)
THEOREM CountsBalanceHolds == Spec => []CountsBalance
<1>1. BalanceInv => CountsBalance
  BY DEF BalanceInv
<1> QED
  BY <1>1, ShapeInit, ShapeStep, BalanceInit, BalanceStep, PTL DEF Spec

-----------------------------------------------------------------------------
(* Pushes: the list has every push once that was answered with a count,    *)
(* and no other; the handler that is between its read and its write has    *)
(* the list as it still is.                                                *)

Listed == Items(store["list"])

Counted(i) == request[i].route = "push" /\ at[i] = "done" /\ answer[i].status = "count"

ListExact ==
  /\ Listed \in Seq(Ids)
  /\ \A m, n \in DOMAIN Listed : Listed[m] = Listed[n] => m = n
  /\ \A n \in DOMAIN Listed : Counted(Listed[n])
  /\ \A i \in Ids : Counted(i) => \E n \in DOMAIN Listed : Listed[n] = i
  /\ \A i \in Ids : at[i] = "push" => got[i] = Listed
  /\ \A i \in acked : i \in Ids /\ Counted(i)

PushInv ==
  /\ pushed \in Nat /\ (redis.at = "write" => pushed # 0)
  /\ ~Replaced /\ pushed = 0 => ListExact

LEMMA PushInit == Init => PushInv
<1> SUFFICES ASSUME Init  PROVE PushInv
  OBVIOUS
<1>1. Listed = <<>>
  BY DEF Init, Listed, Items, Records
<1>2. \A i \in Ids : at[i] = "unsent"
  BY DEF Init
<1>3. ListExact
  BY <1>1, <1>2 DEF Init, ListExact, Counted
<1> QED
  BY <1>3 DEF Init, PushInv

(* The list stays, and nobody is told of a push.                           *)
LEMMA ListFrame ==
  ASSUME ListExact, store'["list"] = store["list"],
         \A i \in Ids : Counted(i)' <=> Counted(i),
         \A i \in Ids : at'[i] = "push" => (at[i] = "push" /\ got'[i] = got[i]) \/ got'[i] = Listed,
         \A i \in acked' : i \in acked \/ (i \in Ids /\ Counted(i))
  PROVE  ListExact'
<1>1. Listed' = Listed
  BY DEF Listed, Items
<1>2. \A n \in DOMAIN Listed : Listed[n] \in Ids
  BY DEF ListExact
<1> QED
  BY <1>1, <1>2 DEF ListExact

LEMMA PushQuiet ==
  ASSUME PushInv, UNCHANGED <<request, pushed>>, redis'.at = "write" => redis.at = "write",
         ~Replaced /\ pushed = 0 => store'["list"] = store["list"],
         \A i \in Ids : Counted(i)' <=> Counted(i),
         \A i \in Ids : at'[i] = "push" => (at[i] = "push" /\ got'[i] = got[i]) \/ got'[i] = Listed,
         \A i \in acked' : i \in acked \/ (i \in Ids /\ Counted(i))
  PROVE  PushInv'
<1>1. Replaced' <=> Replaced
  BY DEF Replaced
<1>2. ~Replaced /\ pushed = 0 => ListExact'
  BY ListFrame DEF PushInv
<1> QED
  BY <1>1, <1>2 DEF PushInv

LEMMA PushSend ==
  ASSUME Shape, PushInv, NEW c \in Clients, NEW r, Send(c, r),
         UNCHANGED <<store, got, answer, acked, redis, pushed>>
  PROVE  PushInv'
<1>1. sent + 1 \in Ids /\ sent + 1 > sent
  BY RemoteAssumption DEF Send, Shape, Ids
<1>2. request[sent + 1] = NoRequest /\ at[sent + 1] = "unsent"
  BY <1>1 DEF Shape
<1>3. \A i \in Ids : i # sent + 1 => request'[i] = request[i] /\ at'[i] = at[i]
  BY <1>1 DEF Send, Shape
<1>4. at'[sent + 1] = "sent"
  BY <1>1 DEF Send, Shape
<1>5. ~Replaced' => ~Replaced
  BY <1>1, <1>2, <1>3 DEF Replaced, NoRequest
<1>6. \A i \in Ids : Counted(i)' <=> Counted(i)
  BY <1>2, <1>3, <1>4 DEF Counted
<1>7. ~Replaced /\ pushed = 0 => ListExact'
  BY <1>3, <1>4, <1>6, ListFrame DEF PushInv
<1> QED
  BY <1>5, <1>7 DEF PushInv

(* An answer other than the count of a push.                               *)
LEMMA PushRespond ==
  ASSUME Shape, PushInv, NEW i \in Ids, NEW a, Respond(i, a), at[i] # "done",
         a.status # "count" \/ request[i].route # "push",
         ~Replaced /\ pushed = 0 => store'["list"] = store["list"],
         UNCHANGED <<request, acked, redis, pushed>>
  PROVE  PushInv'
<1>1. answer'[i] = a /\ \A j \in Ids : j # i => answer'[j] = answer[j]
  BY DEF Respond, Shape
<1>2. at'[i] = "done" /\ \A j \in Ids : j # i => at'[j] = at[j]
  BY DEF Respond, Shape
<1>3. \A j \in Ids : Counted(j)' <=> Counted(j)
  BY <1>1, <1>2 DEF Counted
<1>4. \A j \in Ids : at'[j] = "push" => at[j] = "push" /\ got'[j] = got[j]
  BY <1>2 DEF Respond
<1> QED
  BY <1>3, <1>4, PushQuiet

(* The push itself: its number is not in the list yet, and it is the only  *)
(* one between its steps.                                                  *)
LEMMA PushAppends ==
  ASSUME Shape, LocksHeld, PushInv, NEW i \in Ids, Push(i)
  PROVE  PushInv'
<1>1. at[i] = "push" /\ request[i].route = "push" /\ request' = request /\ acked' = acked
  BY DEF Push, Route, wire, client
<1>2. answer'[i].status = "count" /\ \A j \in Ids : j # i => answer'[j] = answer[j]
  BY DEF Push, Respond, Shape, Count
<1>3. at'[i] = "done" /\ \A j \in Ids : j # i => at'[j] = at[j]
  BY DEF Push, Respond, Shape
<1>4. \A j \in Ids : at'[j] # "push"
  BY <1>1, <1>3 DEF LocksHeld
<1>5. Counted(i)' /\ ~Counted(i) /\ \A j \in Ids : j # i => (Counted(j)' <=> Counted(j))
  BY <1>1, <1>2, <1>3 DEF Counted
<1>6. Replaced' <=> Replaced
  BY <1>1 DEF Replaced
<1>7. ASSUME ListExact  PROVE ListExact'
  <2>1. got[i] = Listed /\ Listed \in Seq(Ids)
    BY <1>1, <1>7 DEF ListExact
  <2>2. store'["list"] = Envelope(Append(Listed, i), 0)
    BY <2>1 DEF Push, Shape, Records
  <2>3. Append(Listed, i) \in Seq(Ids)
    BY <2>1
  <2>4. Envelope(Append(Listed, i), 0) # Absent
    BY <2>3, RemoteAssumption DEF Envelope
  <2>5. Listed' = Append(Listed, i)
    BY <2>2, <2>4 DEF Listed, Items, Envelope
  <2>6. /\ DOMAIN Listed = 1..Len(Listed) /\ Len(Listed) \in Nat
        /\ DOMAIN Listed' = 1..(Len(Listed) + 1)
        /\ Listed'[Len(Listed) + 1] = i
        /\ \A n \in DOMAIN Listed : Listed'[n] = Listed[n] /\ Listed[n] \in Ids /\ Listed[n] # i
    <3>1. \A n \in DOMAIN Listed : Listed[n] \in Ids /\ Listed[n] # i
      BY <1>5, <1>7, <2>1 DEF ListExact
    <3> QED
      BY <2>1, <2>5, <3>1
  <2>7. \A m, n \in DOMAIN Listed' : Listed'[m] = Listed'[n] => m = n
    BY <1>7, <2>6 DEF ListExact
  <2>8. (\A n \in DOMAIN Listed : Counted(Listed[n]))'
    <3>1. \A j \in Ids : j = i \/ Counted(j) => Counted(j)'
      BY <1>5
    <3>2. \A n \in DOMAIN Listed' : Listed'[n] \in Ids /\ (Listed'[n] = i \/ Counted(Listed'[n]))
      BY <1>7, <2>6 DEF ListExact
    <3> QED
      BY <3>1, <3>2 DEF Counted
  <2>9. \A j \in Ids : Counted(j)' => \E n \in DOMAIN Listed' : Listed'[n] = j
    BY <1>5, <1>7, <2>6 DEF ListExact
  <2>10. \A j \in acked' : j \in Ids /\ Counted(j)'
    BY <1>1, <1>5, <1>7 DEF ListExact
  <2> QED
    BY <1>4, <2>3, <2>5, <2>7, <2>8, <2>9, <2>10 DEF ListExact, Counted
<1> QED
  BY <1>6, <1>7 DEF PushInv, Push, redisVars

LEMMA PushStep == Shape /\ LocksHeld /\ PushInv /\ [Next]_vars => PushInv'
<1> SUFFICES ASSUME Shape, LocksHeld, PushInv, [Next]_vars  PROVE PushInv'
  OBVIOUS
<1>1. ASSUME NEW c \in Clients, Call(c) \/ LazyDelete(c)  PROVE PushInv'
  <2>1. PICK r : Send(c, r)
    BY <1>1 DEF Call, LazyDelete
  <2> QED
    BY <1>1, <2>1, PushSend DEF Call, LazyDelete, redisVars
<1>2. ASSUME NEW c \in Clients, Receive(c)  PROVE PushInv'
  <2>1. waits[c] \in Ids
    BY <1>2 DEF Receive, Answered, Shape
  <2>2. \A i \in acked' : i \in acked \/ (i \in Ids /\ Counted(i))
    BY <1>2, <2>1 DEF Receive, Answered, Counted
  <2>3. \A i \in Ids : Counted(i)' <=> Counted(i)
    BY <1>2 DEF Receive, Counted, wire, handlers
  <2> QED
    BY <1>2, <2>2, <2>3, PushQuiet DEF Receive, wire, handlers, redisVars
<1>3. ASSUME NEW c \in Clients, GiveUp(c)  PROVE PushInv'
  <2>1. \A i \in Ids : Counted(i)' <=> Counted(i)
    BY <1>3 DEF GiveUp, Counted, wire, handlers
  <2> QED
    BY <1>3, <2>1, PushQuiet DEF GiveUp, wire, handlers, redisVars
<1>4. ASSUME NEW i \in Ids, KVGet(i) \/ KVPut(i) \/ KVDelete(i)  PROVE PushInv'
  <2>1. PICK a : Respond(i, a)
    BY <1>4 DEF KVGet, KVPut, KVDelete
  <2>2. at[i] # "done" /\ request[i].route # "push" /\ UNCHANGED <<request, acked, redis, pushed>>
    BY <1>4 DEF KVGet, KVPut, KVDelete, Route, wire, client, redisVars
  <2>3. store'["list"] = store["list"]
    BY <1>4 DEF KVGet, KVPut, KVDelete, Route, Shape, Formed, Records
  <2> QED
    BY <2>1, <2>2, <2>3, PushRespond
<1>5. ASSUME NEW i \in Ids, LockLogical(i) \/ LockMutation(i) \/ LockPush(i) \/ ClearRecord(i)
      PROVE  PushInv'
  <2>1. \A j \in Ids : Counted(j)' <=> Counted(j)
    <3>1. \A j \in Ids : at'[j] = "done" <=> at[j] = "done"
      BY <1>5 DEF LockLogical, LockMutation, LockPush, ClearRecord, Route, Advance, Shape
    <3> QED
      BY <1>5, <3>1 DEF LockLogical, LockMutation, LockPush, ClearRecord, Counted, wire
  <2>2. \A j \in Ids : at'[j] = "push" => (at[j] = "push" /\ got'[j] = got[j]) \/ got'[j] = Listed
    BY <1>5 DEF LockLogical, LockMutation, LockPush, ClearRecord, Route, Advance, Shape, Listed
  <2>3. ~Replaced => store' = store
    BY <1>5 DEF LockLogical, LockMutation, LockPush, ClearRecord, Route, Replaced
  <2> QED
    BY <1>5, <2>1, <2>2, <2>3, PushQuiet
       DEF LockLogical, LockMutation, LockPush, ClearRecord, wire, client, redisVars
<1>6. ASSUME NEW i \in Ids, StoreLogical(i)  PROVE PushInv'
  <2>1. Replaced
    BY <1>6 DEF StoreLogical, Route, Replaced
  <2> QED
    BY <1>6, <2>1, PushRespond DEF StoreLogical, Route, wire, client, redisVars
<1>7. ASSUME NEW i \in Ids, Mutate(i)  PROVE PushInv'
  <2>1. store'["list"] = store["list"]
    BY <1>7 DEF Mutate, Shape, Formed, Records
  <2> QED
    BY <1>7, <2>1, PushRespond DEF Mutate, wire, client, redisVars
<1>8. ASSUME NEW i \in Ids, Push(i)  PROVE PushInv'
  BY <1>8, PushAppends
<1>9. ASSUME NEW i \in Ids, HandlerFails(i)  PROVE PushInv'
  BY <1>9, PushRespond DEF HandlerFails, wire, client, redisVars
<1>10. CASE RedisRead
  <2>1. pushed' \in Nat /\ pushed' # 0
    BY <1>10 DEF RedisRead, PushInv
  <2> QED
    BY <1>10, <2>1 DEF PushInv
<1>11. CASE RedisWrite
  <2>1. pushed # 0 /\ pushed' = pushed /\ redis'.at # "write"
    BY <1>11 DEF RedisWrite, PushInv
  <2> QED
    BY <2>1 DEF PushInv
<1>12. CASE Tick \/ UNCHANGED vars
  <2>1. \A i \in Ids : Counted(i)' <=> Counted(i)
    BY <1>12 DEF Tick, vars, Counted, wire, handlers
  <2> QED
    BY <1>12, <2>1, PushQuiet DEF Tick, vars, wire, handlers, client, redisVars
<1> QED
  BY <1>1, <1>2, <1>3, <1>4, <1>5, <1>6, <1>7, <1>8, <1>9, <1>10, <1>11, <1>12
     DEF Next, ClientStep, Serves

(* A list without repetitions has each of its items once.                  *)
LEMMA ListedOnce ==
  ASSUME ListExact, NEW i \in Ids
  PROVE  Occurrences(i) = IF Counted(i) THEN 1 ELSE 0
<1> DEFINE where == {n \in DOMAIN Listed : Listed[n] = i}
<1>1. Occurrences(i) = Cardinality(where)
  BY DEF Occurrences, Listed
<1>2. CASE Counted(i)
  <2>1. PICK n \in DOMAIN Listed : Listed[n] = i
    BY <1>2 DEF ListExact
  <2>2. where = {n}
    BY <2>1 DEF ListExact
  <2> QED
    BY <1>1, <1>2, <2>2, FS_Singleton
<1>3. CASE ~Counted(i)
  <2>1. where = {}
    BY <1>3 DEF ListExact
  <2> QED
    BY <1>1, <1>3, <2>1, FS_EmptySet
<1> QED
  BY <1>2, <1>3

(* extensions/http/http.go, POST /v1/list/push: without a replacement and  *)
(* without Redis pushes, the push a client was told of is in the list once *)
(* and one it has given up on at most once, since nobody writes the list   *)
(* while a handler holds collectionMu.                                     *)
THEOREM PushesKeptHolds == Spec => []PushesKept
<1>1. PushInv => PushesKept
  <2>1. ASSUME ListExact  PROVE HTTPPushesKept
    BY <2>1, ListedOnce DEF HTTPPushesKept, ListExact
  <2> QED
    BY <2>1 DEF PushInv, PushesKept
<1> QED
  BY <1>1, ShapeInit, ShapeStep, PushInit, PushStep, PTL DEF Spec
=============================================================================
