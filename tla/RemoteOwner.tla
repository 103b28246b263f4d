----------------------------- MODULE RemoteOwner -----------------------------
(***************************************************************************)
(* Remote clients of one HTTP owner (extensions/http/http.go): the calls   *)
(* of a DB handle from Connect, the requests its remoteEngine sends, and   *)
(* the owner's handlers, which go through the same mutexes as the embedded *)
(* operations and the Redis endpoint of the owner's process.               *)
(*                                                                         *)
(* A client waits for the response, or gives up: the time-out fires, or    *)
(* the response is lost.  The handler does not know and goes on, and       *)
(* nothing is sent twice (net/http repeats no POST, PUT or DELETE that may *)
(* have arrived).  As in DBCore there is one logical key; its records are  *)
(* the scalar, one hash field, one set member and the list.  What          *)
(* deleteLogicalKey looks up call by call in DBCore is one step here.      *)
(***************************************************************************)
EXTENDS Integers, Sequences, FiniteSets

CONSTANTS Clients,
          Calls,         \* names of the calls that clients make
          TTLs,          \* TTL options, 0 for none
          MaxRequests,   \* bound: requests sent
          MaxRedis,      \* bound: pushes by Redis clients of the owner
          MaxFaults,     \* bound: engine calls that fail
          MaxTime,       \* bound: the clock stops here
          Absent,        \* no record
          None           \* nobody

Ids == 1..MaxRequests
Redis == 0

ASSUME RemoteAssumption ==
  /\ Calls \subseteq {"Put", "Get", "HSet", "HGet", "RPush", "SAdd", "SRemove", "HDelete"}
  /\ TTLs \subseteq Nat
  /\ MaxRequests \in Nat /\ MaxRedis \in Nat /\ MaxFaults \in Nat /\ MaxTime \in Nat
  /\ None \notin Ids \cup {Redis}
  /\ Absent \notin [data : Ids \cup Seq(Ids), exp : Nat]
  /\ Absent \notin [status : {"count"}, count : Nat]

VARIABLES store,          \* the owner's records of the key
          now,
          protocolMu, collectionMu,   \* held by a request, by Redis, or by None
          sent,           \* requests so far; their numbers are 1..sent
          request,        \* what each of them asks for
          at,             \* how far its handler is
          got,            \* what the handler has read
          answer,         \* what it answered
          waits,          \* the request that a client waits for, or None
          acked,          \* pushes that were answered and whose answer arrived
          redis, pushed,  \* a Redis push under way, and how many there were
          faults

locks == <<protocolMu, collectionMu>>
wire == <<sent, request>>
handlers == <<at, got, answer>>
client == <<waits, acked>>
redisVars == <<redis, pushed>>
vars == <<store, now, locks, wire, handlers, client, redisVars, faults>>

(* Records hold an envelope; the list is a sequence of items, and an item  *)
(* is named for the push that brought it.                                  *)
Records == {"value", "field", "member", "list"}

Envelope(data, exp) == [data |-> data, exp |-> exp]
Expired(e) == e # Absent /\ e.exp > 0 /\ now >= e.exp
Items(e) == IF e = Absent THEN <<>> ELSE e.data

NoRequest == [route |-> "none"]

(* The scalar may be there from earlier, with or without an expiry.        *)
Init ==
  /\ store \in {[[r \in Records |-> Absent] EXCEPT !["value"] = e] :
                  e \in {Absent} \cup {Envelope(Redis, exp) : exp \in {0, MaxTime}}}
  /\ now = 1
  /\ protocolMu = None /\ collectionMu = None
  /\ sent = 0 /\ request = [i \in Ids |-> NoRequest]
  /\ at = [i \in Ids |-> "unsent"]
  /\ got = [i \in Ids |-> Absent]
  /\ answer = [i \in Ids |-> Absent]
  /\ waits = [c \in Clients |-> None] /\ acked = {}
  /\ redis = [at |-> "idle", list |-> <<>>] /\ pushed = 0
  /\ faults = 0

-----------------------------------------------------------------------------
(* The client: one request per call, and a second one, to delete it, when  *)
(* a read finds an expired record.  The expiry is computed by the client.  *)

Send(c, r) ==
  /\ sent < MaxRequests
  /\ sent' = sent + 1
  /\ request' = [request EXCEPT ![sent + 1] = r]
  /\ at' = [at EXCEPT ![sent + 1] = "sent"]
  /\ waits' = [waits EXCEPT ![c] = sent + 1]

Asks(name) ==
  CASE name = "Put" -> {[route |-> "logical", exp |-> e] : e \in TTLs}
    [] name = "HSet" -> {[route |-> "put", record |-> "field", exp |-> e] : e \in TTLs}
    [] name = "Get" -> {[route |-> "get", record |-> "value"]}
    [] name = "HGet" -> {[route |-> "get", record |-> "field"]}
    [] name = "RPush" -> {[route |-> "push"]}
    [] name = "SAdd" -> {[route |-> "add", record |-> "member"]}
    [] name = "SRemove" -> {[route |-> "remove", record |-> "member"]}
    [] name = "HDelete" -> {[route |-> "remove", record |-> "field"]}

Stamped(r) ==
  IF r.route \in {"logical", "put"}
  THEN [r EXCEPT !.exp = IF @ > 0 THEN now + @ ELSE 0] ELSE r

Call(c) ==
  /\ waits[c] = None
  /\ \E name \in Calls : \E r \in Asks(name) : Send(c, Stamped(r))
  /\ UNCHANGED <<store, now, locks, got, answer, acked, redisVars, faults>>

Answered(c) == waits[c] # None /\ at[waits[c]] = "done"

ReadExpired(c) ==
  /\ request[waits[c]].route = "get" /\ answer[waits[c]].status = "found"
  /\ Expired(answer[waits[c]].record)

(* The response arrives and the call returns.                              *)
Receive(c) ==
  /\ Answered(c) /\ ~ReadExpired(c)
  /\ acked' = IF request[waits[c]].route = "push" /\ answer[waits[c]].status = "count"
              THEN acked \cup {waits[c]} ELSE acked
  /\ waits' = [waits EXCEPT ![c] = None]
  /\ UNCHANGED <<store, now, locks, wire, handlers, redisVars, faults>>

LazyDelete(c) ==
  /\ Answered(c) /\ ReadExpired(c)
  /\ Send(c, [route |-> "delete", record |-> request[waits[c]].record])
  /\ UNCHANGED <<store, now, locks, got, answer, acked, redisVars, faults>>

GiveUp(c) ==
  /\ waits[c] # None
  /\ waits' = [waits EXCEPT ![c] = None]
  /\ UNCHANGED <<store, now, locks, wire, handlers, acked, redisVars, faults>>

-----------------------------------------------------------------------------
(* The owner's handlers.                                                   *)

Route(i, route, place) == request[i].route = route /\ at[i] = place

Respond(i, a) ==
  /\ at' = [at EXCEPT ![i] = "done"]
  /\ answer' = [answer EXCEPT ![i] = a]
  /\ UNCHANGED got

Done == [status |-> "done"]
Count(n) == [status |-> "count", count |-> n]
Answer(e) == [status |-> IF e = Absent THEN "missing" ELSE "found", record |-> e]

KVGetUnlocked(i) ==
  /\ Route(i, "get", "sent")
  /\ Respond(i, Answer(store[request[i].record]))
  /\ UNCHANGED <<store, now, locks, wire, client, redisVars, faults>>

(* GET /v1/kv reads under protocolMu; PUT and DELETE take no mutex.        *)
KVGet(i) ==
  /\ Route(i, "get", "sent") /\ protocolMu = None
  /\ Respond(i, Answer(store[request[i].record]))
  /\ UNCHANGED <<store, now, locks, wire, client, redisVars, faults>>

KVPut(i) ==
  /\ Route(i, "put", "sent")
  /\ store' = [store EXCEPT ![request[i].record] = Envelope(i, request[i].exp)]
  /\ Respond(i, Done)
  /\ UNCHANGED <<now, locks, wire, client, redisVars, faults>>

KVDelete(i) ==
  /\ Route(i, "delete", "sent")
  /\ store' = [store EXCEPT ![request[i].record] = Absent]
  /\ Respond(i, Done)
  /\ UNCHANGED <<now, locks, wire, client, redisVars, faults>>

Advance(i, place) == at' = [at EXCEPT ![i] = place]

(* PUT /v1/logical: protocolMu, the old records one by one, the new one.   *)
LockLogical(i) ==
  /\ Route(i, "logical", "sent") /\ protocolMu = None
  /\ protocolMu' = i /\ Advance(i, "clear")
  /\ got' = [got EXCEPT ![i] = {r \in Records : store[r] # Absent}]
  /\ UNCHANGED <<store, now, collectionMu, wire, answer, client, redisVars, faults>>

ClearRecord(i) ==
  /\ Route(i, "logical", "clear")
  /\ \E r \in got[i] :
       /\ store' = [store EXCEPT ![r] = Absent]
       /\ got' = [got EXCEPT ![i] = @ \ {r}]
  /\ UNCHANGED <<now, locks, wire, at, answer, client, redisVars, faults>>

StoreLogical(i) ==
  /\ Route(i, "logical", "clear") /\ got[i] = {}
  /\ store' = [store EXCEPT !["value"] = Envelope(i, request[i].exp)]
  /\ protocolMu' = None
  /\ Respond(i, Done)
  /\ UNCHANGED <<now, collectionMu, wire, client, redisVars, faults>>

(* POST /v1/set/add, /v1/set/remove and /v1/hash/delete: SAdd, SRemove    *)
(* and HDelete of one item under protocolMu.  The item is looked up, and   *)
(* written or deleted when that changes something.                         *)
LookUpUnlocked(i) ==
  /\ request[i].route \in {"add", "remove"} /\ at[i] = "sent"
  /\ Advance(i, "mutate")
  /\ got' = [got EXCEPT ![i] = store[request[i].record]]
  /\ UNCHANGED <<store, now, locks, wire, answer, client, redisVars, faults>>

LockMutation(i) ==
  /\ request[i].route \in {"add", "remove"} /\ at[i] = "sent" /\ protocolMu = None
  /\ protocolMu' = i /\ Advance(i, "mutate")
  /\ got' = [got EXCEPT ![i] = store[request[i].record]]
  /\ UNCHANGED <<store, now, collectionMu, wire, answer, client, redisVars, faults>>

Unlocked(m, i) == IF m = i THEN None ELSE m

Changes(i) == (got[i] = Absent) = (request[i].route = "add")

Mutate(i) ==
  /\ request[i].route \in {"add", "remove"} /\ at[i] = "mutate"
  /\ store' = [store EXCEPT ![request[i].record] =
                 IF ~Changes(i) THEN @
                 ELSE IF request[i].route = "add" THEN Envelope(i, 0) ELSE Absent]
  /\ protocolMu' = Unlocked(protocolMu, i)
  /\ Respond(i, Count(IF Changes(i) THEN 1 ELSE 0))
  /\ UNCHANGED <<now, collectionMu, wire, client, redisVars, faults>>

(* POST /v1/list/push: pushEncodedList under collectionMu.                 *)
PushUnlocked(i) ==
  /\ Route(i, "push", "sent")
  /\ Advance(i, "push")
  /\ got' = [got EXCEPT ![i] = Items(store["list"])]
  /\ UNCHANGED <<store, now, locks, wire, answer, client, redisVars, faults>>

LockPush(i) ==
  /\ Route(i, "push", "sent") /\ collectionMu = None
  /\ collectionMu' = i /\ Advance(i, "push")
  /\ got' = [got EXCEPT ![i] = Items(store["list"])]
  /\ UNCHANGED <<store, now, protocolMu, wire, answer, client, redisVars, faults>>

Push(i) ==
  /\ Route(i, "push", "push")
  /\ store' = [store EXCEPT !["list"] = Envelope(Append(got[i], i), 0)]
  /\ collectionMu' = Unlocked(collectionMu, i)
  /\ Respond(i, Count(Len(got[i]) + 1))
  /\ UNCHANGED <<now, protocolMu, wire, client, redisVars, faults>>

FailsLocked(i) ==
  /\ at[i] \notin {"unsent", "done"} /\ faults < MaxFaults
  /\ faults' = faults + 1
  /\ Respond(i, [status |-> "error"])
  /\ UNCHANGED <<store, now, locks, wire, client, redisVars>>

(* The body cannot be read, or an engine call fails: the handler unlocks   *)
(* and answers with an error.                                              *)
HandlerFails(i) ==
  /\ at[i] \notin {"unsent", "done"} /\ faults < MaxFaults
  /\ faults' = faults + 1
  /\ protocolMu' = Unlocked(protocolMu, i) /\ collectionMu' = Unlocked(collectionMu, i)
  /\ Respond(i, [status |-> "error"])
  /\ UNCHANGED <<store, now, wire, client, redisVars>>

-----------------------------------------------------------------------------
(* RPUSH at the owner's Redis endpoint: under protocolMu it reads the list *)
(* and writes it back.                                                     *)

RedisRead ==
  /\ redis.at = "idle" /\ pushed < MaxRedis /\ protocolMu = None
  /\ protocolMu' = Redis /\ pushed' = pushed + 1
  /\ redis' = [at |-> "write", list |-> Items(store["list"])]
  /\ UNCHANGED <<store, now, collectionMu, wire, handlers, client, faults>>

RedisWrite ==
  /\ redis.at = "write"
  /\ store' = [store EXCEPT !["list"] = Envelope(Append(redis.list, -pushed), 0)]
  /\ protocolMu' = None
  /\ redis' = [at |-> "idle", list |-> <<>>]
  /\ UNCHANGED <<now, collectionMu, wire, handlers, client, pushed, faults>>

Tick ==
  /\ now < MaxTime
  /\ now' = now + 1
  /\ UNCHANGED <<store, locks, wire, handlers, client, redisVars, faults>>

-----------------------------------------------------------------------------
Serves(i) ==
  \/ KVGet(i) \/ KVPut(i) \/ KVDelete(i)
  \/ LockLogical(i) \/ ClearRecord(i) \/ StoreLogical(i)
  \/ LockMutation(i) \/ Mutate(i) \/ LockPush(i) \/ Push(i)

ClientStep(c) == Call(c) \/ Receive(c) \/ LazyDelete(c) \/ GiveUp(c)

Next ==
  \/ \E c \in Clients : ClientStep(c)
  \/ \E i \in Ids : Serves(i) \/ HandlerFails(i)
  \/ RedisRead \/ RedisWrite
  \/ Tick

Spec == Init /\ [][Next]_vars

(* Handlers run whether or not their client still waits, and one that      *)
(* waits for a mutex gets it (a Go mutex starves nobody).                  *)
FairSpec ==
  /\ Spec
  /\ WF_vars(RedisWrite)
  /\ \A i \in Ids : SF_vars(Serves(i))

-----------------------------------------------------------------------------
Occurrences(i) == Cardinality({n \in DOMAIN Items(store["list"]) : Items(store["list"])[n] = i})

Replaced == \E i \in Ids : request[i].route = "logical"

HTTPPushesKept ==
  /\ \A i \in acked : Occurrences(i) = 1
  /\ \A i \in Ids : Occurrences(i) <= 1

RedisPushesKept == \A n \in 1..pushed : (n = pushed /\ redis.at = "write") \/ Occurrences(-n) = 1

(* README.md:297-299: lists "are atomically updated by the database owner, *)
(* including when the update comes through the HTTP client": as long as    *)
(* no Put replaces the key and Redis clients leave it alone, a push that a *)
(* client was told of is in the list once, and one it has given up on at   *)
(* most once.                                                              *)
PushesKept == ~Replaced /\ pushed = 0 => HTTPPushesKept

(* The same sentence with Redis clients: the HTTP pushes and the completed *)
(* RPUSHes of the owner's Redis endpoint are all in the list.              *)
OwnerUpdatesAtomic == ~Replaced => HTTPPushesKept /\ RedisPushesKept

(* extensions/http/README.md:63-64: "reads do not see a gap during scalar  *)
(* replacement": a GET never finds the scalar missing because a            *)
(* replacement has deleted the old one and not yet stored the new one.     *)
ReadsSeeNoGap ==
  [][\A i \in Ids :
       /\ at[i] = "sent" /\ at'[i] = "done"
       /\ request[i].route = "get" /\ answer'[i].status = "missing"
       => \A j \in Ids : ~(request[j].route = "logical" /\ at[j] = "clear")]_vars

Told(route) ==
  Cardinality({i \in Ids : /\ request[i].route = route /\ request[i].record = "member"
                           /\ answer[i] = Count(1)})

(* extensions/http/README.md:62-63: concurrent set mutations "receive      *)
(* correct added/removed counts": as long as no Put replaces the key, the  *)
(* additions that SAdd reports exceed the removals that SRemove reports by *)
(* one exactly while the member is there, lost responses or not.           *)
CountsBalance ==
  ~Replaced =>
    Told("add") - Told("remove") = IF store["member"] = Absent THEN 0 ELSE 1

(* Every request that reaches the owner is answered, also after a failed   *)
(* engine call and after its client has gone: no handler keeps a mutex.    *)
RequestsFinish == \A i \in Ids : at[i] = "sent" ~> at[i] = "done"
=============================================================================
