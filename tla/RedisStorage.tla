---------------------------- MODULE RedisStorage ----------------------------
(***************************************************************************)
(* What the Redis extension reads and writes for one key                   *)
(* (extensions/redis/redis_storage.go), as functions of the records of the *)
(* key and of the time t.                                                  *)
(*                                                                         *)
(* A key is its five kinds of records: the scalar, the hash fields, the    *)
(* set members, the list, and the expiry of a collection (0 for none).  An *)
(* envelope is a payload and an absolute expiry, 0 for none; the codec is  *)
(* left out.  List items carry an envelope too, but every writer gives     *)
(* them expiry 0, so the filter on expired items keeps them all.           *)
(***************************************************************************)
EXTENDS Integers, Sequences

CONSTANTS Fields,   \* hash fields
          Absent    \* no record

NoFields == [f \in Fields |-> Absent]

(* DeleteLogicalKey leaves no record behind.                               *)
EmptyKey == [value |-> Absent, hash |-> NoFields, set |-> {}, list |-> Absent, ttl |-> 0]

Envelope(data, exp) == [data |-> data, exp |-> exp]

ExpiredLate(e, t) == e # Absent /\ e.exp > 0 /\ t > e.exp

Expired(e, t) == e # Absent /\ e.exp > 0 /\ t >= e.exp

Reaped(e, t) == IF Expired(e, t) THEN Absent ELSE e

FieldsOf(r) == {f \in Fields : r.hash[f] # Absent}

redisKeyExpired(r, t) == r.ttl # 0 /\ t >= r.ttl

SettledWithScalar(r, t) ==
  IF redisKeyExpired(r, t) \/ Expired(r.value, t) THEN EmptyKey
  ELSE [r EXCEPT !.hash = [f \in Fields |-> Reaped(r.hash[f], t)]]

(* redisType deletes what has expired on its way: this is what it leaves.  *)
(* A hash whose fields have all expired takes the whole key with it, and   *)
(* so does an empty list.                                                  *)
Settled(r, t) ==
  LET v == [r EXCEPT !.value = Reaped(@, t)]
      h == [v EXCEPT !.hash = [f \in Fields |-> Reaped(r.hash[f], t)]]
  IN  IF redisKeyExpired(r, t) THEN EmptyKey
      ELSE IF v.value # Absent THEN v
      ELSE IF FieldsOf(h) # {} THEN h
      ELSE IF FieldsOf(v) # {} THEN EmptyKey
      ELSE IF v.set = {} /\ v.list = <<>> THEN EmptyKey
      ELSE v

(* The answer of redisType, which looks at the records in this order.      *)
redisType(r, t) ==
  LET s == Settled(r, t)
  IN  IF s.value # Absent THEN "string"
      ELSE IF FieldsOf(s) # {} THEN "hash"
      ELSE IF s.set # {} THEN "set"
      ELSE IF s.list # Absent THEN "list"
      ELSE "none"

(* redisWriteString and redisWriteStringWithCodec.                         *)
redisWriteString(r, data, exp, t) ==
  IF exp <= 0 THEN [r EXCEPT !.value = Envelope(data, 0), !.ttl = 0]
  ELSE IF exp <= t THEN EmptyKey
  ELSE [r EXCEPT !.value = Envelope(data, exp)]

(* The expiry that redisExpiry finds, 0 when there is none.                *)
redisExpiry(r, t) ==
  LET s == Settled(r, t)
      type == redisType(r, t)
  IN  IF type = "none" THEN 0
      ELSE IF type = "string" THEN s.value.exp
      ELSE s.ttl

redisSetExpiry(r, exp, t) ==
  LET s == Settled(r, t)
      type == redisType(r, t)
  IN  IF type = "none" THEN s
      ELSE IF exp <= t THEN EmptyKey
      ELSE IF type = "string"
           THEN [redisWriteString(s, s.value.data, exp, t) EXCEPT !.ttl = 0]
      ELSE [s EXCEPT !.ttl = exp]

redisPersist(r, t) ==
  LET s == Settled(r, t)
  IN  IF redisExpiry(r, t) = 0 THEN s
      ELSE IF redisType(r, t) = "string" THEN [s EXCEPT !.value.exp = 0]
      ELSE [s EXCEPT !.ttl = 0]

redisList(r, t) == IF redisType(r, t) = "list" THEN Settled(r, t).list ELSE <<>>

EmptyListKept(r, items) == [r EXCEPT !.list = items]

redisWriteList(r, items) ==
  IF items = <<>> THEN EmptyKey ELSE [r EXCEPT !.list = items]

(* normalizeRange: the inclusive range as 1-based indices; ok when it is   *)
(* not empty.                                                              *)
normalizeRange(length, start, stop) ==
  LET from == IF start < 0 THEN length + start ELSE start
      to == IF stop < 0 THEN length + stop ELSE stop
      first == IF from < 0 THEN 0 ELSE from
      last == IF to >= length THEN length - 1 ELSE to
  IN  [first |-> first + 1, last |-> last + 1,
       ok |-> length > 0 /\ first < length /\ last >= first]

(* What a client can see of a key at time t: its type, its content and its *)
(* expiry.  This is the reference for the definitions above and uses none  *)
(* of them: nothing is deleted, records are alive or they are not.         *)
View(r, t) ==
  LET Alive(exp) == exp = 0 \/ t < exp
      fields == {f \in Fields : r.hash[f] # Absent /\ Alive(r.hash[f].exp)}
      Seen(type, content, exp) == [type |-> type, content |-> content, expiry |-> exp]
  IN  IF ~Alive(r.ttl) THEN Seen("none", Absent, 0)
      ELSE IF r.value # Absent /\ Alive(r.value.exp)
           THEN Seen("string", r.value.data, r.value.exp)
      ELSE IF fields # {} THEN Seen("hash", [f \in fields |-> r.hash[f].data], r.ttl)
      ELSE IF r.hash # NoFields THEN Seen("none", Absent, 0)
      ELSE IF r.set # {} THEN Seen("set", r.set, r.ttl)
      ELSE IF r.list \notin {Absent, <<>>} THEN Seen("list", r.list, r.ttl)
      ELSE Seen("none", Absent, 0)
=============================================================================
