---------------------------- MODULE RedisKeyspace ----------------------------
(***************************************************************************)
(* The commands of the Redis extension (extensions/redis/                  *)
(* redis_commands.go) over a keyspace.  serveRedisConnection holds         *)
(* protocolMu for a whole command, so a command is one step and reads one  *)
(* time.  The embedded API of the same DB (db.go, collections.go) may work *)
(* on the same keys between commands: its operations have names that start *)
(* with "DB.".                                                             *)
(*                                                                         *)
(* A payload is a sequence: <<n>> is the decimal form of the integer n,    *)
(* anything with a text in it is not a number.  Replies keep what they     *)
(* say, not how RESP spells it.                                            *)
(***************************************************************************)
EXTENDS RedisStorage, FiniteSets

CONSTANTS Keys,       \* logical keys, in their order
          Members,    \* set members
          Texts,      \* payload pieces that are not numbers
          Numbers,    \* numbers that clients write and add
          Amounts,    \* expiry amounts, in seconds or milliseconds
          Second,     \* milliseconds in a second; a tick is a millisecond
          Bounds,     \* range arguments
          Workload,   \* names of the commands that clients issue
          MaxInt,     \* the largest int64
          MaxTime,    \* bound: the clock stops here
          MaxLen      \* bound: lists and appended strings no longer than this

MinInt == -MaxInt - 1

Envelopes == [data : Seq(Texts \cup MinInt..MaxInt), exp : 0..MaxInt]

ASSUME ConstAssumption ==
  /\ Keys \subseteq Nat /\ IsFiniteSet(Keys)
  /\ MaxInt \in Nat /\ MaxTime \in Nat /\ MaxLen \in Nat /\ Second \in Nat \ {0}
  /\ Numbers \subseteq MinInt..MaxInt /\ Amounts \subseteq MinInt..MaxInt
  /\ Bounds \subseteq MinInt..MaxInt
  /\ 0 < MaxTime /\ MaxTime < MaxInt
  /\ Absent \notin Envelopes /\ Absent \notin Seq(Texts)

VARIABLES db,    \* the records of every key
          now,   \* the clock, in ticks
          last,  \* the command of the last step and its reply
          walk   \* where a client that goes through the keys with SCAN is

vars == <<db, now, last, walk>>

(* Replies.                                                                *)
Nil == [kind |-> "nil"]
OK == [kind |-> "ok"]
Bulk(data) == [kind |-> "bulk", data |-> data]
LengthOf(data) == [kind |-> "length", data |-> data]
Int64(n) == [kind |-> "integer", value |-> n]
Array(items) == [kind |-> "array", items |-> items]
Error(what) == [kind |-> "error", what |-> what]
WrongType == Error("wrongtype")

NoCommand == [cmd |-> "none", reply |-> Nil]

Init ==
  /\ db = [k \in Keys |-> EmptyKey]
  /\ now = 1
  /\ last = NoCommand
  /\ walk = [cursor |-> 0, seen |-> {}, steady |-> {}, lost |-> FALSE]

-----------------------------------------------------------------------------
(* The shape of a command: it calls redisType first, which settles the     *)
(* key, and answers WRONGTYPE when the key is of another type.             *)

S(k) == Settled(db[k], now)
T(k) == redisType(db[k], now)

(* redisLogicalKeys asks every key for its type.                           *)
redisLogicalKeys == {k \in Keys : T(k) # "none"}

(* Of the keys that a walk has met or will meet: `steady' are those there  *)
(* ever since it began; `lost' says whether any key has gone since then.   *)
Watched ==
  LET gone == {k \in redisLogicalKeys : redisType(db'[k], now') = "none"}
  IN  walk' = [walk EXCEPT !.steady = @ \ gone, !.lost = @ \/ gone # {}]

CommandWith(arg, name, k, r, reply) ==
  /\ name \in Workload
  /\ db' = [db EXCEPT ![k] = r]
  /\ last' = [cmd |-> name, key |-> k, arg |-> arg, reply |-> reply]
  /\ UNCHANGED now
  /\ Watched

Command(name, k, r, reply) == CommandWith(Absent, name, k, r, reply)

OfType(name, k, type, r, reply) ==
  IF T(k) \in {type, "none"} THEN Command(name, k, r, reply)
                             ELSE Command(name, k, S(k), WrongType)

(* A command over several keys, one after the other.                       *)
KeyLists ==
  {s \in UNION {[1..n -> Keys] : n \in 1..2} : \A i, j \in DOMAIN s : s[i] = s[j] => i = j}
Named(ks) == {ks[i] : i \in DOMAIN ks}

(* `results' has what becomes of the keys that it touches.                 *)
OnKeys(name, results, reply) ==
  /\ name \in Workload
  /\ db' = [k \in Keys |-> IF k \in DOMAIN results THEN results[k] ELSE db[k]]
  /\ last' = [cmd |-> name, keys |-> DOMAIN results, reply |-> reply]
  /\ UNCHANGED now

Sweep(name, results, reply) == OnKeys(name, results, reply) /\ Watched

Looked(ks) == [k \in ks |-> S(k)]
Cleared(ks) == [k \in ks |-> EmptyKey]

-----------------------------------------------------------------------------
(* Expiry arguments: relative or absolute, in seconds or milliseconds.     *)
Expiries == [at : BOOLEAN, unit : {1, Second}, amount : Amounts]

ExpiryWrapped(e) ==
  LET Wrap(n) == ((n - MinInt) % (MaxInt - MinInt + 1)) + MinInt
  IN  Wrap(IF e.at THEN e.amount * e.unit ELSE now + Wrap(e.amount * e.unit))

(* redisExpiryFromCommand, and the same guards of SET, SETEX and PSETEX:   *)
(* no product or sum leaves int64.  Absent stands for its error.           *)
redisExpiryFromCommand(e) ==
  LET delta == e.amount * e.unit
      time == IF e.at THEN delta ELSE now + delta
  IN  IF delta \in MinInt..MaxInt /\ time \in MinInt..MaxInt THEN time ELSE Absent

InvalidExpiry(e) == redisExpiryFromCommand(e) = Absent
InvalidTTL(e) == e.amount <= 0 \/ InvalidExpiry(e)

-----------------------------------------------------------------------------
(* Strings.                                                                *)

Payloads == {<<x>> : x \in Texts \cup Numbers}
IsNumber(data) == Len(data) = 1 /\ data[1] \notin Texts

StringReply(k) == IF T(k) = "string" THEN Bulk(S(k).value.data) ELSE Nil

redisGet(k) == OfType("GET", k, "string", S(k), StringReply(k))

redisStrLen(k) ==
  OfType("STRLEN", k, "string", S(k),
         LengthOf(IF T(k) = "string" THEN S(k).value.data ELSE <<>>))

(* redisSetOptions lets KEEPTTL stand beside an expiry that follows it.    *)
SetOptions ==
  [cond : {"always", "NX", "XX"}, get : BOOLEAN, keep : BOOLEAN, ex : Expiries \cup {Absent}]

redisSet(k, v, o) ==
  LET exists == T(k) # "none"
      exp == IF o.ex # Absent THEN redisExpiryFromCommand(o.ex)
             ELSE IF o.keep THEN redisExpiry(db[k], now) ELSE 0
  IN  IF o.ex # Absent /\ InvalidTTL(o.ex) THEN Command("SET", k, db[k], Error("expire"))
      ELSE IF (o.cond = "NX" /\ exists) \/ (o.cond = "XX" /\ ~exists)
           THEN Command("SET", k, S(k), Nil)
      ELSE IF o.get /\ T(k) \notin {"string", "none"} THEN Command("SET", k, S(k), WrongType)
      ELSE Command("SET", k, redisWriteString(EmptyKey, v, exp, now),
                   IF o.get THEN StringReply(k) ELSE OK)

redisSetNX(k, v) ==
  IF T(k) # "none" THEN Command("SETNX", k, S(k), Int64(0))
  ELSE Command("SETNX", k, redisWriteString(S(k), v, 0, now), Int64(1))

(* SETEX and PSETEX do not look at the old value.                          *)
redisSetEX(k, v, e) ==
  /\ ~e.at
  /\ IF InvalidTTL(e) THEN Command("SETEX", k, db[k], Error("expire"))
     ELSE Command("SETEX", k,
                  redisWriteString(EmptyKey, v, redisExpiryFromCommand(e), now), OK)

redisGetSet(k, v) ==
  OfType("GETSET", k, "string", redisWriteString(EmptyKey, v, 0, now), StringReply(k))

redisGetDel(k) ==
  OfType("GETDEL", k, "string", IF T(k) = "string" THEN EmptyKey ELSE S(k), StringReply(k))

(* GETEX: no option, PERSIST, or an expiry.                                *)
redisGetEx(k, o) ==
  OfType("GETEX", k, "string",
         IF o = "persist" THEN redisPersist(db[k], now) ELSE S(k), StringReply(k))

redisGetExAt(k, e) ==
  LET refused == (~e.at /\ e.amount <= 0) \/ InvalidExpiry(e)
  IN  OfType("GETEX", k, "string",
             IF T(k) = "none" \/ refused THEN S(k)
             ELSE redisSetExpiry(db[k], redisExpiryFromCommand(e), now),
             IF T(k) = "string" /\ refused THEN Error("expire") ELSE StringReply(k))

redisAppend(k, x) ==
  LET old == IF T(k) = "string" THEN S(k).value.data ELSE <<>>
  IN  /\ Len(old) < MaxLen
      /\ OfType("APPEND", k, "string",
                redisWriteString(S(k), old \o <<x>>, redisExpiry(db[k], now), now),
                LengthOf(old \o <<x>>))

IncrementUnchecked(name, k, delta) ==
  LET data == IF T(k) = "string" THEN S(k).value.data ELSE <<0>>
  IN  /\ IsNumber(data)
      /\ OfType(name, k, "string",
                redisWriteString(S(k), <<data[1] + delta>>, redisExpiry(db[k], now), now),
                Int64(data[1] + delta))

(* redisIncrementBig adds without overflow and refuses what int64 cannot   *)
(* hold; DECRBY hands it the negated amount.                               *)
redisIncrement(name, k, delta) ==
  LET data == IF T(k) = "string" THEN S(k).value.data ELSE <<0>>
      sum == data[1] + delta
  IN  IF ~IsNumber(data) THEN OfType(name, k, "string", S(k), Error("integer"))
      ELSE IF sum \notin MinInt..MaxInt THEN OfType(name, k, "string", S(k), Error("overflow"))
      ELSE OfType(name, k, "string",
                  redisWriteString(S(k), <<sum>>, redisExpiry(db[k], now), now), Int64(sum))

(* The keys that a loop over ks visits when it stops at the first bad one. *)
Until(ks, bad) == {ks[i] : i \in {i \in DOMAIN ks : \A j \in 1..(i - 1) : ks[j] \notin bad}}

redisMGet(ks) ==
  LET wrong == {k \in Named(ks) : T(k) \notin {"string", "none"}}
  IN  Sweep("MGET", Looked(Until(ks, wrong)),
            IF wrong # {} THEN WrongType ELSE Array([i \in DOMAIN ks |-> StringReply(ks[i])]))

redisMSet(ks, v) ==
  Sweep("MSET", [k \in Named(ks) |-> redisWriteString(EmptyKey, v, 0, now)], OK)

MSetNXOneByOne(ks, v) ==
  LET existing == {k \in Named(ks) : T(k) # "none"}
  IN  Sweep("MSETNX",
            [k \in Until(ks, existing) |->
               IF k \in existing THEN S(k) ELSE redisWriteString(S(k), v, 0, now)],
            Int64(IF existing = {} THEN 1 ELSE 0))

redisMSetNX(ks, v) ==
  LET existing == {k \in Named(ks) : T(k) # "none"}
  IN  IF existing # {} THEN Sweep("MSETNX", Looked(Until(ks, existing)), Int64(0))
      ELSE Sweep("MSETNX", [k \in Named(ks) |-> redisWriteString(S(k), v, 0, now)], Int64(1))

-----------------------------------------------------------------------------
(* Keys.                                                                   *)

(* DEL counts the keys that had any record, an expired one included.       *)
redisDelete(ks) ==
  Sweep("DEL", Cleared(Named(ks)),
        Int64(Cardinality({k \in Named(ks) : db[k] # EmptyKey})))

redisExists(ks) ==
  Sweep("EXISTS", Looked(Named(ks)), Int64(Cardinality({k \in Named(ks) : T(k) # "none"})))

redisTypeCommand(k) == Command("TYPE", k, S(k), [kind |-> T(k)])

redisExpireCommand(k, e) ==
  IF InvalidExpiry(e) THEN CommandWith(e, "EXPIRE", k, db[k], Error("expire"))
  ELSE CommandWith(e, "EXPIRE", k, redisSetExpiry(db[k], redisExpiryFromCommand(e), now),
               Int64(IF T(k) = "none" THEN 0 ELSE 1))

(* TTL and PTTL round down, but never to zero.                             *)
redisTTLCommand(k, divisor) ==
  LET left == (redisExpiry(db[k], now) - now) \div divisor
  IN  Command("TTL", k, S(k),
              Int64(IF T(k) = "none" THEN -2
                    ELSE IF redisExpiry(db[k], now) = 0 THEN -1
                    ELSE IF left < 1 THEN 1 ELSE left))

redisPersistCommand(k) ==
  Command("PERSIST", k, redisPersist(db[k], now),
          Int64(IF redisExpiry(db[k], now) = 0 THEN 0 ELSE 1))

redisKeysCommand == Sweep("KEYS", Looked(Keys), Array(redisLogicalKeys))

redisDBSize == Sweep("DBSIZE", Looked(Keys), Int64(Cardinality(redisLogicalKeys)))

redisFlush == Sweep("FLUSHDB", Cleared(Keys), OK)

-----------------------------------------------------------------------------
(* Hashes.                                                                 *)

CreatedAfresh(k) == [S(k) EXCEPT !.ttl = 0]

Created(k) == IF T(k) = "none" THEN [S(k) EXCEPT !.ttl = 0] ELSE S(k)

WithFields(r, fs, data) ==
  [r EXCEPT !.hash = [f \in Fields |-> IF f \in fs THEN Envelope(data, 0) ELSE @[f]]]

redisHSet(k, fs, v) ==
  OfType("HSET", k, "hash", WithFields(Created(k), fs, v),
         Int64(Cardinality(fs \ FieldsOf(S(k)))))

FieldReply(k, f) ==
  IF T(k) = "hash" /\ f \in FieldsOf(S(k)) THEN Bulk(S(k).hash[f].data) ELSE Nil

redisHGet(k, f) == OfType("HGET", k, "hash", S(k), FieldReply(k, f))

redisHMGet(k, fs) ==
  OfType("HMGET", k, "hash", S(k), Array([f \in fs |-> FieldReply(k, f)]))

redisHExists(k, f) ==
  OfType("HEXISTS", k, "hash", S(k), Int64(IF FieldReply(k, f) = Nil THEN 0 ELSE 1))

redisHashEntries(k) ==
  [f \in IF T(k) = "hash" THEN FieldsOf(S(k)) ELSE {} |-> S(k).hash[f].data]

redisHGetAll(k) == OfType("HGETALL", k, "hash", S(k), Array(redisHashEntries(k)))

redisHLen(k) ==
  OfType("HLEN", k, "hash", S(k), Int64(Cardinality(DOMAIN redisHashEntries(k))))

redisHKeys(k) == OfType("HKEYS", k, "hash", S(k), Array(DOMAIN redisHashEntries(k)))

redisHVals(k) == OfType("HVALS", k, "hash", S(k), Array(redisHashEntries(k)))

(* HDEL and SREM end by listing the key again: nothing left deletes it,    *)
(* and records of another type turn the reply into WRONGTYPE.              *)
Shrunk(name, k, type, r, reply) ==
  IF T(k) = "none" THEN Command(name, k, S(k), Int64(0))
  ELSE IF T(k) # type THEN Command(name, k, S(k), WrongType)
  ELSE IF redisType(r, now) = "none" THEN Command(name, k, EmptyKey, reply)
  ELSE Command(name, k, Settled(r, now), IF redisType(r, now) = type THEN reply ELSE WrongType)

redisHDel(k, fs) ==
  Shrunk("HDEL", k, "hash",
         [S(k) EXCEPT !.hash = [f \in Fields |-> IF f \in fs THEN Absent ELSE @[f]]],
         Int64(Cardinality(fs \cap FieldsOf(S(k)))))

redisHIncrBy(k, f, delta) ==
  LET data == IF FieldReply(k, f) = Nil THEN <<0>> ELSE S(k).hash[f].data
      sum == data[1] + delta
  IN  IF ~IsNumber(data) THEN OfType("HINCRBY", k, "hash", S(k), Error("integer"))
      ELSE IF sum \notin MinInt..MaxInt THEN OfType("HINCRBY", k, "hash", S(k), Error("overflow"))
      ELSE OfType("HINCRBY", k, "hash", WithFields(S(k), {f}, <<sum>>), Int64(sum))

-----------------------------------------------------------------------------
(* Sets.                                                                   *)

redisSetMembers(k) == IF T(k) = "set" THEN S(k).set ELSE {}

redisSAdd(k, ms) ==
  OfType("SADD", k, "set", [Created(k) EXCEPT !.set = @ \cup ms],
         Int64(Cardinality(ms \ S(k).set)))

redisSRem(k, ms) ==
  Shrunk("SREM", k, "set", [S(k) EXCEPT !.set = @ \ ms], Int64(Cardinality(ms \cap S(k).set)))

redisSIsMember(k, m) ==
  OfType("SISMEMBER", k, "set", S(k), Int64(IF m \in redisSetMembers(k) THEN 1 ELSE 0))

redisSMIsMember(k, ms) ==
  OfType("SMISMEMBER", k, "set", S(k),
         Array([m \in ms |-> IF m \in redisSetMembers(k) THEN 1 ELSE 0]))

redisSMembers(k) == OfType("SMEMBERS", k, "set", S(k), Array(redisSetMembers(k)))

redisSCard(k) == OfType("SCARD", k, "set", S(k), Int64(Cardinality(redisSetMembers(k))))

-----------------------------------------------------------------------------
(* Lists.                                                                  *)

Batches == UNION {[1..n -> Texts] : n \in 1..2}

Items(k) == redisList(db[k], now)

(* LPUSH puts its values in front one after the other.                     *)
Reversed(vs) == [i \in DOMAIN vs |-> vs[Len(vs) - i + 1]]

redisPushValues(name, k, vs, left, onlyIfExists) ==
  LET items == IF left THEN Reversed(vs) \o Items(k) ELSE Items(k) \o vs
      written == redisWriteList(S(k), items)
  IN  /\ Len(items) <= MaxLen
      /\ IF onlyIfExists /\ T(k) = "none" THEN Command(name, k, S(k), Int64(0))
         ELSE OfType(name, k, "list",
                     IF T(k) = "none" THEN [written EXCEPT !.ttl = 0] ELSE written,
                     Int64(Len(items)))

Slice(items, n) == SubSeq(items, n.first, n.last)

redisLRange(k, start, stop) ==
  LET n == normalizeRange(Len(Items(k)), start, stop)
  IN  OfType("LRANGE", k, "list", S(k), Array(IF n.ok THEN Slice(Items(k), n) ELSE <<>>))

redisLLen(k) == OfType("LLEN", k, "list", S(k), Int64(Len(Items(k))))

(* LPOP and RPOP of count items; without a count, of one.                  *)
redisPop(name, k, left, count) ==
  LET items == Items(k)
      n == IF count > Len(items) THEN Len(items) ELSE count
      taken == IF left THEN SubSeq(items, 1, n) ELSE SubSeq(items, Len(items) - n + 1, Len(items))
      rest == IF left THEN SubSeq(items, n + 1, Len(items)) ELSE SubSeq(items, 1, Len(items) - n)
  IN  OfType(name, k, "list",
             IF T(k) = "none" \/ count = 0 THEN S(k) ELSE redisWriteList(S(k), rest),
             Array(taken))

redisLTrim(k, start, stop) ==
  LET n == normalizeRange(Len(Items(k)), start, stop)
  IN  OfType("LTRIM", k, "list",
             IF n.ok THEN redisWriteList(S(k), Slice(Items(k), n)) ELSE EmptyKey, OK)

-----------------------------------------------------------------------------
(* The embedded API on the same keys: no type check, and no look at the    *)
(* collection expiry.                                                      *)

TTLs == {0} \cup {a \in Amounts : a > 0}
Encoded(v, ttl) == Envelope(v, IF ttl > 0 THEN now + ttl ELSE 0)

Put(k, v, ttl) ==
  /\ now + ttl <= MaxInt
  /\ Command("DB.Put", k, [EmptyKey EXCEPT !.value = Encoded(v, ttl)], OK)

HSet(k, f, v, ttl) ==
  /\ now + ttl <= MaxInt
  /\ Command("DB.HSet", k, [db[k] EXCEPT !.hash[f] = Encoded(v, ttl)], OK)

HDelete(k, fs) ==
  Command("DB.HDelete", k,
          [db[k] EXCEPT !.hash = [f \in Fields |-> IF f \in fs THEN Absent ELSE @[f]]], OK)

SAdd(k, ms) == Command("DB.SAdd", k, [db[k] EXCEPT !.set = @ \cup ms], OK)

SRemove(k, ms) == Command("DB.SRemove", k, [db[k] EXCEPT !.set = @ \ ms], OK)

(* RPush without values stores an empty list.                              *)
RPush(k, vs) ==
  LET items == (IF db[k].list = Absent THEN <<>> ELSE db[k].list) \o vs
  IN  /\ Len(items) <= MaxLen
      /\ Command("DB.RPush", k, [db[k] EXCEPT !.list = items], OK)

Tick ==
  /\ now < MaxTime
  /\ now' = now + 1
  /\ last' = NoCommand
  /\ UNCHANGED db
  /\ Watched

-----------------------------------------------------------------------------
Strings(k) ==
  \/ redisGet(k) \/ redisStrLen(k) \/ redisGetDel(k)
  \/ \E v \in Payloads :
       \/ redisSetNX(k, v) \/ redisGetSet(k, v)
       \/ \E o \in SetOptions : redisSet(k, v, o)
       \/ \E e \in Expiries : redisSetEX(k, v, e)
  \/ \E o \in {"none", "persist"} : redisGetEx(k, o)
  \/ \E e \in Expiries : redisGetExAt(k, e)
  \/ \E x \in Texts : redisAppend(k, x)
  \/ \E d \in Numbers : redisIncrement("INCRBY", k, d) \/ redisIncrement("DECRBY", k, -d)

ManyKeys ==
  \/ \E ks \in KeyLists :
       \/ redisMGet(ks) \/ redisDelete(ks) \/ redisExists(ks)
       \/ \E v \in Payloads : redisMSet(ks, v) \/ redisMSetNX(ks, v)
  \/ redisKeysCommand \/ redisDBSize \/ redisFlush

AnyKey(k) ==
  \/ redisTypeCommand(k) \/ redisPersistCommand(k)
  \/ \E e \in Expiries : redisExpireCommand(k, e)
  \/ \E divisor \in {1, Second} : redisTTLCommand(k, divisor)

Hashes(k) ==
  \/ redisHGetAll(k) \/ redisHLen(k) \/ redisHKeys(k) \/ redisHVals(k)
  \/ \E fs \in (SUBSET Fields) \ {{}} :
       \/ redisHMGet(k, fs) \/ redisHDel(k, fs)
       \/ \E v \in Payloads : redisHSet(k, fs, v)
  \/ \E f \in Fields :
       \/ redisHGet(k, f) \/ redisHExists(k, f)
       \/ \E d \in Numbers : redisHIncrBy(k, f, d)

Sets(k) ==
  \/ redisSMembers(k) \/ redisSCard(k)
  \/ \E m \in Members : redisSIsMember(k, m)
  \/ \E ms \in (SUBSET Members) \ {{}} : redisSAdd(k, ms) \/ redisSRem(k, ms) \/ redisSMIsMember(k, ms)

Lists(k) ==
  \/ redisLLen(k)
  \/ \E vs \in Batches :
       \/ redisPushValues("LPUSH", k, vs, TRUE, FALSE)
       \/ redisPushValues("RPUSH", k, vs, FALSE, FALSE)
       \/ redisPushValues("LPUSHX", k, vs, TRUE, TRUE)
       \/ redisPushValues("RPUSHX", k, vs, FALSE, TRUE)
  \/ \E start, stop \in Bounds : redisLRange(k, start, stop) \/ redisLTrim(k, start, stop)
  \/ \E n \in 0..2 : redisPop("LPOP", k, TRUE, n) \/ redisPop("RPOP", k, FALSE, n)

Embedded(k) ==
  \/ \E v \in Payloads, ttl \in TTLs : Put(k, v, ttl) \/ \E f \in Fields : HSet(k, f, v, ttl)
  \/ \E fs \in (SUBSET Fields) \ {{}} : HDelete(k, fs)
  \/ \E ms \in (SUBSET Members) \ {{}} : SAdd(k, ms) \/ SRemove(k, ms)
  \/ \E vs \in Batches \cup {<<>>} : RPush(k, vs)

Next ==
  \/ \E k \in Keys : Strings(k) \/ AnyKey(k) \/ Hashes(k) \/ Sets(k) \/ Lists(k) \/ Embedded(k)
  \/ ManyKeys
  \/ Tick

Spec == Init /\ [][Next]_vars

-----------------------------------------------------------------------------
TypeOK ==
  /\ now \in 1..MaxTime
  /\ \A k \in Keys :
       /\ db[k].value \in Envelopes \cup {Absent}
       /\ \A f \in Fields : db[k].hash[f] \in Envelopes \cup {Absent}
       /\ db[k].set \subseteq Members
       /\ db[k].list \in Seq(Texts) \cup {Absent}
       /\ db[k].ttl \in 0..MaxInt

(* redis_storage.go:222-223 and db.go:231: as long as only Redis clients   *)
(* write, a key has records of one type, no list is empty, and a           *)
(* collection expiry never outlives its collection.                        *)
CleanKeys ==
  \A k \in Keys :
    LET r == db[k]
    IN  /\ r.value # Absent => FieldsOf(r) = {} /\ r.set = {} /\ r.list = Absent /\ r.ttl = 0
        /\ FieldsOf(r) # {} => r.set = {} /\ r.list = Absent
        /\ r.set # {} => r.list = Absent
        /\ r.list # <<>>
        /\ r.ttl # 0 => FieldsOf(r) # {} \/ r.set # {} \/ r.list # Absent

Reads == {"GET", "STRLEN", "MGET", "EXISTS", "TYPE", "TTL", "KEYS", "DBSIZE",
          "HGET", "HMGET", "HEXISTS", "HGETALL", "HLEN", "HKEYS", "HVALS",
          "SISMEMBER", "SMISMEMBER", "SMEMBERS", "SCARD", "LRANGE", "LLEN"}

Unseen == \A k \in Keys : View(db'[k], now) = View(db[k], now)

(* redis_storage.go:76-185: the records that a read deletes on its way are *)
(* ones no client could see any more, whatever mixture of records the key  *)
(* has, and a command that answers with an error has changed nothing that  *)
(* a client can see.                                                       *)
ReadsChangeNothing ==
  [][last'.cmd \in Reads \/ last'.reply.kind = "error" => Unseen]_vars

InPlace == {"APPEND", "INCRBY", "DECRBY", "HSET", "HINCRBY", "HDEL", "SADD", "SREM",
            "LPUSH", "RPUSH", "LPUSHX", "RPUSHX", "LPOP", "RPOP", "LTRIM"}

(* redis_commands.go:413,471,693: a command that edits a value in place    *)
(* leaves its expiry as it was, and what it creates has none, whether the  *)
(* expiry is kept in the envelope or beside the collection.                *)
EditsKeepExpiry ==
  [][last'.cmd \in InPlace =>
       LET before == View(db[last'.key], now)
           after == View(db'[last'.key], now)
       IN  after.type # "none" => after.expiry = before.expiry]_vars

(* redis_commands.go:527-551: a positive relative expiry, however large,   *)
(* never makes the key vanish, and leaves it with an expiry in the future  *)
(* or, when it is refused, untouched.                                      *)
ExpireIsInTheFuture ==
  [][last'.cmd = "EXPIRE" /\ ~last'.arg.at /\ last'.arg.amount > 0 =>
       LET before == View(db[last'.key], now)
           after == View(db'[last'.key], now)
       IN  after = before \/ (after.content = before.content /\ after.expiry > now)]_vars

(* redis_commands.go:369-388: MSETNX creates all of its keys or none.      *)
MSetNXAllOrNothing ==
  [][last'.cmd = "MSETNX" =>
       \/ Unseen
       \/ \A k \in last'.keys : T(k) = "none" /\ View(db'[k], now).type = "string"]_vars

Alive(exp) == exp = 0 \/ now < exp

(* README.md:604 "An expired value is never returned": what a read answers *)
(* with comes from records, and from a collection, that are alive.         *)
NeverReturnsExpired ==
  [][/\ last'.cmd \in {"GET", "GETSET", "GETDEL", "GETEX"} /\ last'.reply.kind = "bulk" =>
          Alive(db[last'.key].value.exp)
     /\ last'.cmd = "HGETALL" /\ last'.reply.kind = "array" =>
          \A f \in DOMAIN last'.reply.items :
             Alive(db[last'.key].hash[f].exp) /\ Alive(db[last'.key].ttl)
     /\ last'.cmd \in {"SCARD", "LLEN"} /\ last'.reply.kind = "integer" =>
          last'.reply.value = 0 \/ Alive(db[last'.key].ttl)]_vars
=============================================================================
