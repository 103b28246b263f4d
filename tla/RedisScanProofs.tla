--------------------------- MODULE RedisScanProofs ---------------------------
(***************************************************************************)
(* The theorems about the Redis keyspace and the walk with SCAN, for any   *)
(* set of keys and any workload.  What the single commands do is shown in  *)
(* RedisKeyspaceProofs.                                                    *)
(***************************************************************************)
EXTENDS RedisScan, RedisKeyspaceProofs, FiniteSetTheorems

(* Every step of the system.                                               *)
LEMMA NextCases ==
  ASSUME TypeInv, Next
  PROVE  (\E k \in Keys : Did(k)) \/ Swept \/ Tick
<1>1. Cardinality({}) = 0
  BY FS_EmptySet
<1> QED
  BY <1>1, StringsDone, AnyKeyDone, HashesDone, SetsDone, ListsDone, EmbeddedDone, ManyKeysDone
  DEF Next

LEMMA ScanStep ==
  ASSUME TypeInv, NEW count, redisScan(count)
  PROVE  \E reply : OnKeys("SCAN", Looked(Keys), reply) /\ FitsAll("SCAN", Looked(Keys), reply)
<1>1. PICK reply : OnKeys("SCAN", Looked(Keys), reply)
  BY DEF redisScan
<1>2. "SCAN" \in Wide
  BY DEF Wide
<1> QED
  BY <1>1, <1>2, LookedFits

LEMMA StepRight ==
  ASSUME TypeInv, ScanNext
  PROVE  Right
<1>1. CASE Next
  <2>1. CASE Swept
    BY <2>1, OnKeysRight DEF Swept, Sweep
  <2> QED
    BY <1>1, <2>1, NextCases, DidRight, TickRight
<1>2. CASE \E count \in Counts : redisScan(count)
  BY <1>2, ScanStep, OnKeysRight
<1> QED
  BY <1>1, <1>2 DEF ScanNext

-----------------------------------------------------------------------------
(* The walk with SCAN.                                                     *)

RankIn(L, k) == Cardinality({j \in L : j <= k})

(* More keys never lower a rank; a key that is there has one, within the   *)
(* number of keys.                                                         *)
LEMMA Ranks ==
  ASSUME NEW M \in SUBSET Keys, NEW L \in SUBSET M, NEW k \in Keys
  PROVE  /\ RankIn(L, k) \in Nat /\ RankIn(M, k) \in Nat /\ Cardinality(M) \in Nat
         /\ RankIn(L, k) <= RankIn(M, k)
         /\ RankIn(M, k) <= Cardinality(M)
         /\ k \in M => RankIn(M, k) >= 1
<1> DEFINE A == {j \in L : j <= k}
           B == {j \in M : j <= k}
<1>1. IsFiniteSet(Keys) /\ k \in Nat
  BY ConstAssumption
<1>2. IsFiniteSet(M) /\ A \subseteq B /\ B \subseteq M
  BY <1>1, FS_Subset
<1>3. IsFiniteSet(A) /\ IsFiniteSet(B)
  BY <1>2, FS_Subset
<1>4. Cardinality(A) <= Cardinality(B) /\ Cardinality(B) <= Cardinality(M)
  BY <1>2, <1>3, FS_Subset
<1>5. Cardinality(A) \in Nat /\ Cardinality(B) \in Nat /\ Cardinality(M) \in Nat
  BY <1>2, <1>3, FS_CardinalityType
<1>6. k \in M => k \in B
  BY <1>1
<1> HIDE DEF A, B
<1>7. k \in M => Cardinality(B) # 0
  BY <1>3, <1>6, FS_EmptySet
<1> QED
  BY <1>4, <1>5, <1>7 DEF RankIn, A, B

WalkInv ==
  /\ walk \in [cursor : Nat, seen : SUBSET Keys, steady : SUBSET Keys, lost : BOOLEAN]
  /\ ~walk.lost =>
       /\ walk.steady \subseteq redisLogicalKeys
       /\ \A k \in walk.steady : RankIn(redisLogicalKeys, k) <= walk.cursor => k \in walk.seen
  /\ WalkIsComplete

(* Whatever another client does: while no key goes, ranks only grow.       *)
LEMMA WatchedKeepsWalk ==
  ASSUME WalkInv, Watched, last'.cmd # "SCAN"
  PROVE  WalkInv'
<1> DEFINE L == redisLogicalKeys
           M == {k \in Keys : redisType(db'[k], now') # "none"}
           gone == {k \in L : redisType(db'[k], now') = "none"}
<1>1. redisLogicalKeys' = M
  BY DEF redisLogicalKeys, T
<1>2. walk \in [cursor : Nat, seen : SUBSET Keys, steady : SUBSET Keys, lost : BOOLEAN]
  BY DEF WalkInv
<1>3. /\ ~walk.lost => /\ walk.steady \subseteq L
                       /\ \A k \in walk.steady : RankIn(L, k) <= walk.cursor => k \in walk.seen
  BY DEF WalkInv
<1>4. walk' = [walk EXCEPT !.steady = @ \ gone, !.lost = @ \/ gone # {}]
  BY DEF Watched
<1>5. L \subseteq Keys /\ M \subseteq Keys /\ (gone = {} => L \subseteq M)
  BY DEF redisLogicalKeys
<1> HIDE DEF L, M, gone
<1>6. /\ walk'.cursor = walk.cursor /\ walk'.seen = walk.seen /\ walk'.steady = walk.steady \ gone
      /\ walk'.lost = (walk.lost \/ gone # {})
      /\ walk' \in [cursor : Nat, seen : SUBSET Keys, steady : SUBSET Keys, lost : BOOLEAN]
  BY <1>2, <1>4
<1>7. ASSUME ~walk'.lost
      PROVE  /\ walk'.steady \subseteq M
             /\ \A k \in walk'.steady : RankIn(M, k) <= walk'.cursor => k \in walk'.seen
  <2>1. ~walk.lost /\ gone = {} /\ walk'.steady = walk.steady
    BY <1>2, <1>6, <1>7
  <2>2. walk.steady \subseteq L /\ L \subseteq M
    BY <1>3, <1>5, <2>1
  <2>3. ASSUME NEW k \in walk.steady, RankIn(M, k) <= walk.cursor
        PROVE  k \in walk.seen
    <3>1. k \in Keys
      BY <1>2
    <3>2. RankIn(L, k) \in Nat /\ RankIn(M, k) \in Nat /\ RankIn(L, k) <= RankIn(M, k)
      BY <1>5, <2>2, <3>1, Ranks
    <3>3. walk.cursor \in Nat
      BY <1>2
    <3>4. RankIn(L, k) <= walk.cursor
      BY <2>3, <3>2, <3>3
    <3> QED
      BY <1>3, <2>1, <3>4
  <2> QED
    BY <1>6, <2>1, <2>2, <2>3
<1>8. WalkIsComplete'
  BY DEF WalkIsComplete
<1> QED
  BY <1>1, <1>6, <1>7, <1>8 DEF WalkInv, RankIn

(* A call of SCAN settles every key and changes no type.                   *)
LEMMA ScanKeepsKeys ==
  ASSUME TypeInv, NEW reply, OnKeys("SCAN", Looked(Keys), reply)
  PROVE  redisLogicalKeys' = redisLogicalKeys /\ last'.cmd = "SCAN"
<1>1. /\ now' = now /\ last'.cmd = "SCAN"
      /\ db' = [k \in Keys |-> IF k \in DOMAIN Looked(Keys) THEN Looked(Keys)[k] ELSE db[k]]
  BY DEF OnKeys
<1>2. \A k \in Keys : db'[k] = S(k)
  BY <1>1 DEF Looked
<1>3. ASSUME NEW k \in Keys
      PROVE  redisType(db'[k], now') = T(k)
  <2>1. now \in Nat /\ S(k) \in KeyRecords /\ SameView(k, S(k)) /\ View(db[k], now).type = T(k)
    BY KeyFacts
  <2>2. redisType(S(k), now) = View(S(k), now).type
    BY <2>1, TypeAndExpirySeen
  <2> QED
    BY <1>1, <1>2, <2>1, <2>2 DEF SameView
<1>4. redisLogicalKeys' = {k \in Keys : redisType(db'[k], now') # "none"}
  BY DEF redisLogicalKeys, T
<1> QED
  BY <1>1, <1>3, <1>4 DEF redisLogicalKeys

LEMMA ScanKeepsWalk ==
  ASSUME TypeInv, WalkInv, NEW count \in Counts, redisScan(count)
  PROVE  WalkInv'
<1> DEFINE L == redisLogicalKeys
           size == Cardinality(L)
           end == End(walk.cursor, count)
           page == {k \in L : walk.cursor < RankIn(L, k) /\ RankIn(L, k) <= end}
           begins == walk.cursor = 0
           seen == IF begins THEN page ELSE walk.seen \cup page
           steady == IF begins THEN L ELSE walk.steady
<1>1. walk' = [cursor |-> NextCursor(end), seen |-> seen, steady |-> steady, lost |-> walk.lost /\ ~begins]
  BY DEF redisScan, Rank, RankIn
<1>2. redisLogicalKeys' = L
  <2>1. PICK reply : OnKeys("SCAN", Looked(Keys), reply)
    BY DEF redisScan
  <2> QED
    BY <2>1, ScanKeepsKeys
<1>3. walk \in [cursor : Nat, seen : SUBSET Keys, steady : SUBSET Keys, lost : BOOLEAN]
  BY DEF WalkInv
<1>4. ~walk.lost => /\ walk.steady \subseteq L
                    /\ \A k \in walk.steady : RankIn(L, k) <= walk.cursor => k \in walk.seen
  BY DEF WalkInv
<1>5. L \subseteq Keys
  BY DEF redisLogicalKeys
<1>6. \A k \in L : RankIn(L, k) \in Nat /\ RankIn(L, k) >= 1 /\ RankIn(L, k) <= size
  BY <1>5, Ranks
<1>7. size \in Nat
  BY <1>5, ConstAssumption, FS_Subset, FS_CardinalityType
<1>8. count \in Nat \ {0} /\ walk.cursor \in Nat
  BY <1>3, CountAssumption
<1>9. end = (IF walk.cursor + count > size THEN size ELSE walk.cursor + count)
      /\ NextCursor(end) = (IF end < size THEN end ELSE 0)
  BY DEF End, NextCursor
<1> HIDE DEF L, size, end
<1>10. end \in Nat /\ NextCursor(end) \in Nat /\ (NextCursor(end) = 0 => end >= size)
       /\ (NextCursor(end) # 0 => NextCursor(end) = end)
  BY <1>7, <1>8, <1>9
<1>11. /\ walk'.cursor = NextCursor(end) /\ walk'.seen = seen /\ walk'.steady = steady
       /\ walk'.lost = (walk.lost /\ ~begins)
  BY <1>1
<1>12. walk' \in [cursor : Nat, seen : SUBSET Keys, steady : SUBSET Keys, lost : BOOLEAN]
  BY <1>1, <1>3, <1>5, <1>10
<1>13. ASSUME ~walk'.lost
       PROVE  steady \subseteq L /\ \A k \in steady : RankIn(L, k) <= end => k \in seen
  <2>1. CASE begins
    <3>1. \A k \in L : walk.cursor < RankIn(L, k)
      BY <1>6, <1>8, <2>1
    <3> QED
      BY <2>1, <3>1
  <2>2. CASE ~begins
    <3>1. ~walk.lost
      BY <1>3, <1>11, <1>13, <2>2
    <3>2. ASSUME NEW k \in walk.steady, RankIn(L, k) <= end
          PROVE  k \in seen
      <4>1. k \in L
        BY <1>4, <3>1
      <4>2. RankIn(L, k) <= walk.cursor \/ walk.cursor < RankIn(L, k)
        BY <1>6, <1>8, <4>1
      <4> QED
        BY <1>4, <2>2, <3>1, <3>2, <4>1, <4>2
    <3> QED
      BY <1>4, <2>2, <3>1, <3>2
  <2> QED
    BY <2>1, <2>2
<1> HIDE DEF seen, steady
<1>14. ASSUME ~walk'.lost
       PROVE  /\ walk'.steady \subseteq L
              /\ \A k \in walk'.steady : RankIn(L, k) <= walk'.cursor => k \in walk'.seen
  <2>1. ASSUME NEW k \in steady, RankIn(L, k) <= NextCursor(end)
        PROVE  k \in seen
    <3>1. k \in L
      BY <1>13, <1>14
    <3>2. RankIn(L, k) <= end
      BY <1>6, <1>10, <2>1, <3>1
    <3> QED
      BY <1>13, <1>14, <3>2
  <2> QED
    BY <1>11, <1>13, <1>14, <2>1
<1>15. ASSUME walk'.cursor = 0, ~walk'.lost
       PROVE  walk'.steady \subseteq walk'.seen
  <2>1. ASSUME NEW k \in steady
        PROVE  k \in seen
    <3>1. k \in L
      BY <1>13, <1>15
    <3>2. RankIn(L, k) <= end
      BY <1>6, <1>7, <1>10, <1>11, <1>15, <3>1
    <3> QED
      BY <1>13, <1>15, <3>2
  <2> QED
    BY <1>11, <2>1
<1>16. WalkIsComplete'
  BY <1>15 DEF WalkIsComplete
<1> QED
  BY <1>2, <1>12, <1>14, <1>16 DEF WalkInv, RankIn

LEMMA StepKeepsWalk ==
  ASSUME TypeInv, WalkInv, ScanNext
  PROVE  WalkInv'
<1>1. CASE \E count \in Counts : redisScan(count)
  BY <1>1, ScanKeepsWalk
<1>2. CASE Next
  <2>1. ASSUME NEW k \in Keys, Did(k)
        PROVE  Watched /\ last'.cmd # "SCAN"
    <3>1. PICK arg, name, r, reply : CommandWith(arg, name, k, r, reply) /\ Fits(arg, name, k, r, reply)
      BY <2>1 DEF Did
    <3> QED
      BY <3>1 DEF CommandWith, Fits
  <2>2. ASSUME Swept
        PROVE  Watched /\ last'.cmd # "SCAN"
    BY <2>2 DEF Swept, Sweep, OnKeys
  <2>3. ASSUME Tick
        PROVE  Watched /\ last'.cmd # "SCAN"
    BY <2>3 DEF Tick, NoCommand
  <2> QED
    BY <1>2, <2>1, <2>2, <2>3, NextCases, WatchedKeepsWalk
<1> QED
  BY <1>1, <1>2 DEF ScanNext

-----------------------------------------------------------------------------
(* The theorems are about ScanSpec.  Spec is the same without SCAN, so     *)
(* they hold of it too:                                                    *)

(* Every behaviour of the commands without SCAN is one of those with it.   *)
THEOREM SpecIsScanSpec == Spec => ScanSpec
<1>1. [Next]_vars => [ScanNext]_vars
  BY DEF ScanNext
<1> QED
  BY <1>1, PTL DEF Spec, ScanSpec

LEMMA InitRight == Init => TypeInv /\ CleanKeys /\ WalkInv
<1> SUFFICES ASSUME Init PROVE TypeInv /\ CleanKeys /\ WalkInv
  OBVIOUS
<1>1. TypeInv
  BY EmptyIsClean, IntFacts DEF Init, TypeInv
<1>2. CleanKeys
  BY EmptyIsClean, CleanKeysOne DEF Init
<1>3. last.cmd = "none" /\ walk.steady = {} /\ walk.cursor = 0
      /\ walk \in [cursor : Nat, seen : SUBSET Keys, steady : SUBSET Keys, lost : BOOLEAN]
  BY DEF Init, NoCommand
<1>4. WalkInv
  BY <1>3 DEF WalkInv, WalkIsComplete
<1> QED
  BY <1>1, <1>2, <1>4

LEMMA TypeInvStutters == TypeInv /\ UNCHANGED vars => TypeInv'
BY DEF TypeInv, vars

LEMMA TypeInvHolds == ScanSpec => []TypeInv
<1>1. TypeInv /\ [ScanNext]_vars => TypeInv'
  BY StepRight, TypeInvStutters DEF Right
<1> QED
  BY <1>1, InitRight, PTL DEF ScanSpec

(* Whatever mixture of Redis commands and embedded operations runs, the    *)
(* records of every key keep their shape: envelopes with an expiry inside  *)
(* int64, members and texts (redis_storage.go, redis_commands.go).         *)
THEOREM KeyspaceTypeCorrect == ScanSpec => []TypeOK
<1>1. TypeInv => TypeOK
  <2> SUFFICES ASSUME TypeInv PROVE TypeOK
    OBVIOUS
  <2>1. ASSUME NEW k \in Keys
        PROVE  /\ db[k].value \in Envelopes \cup {Absent}
               /\ \A f \in Fields : db[k].hash[f] \in Envelopes \cup {Absent}
               /\ db[k].set \subseteq Members /\ db[k].list \in Seq(Texts) \cup {Absent}
               /\ db[k].ttl \in 0..MaxInt
    BY DEF TypeInv, KeyRecords, Cells
  <2> QED
    BY <2>1 DEF TypeInv, TypeOK
<1> QED
  BY <1>1, TypeInvHolds, PTL

(* As long as the embedded API writes no collections, every key has        *)
(* records of one type, no empty list and no expiry left behind by a       *)
(* collection (redis_storage.go:222-223, db.go:231).                       *)
THEOREM CleanKeysHold ==
  ASSUME Workload \cap EmbeddedWrites = {}
  PROVE  ScanSpec => []CleanKeys
<1>1. "none" \notin EmbeddedWrites
  BY DEF EmbeddedWrites
<1>2. TypeInv /\ CleanKeys /\ [ScanNext]_vars => CleanKeys'
  <2> SUFFICES ASSUME TypeInv, CleanKeys, [ScanNext]_vars PROVE CleanKeys'
    OBVIOUS
  <2>1. CASE ScanNext
    <3>1. Right
      BY <2>1, StepRight
    <3>2. last'.cmd \in Workload \cup {"none"} /\ (last'.cmd \notin EmbeddedWrites => CleanKeys')
      BY <3>1 DEF Right
    <3> QED
      BY <1>1, <3>2
  <2>2. CASE UNCHANGED vars
    BY <2>2, CleanKeysOne, CleanKeysNext DEF vars
  <2> QED
    BY <2>1, <2>2
<1> QED
  BY <1>2, InitRight, TypeInvHolds, PTL DEF ScanSpec

(* A read, and a command that answers with an error, changes nothing that  *)
(* a client can see, whatever mixture of records the key has               *)
(* (redis_storage.go:76-185).  HDEL and SREM are the exception where       *)
(* embedded writes mix the types of a key: they delete before they find    *)
(* the records of the other type.                                          *)
THEOREM ReadsChangeNothingHolds ==
  ASSUME Workload \cap Late = {} \/ Workload \cap EmbeddedWrites = {}
  PROVE  ScanSpec => ReadsChangeNothing
<1>1. "none" \notin Late
  BY DEF Late
<1>2. CASE Workload \cap Late = {}
  <2>1. TypeInv /\ [ScanNext]_vars => [last'.cmd \in Reads \/ last'.reply.kind = "error" => Unseen]_vars
    BY <1>1, <1>2, StepRight DEF Right
  <2> QED
    BY <2>1, TypeInvHolds, PTL DEF ScanSpec, ReadsChangeNothing
<1>3. CASE Workload \cap EmbeddedWrites = {}
  <2>1. TypeInv /\ CleanKeys /\ [ScanNext]_vars =>
          [last'.cmd \in Reads \/ last'.reply.kind = "error" => Unseen]_vars
    BY StepRight DEF Right
  <2>2. ScanSpec => []CleanKeys
    BY <1>3, CleanKeysHold
  <2> QED
    BY <2>1, <2>2, TypeInvHolds, PTL DEF ScanSpec, ReadsChangeNothing
<1> QED
  BY <1>2, <1>3

(* A command that edits a value in place keeps its expiry, and what it     *)
(* creates has none (redis_commands.go:413,471,693), as long as the        *)
(* embedded API writes no collections.                                     *)
THEOREM EditsKeepExpiryHolds ==
  ASSUME Workload \cap EmbeddedWrites = {}
  PROVE  ScanSpec => EditsKeepExpiry
<1>1. TypeInv /\ CleanKeys /\ [ScanNext]_vars =>
        [last'.cmd \in InPlace =>
           LET before == View(db[last'.key], now)
               after == View(db'[last'.key], now)
           IN  after.type # "none" => after.expiry = before.expiry]_vars
  BY StepRight DEF Right
<1>2. ScanSpec => []CleanKeys
  BY CleanKeysHold
<1> QED
  BY <1>1, <1>2, TypeInvHolds, PTL DEF ScanSpec, EditsKeepExpiry

(* EXPIRE with a positive relative amount, however large, never makes the  *)
(* key vanish (redis_commands.go:527-551).                                 *)
THEOREM ExpireIsInTheFutureHolds == ScanSpec => ExpireIsInTheFuture
<1>1. TypeInv /\ [ScanNext]_vars =>
        [last'.cmd = "EXPIRE" /\ ~last'.arg.at /\ last'.arg.amount > 0 =>
           LET before == View(db[last'.key], now)
               after == View(db'[last'.key], now)
           IN  after = before \/ (after.content = before.content /\ after.expiry > now)]_vars
  BY StepRight DEF Right
<1> QED
  BY <1>1, TypeInvHolds, PTL DEF ScanSpec, ExpireIsInTheFuture

(* MSETNX creates all of its keys or none (redis_commands.go:369-388).     *)
THEOREM MSetNXAllOrNothingHolds == ScanSpec => MSetNXAllOrNothing
<1>1. TypeInv /\ [ScanNext]_vars =>
        [last'.cmd = "MSETNX" =>
           \/ Unseen
           \/ \A k \in last'.keys : T(k) = "none" /\ View(db'[k], now).type = "string"]_vars
  BY StepRight DEF Right
<1> QED
  BY <1>1, TypeInvHolds, PTL DEF ScanSpec, MSetNXAllOrNothing

(* No read answers with a value, or from a collection, that has expired    *)
(* (README.md:604), whatever the embedded API left in the key.             *)
THEOREM NeverReturnsExpiredHolds == ScanSpec => NeverReturnsExpired
<1>1. TypeInv /\ [ScanNext]_vars =>
        [/\ last'.cmd \in {"GET", "GETSET", "GETDEL", "GETEX"} /\ last'.reply.kind = "bulk" =>
              Alive(db[last'.key].value.exp)
         /\ last'.cmd = "HGETALL" /\ last'.reply.kind = "array" =>
              \A f \in DOMAIN last'.reply.items :
                 Alive(db[last'.key].hash[f].exp) /\ Alive(db[last'.key].ttl)
         /\ last'.cmd \in {"SCARD", "LLEN"} /\ last'.reply.kind = "integer" =>
              last'.reply.value = 0 \/ Alive(db[last'.key].ttl)]_vars
  BY StepRight DEF Right
<1> QED
  BY <1>1, TypeInvHolds, PTL DEF ScanSpec, NeverReturnsExpired

(* A walk with SCAN during which no key goes has met, when its cursor is   *)
(* back at 0, every key that was there all the time                        *)
(* (redis_commands.go:1395-1420).  The invariant: every steady key whose   *)
(* rank the cursor has passed was seen, and ranks never fall.              *)
THEOREM WalkIsCompleteHolds == ScanSpec => []WalkIsComplete
<1>1. WalkInv /\ UNCHANGED vars => WalkInv'
  BY DEF WalkInv, WalkIsComplete, redisLogicalKeys, T, vars
<1>2. TypeInv /\ WalkInv /\ [ScanNext]_vars => WalkInv'
  BY <1>1, StepKeepsWalk
<1>3. WalkInv => WalkIsComplete
  BY DEF WalkInv
<1> QED
  BY <1>2, <1>3, InitRight, TypeInvHolds, PTL DEF ScanSpec
=============================================================================
