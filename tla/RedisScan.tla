------------------------------ MODULE RedisScan ------------------------------
(***************************************************************************)
(* A client that walks the keyspace with SCAN while other clients write.   *)
(* The cursor of redisScan is an index into the sorted keys of the moment. *)
(***************************************************************************)
EXTENDS RedisKeyspace

CONSTANT Counts     \* COUNT arguments

ASSUME CountAssumption == Counts \subseteq Nat \ {0}

Rank(k) == Cardinality({j \in redisLogicalKeys : j <= k})

(* The index after the last key that one call returns.                     *)
End(n, count) == IF n + count > Cardinality(redisLogicalKeys)
                 THEN Cardinality(redisLogicalKeys) ELSE n + count

NextCursorSkips(end) == IF end + 1 < Cardinality(redisLogicalKeys) THEN end + 1 ELSE 0

NextCursor(end) == IF end < Cardinality(redisLogicalKeys) THEN end ELSE 0

(* The TYPE argument is read and not used, so it is left out.              *)
redisScan(count) ==
  LET end == End(walk.cursor, count)
      page == {k \in redisLogicalKeys : walk.cursor < Rank(k) /\ Rank(k) <= end}
      begins == walk.cursor = 0
  IN  /\ OnKeys("SCAN", Looked(Keys), Array(page))
      /\ walk' = [cursor |-> NextCursor(end),
                  seen |-> IF begins THEN page ELSE walk.seen \cup page,
                  steady |-> IF begins THEN redisLogicalKeys ELSE walk.steady,
                  lost |-> walk.lost /\ ~begins]

ScanNext == Next \/ \E count \in Counts : redisScan(count)

ScanSpec == Init /\ [][ScanNext]_vars

(* redis_commands.go:1395-1420: a walk during which no key is deleted or   *)
(* expires has, when the cursor is back at 0, returned every key that was  *)
(* there all the time, however many keys other clients added meanwhile.    *)
WalkIsComplete ==
  last.cmd = "SCAN" /\ walk.cursor = 0 /\ ~walk.lost => walk.steady \subseteq walk.seen
=============================================================================
