------------------------------ MODULE KeyLayout ------------------------------
(***************************************************************************)
(* Where the records of a logical key live in the engine (keys.go).  All   *)
(* other modules treat the records of different kinds, keys, fields and    *)
(* members as separate cells; this module checks that their storage keys   *)
(* really are separate, and that a prefix scan meets one namespace only.   *)
(*                                                                         *)
(* A string is a sequence of bytes.  Two records grow byte by byte, so     *)
(* that every pair up to the bounds is compared.                           *)
(***************************************************************************)
EXTENDS ByteFields, SequencesExt

CONSTANTS MaxKey,      \* bound: length of a logical key
          MaxMember    \* bound: length of a field or member

kindValue == 1
kindHash == 2
kindSet == 3
kindList == 4
kindCollectionTTL == 5

Kinds == {kindValue, kindHash, kindSet, kindList, kindCollectionTTL}

ASSUME LayoutAssumption ==
  /\ MaxKey \in Nat /\ MaxMember \in Nat
  /\ Kinds \subseteq 0..(Base - 1)
  /\ MaxKey < Base ^ Width

VARIABLE record   \* two records: their kind, logical key and field or member

valueKey(key) == <<kindValue>> \o key

namespacePrefix(kind, namespace) == <<kind>> \o BigEndian(Len(namespace)) \o namespace

namespacedKey(kind, namespace, member) == namespacePrefix(kind, namespace) \o member

listKey(name) == <<kindList>> \o name

TTLKeyAmongLists(key) == <<kindList>> \o key

collectionTTLKey(key) == <<kindCollectionTTL>> \o key

KeyWithMember(storageKey) ==
  IF storageKey[1] \in {kindValue, kindList, kindCollectionTTL}
  THEN [key |-> Tail(storageKey), ok |-> TRUE]
  ELSE [key |-> SubSeq(storageKey, Width + 2, Len(storageKey)), ok |-> TRUE]

(* The logical key of a storage key; <<>> and not ok when it has none.     *)
logicalKeyFromStorage(storageKey) ==
  LET header == 1 + Width
      length == Uint(SubSeq(storageKey, 2, header))
      none == [key |-> <<>>, ok |-> FALSE]
  IN  IF storageKey = <<>> THEN none
      ELSE IF storageKey[1] \in {kindValue, kindList, kindCollectionTTL}
           THEN [key |-> Tail(storageKey), ok |-> TRUE]
      ELSE IF storageKey[1] \notin {kindHash, kindSet} THEN none
      ELSE IF Len(storageKey) < header \/ Len(storageKey) < header + length THEN none
      ELSE [key |-> SubSeq(storageKey, header + 1, header + length), ok |-> TRUE]

Namespaced == {kindHash, kindSet}

StorageKey(r) ==
  CASE r.kind = kindValue -> valueKey(r.key)
    [] r.kind \in Namespaced -> namespacedKey(r.kind, r.key, r.member)
    [] r.kind = kindList -> listKey(r.key)
    [] r.kind = kindCollectionTTL -> collectionTTLKey(r.key)

-----------------------------------------------------------------------------
LayoutInit == record \in [{1, 2} -> [kind : Kinds, key : {<<>>}, member : {<<>>}]]

GrowKey(i, b) ==
  /\ Len(record[i].key) < MaxKey
  /\ record' = [record EXCEPT ![i].key = Append(@, b)]

GrowMember(i, b) ==
  /\ record[i].kind \in Namespaced /\ Len(record[i].member) < MaxMember
  /\ record' = [record EXCEPT ![i].member = Append(@, b)]

GrowRecords == \E i \in {1, 2}, b \in Bytes : GrowKey(i, b) \/ GrowMember(i, b)

-----------------------------------------------------------------------------
(* keys.go:17-39: no two records share a storage key, and a ScanPrefix on  *)
(* the prefix of a hash or a set (HGetAll, SMembers, DeleteLogicalKey)     *)
(* meets the records of that hash or set and no others.                    *)
RecordsAreSeparate ==
  /\ StorageKey(record[1]) = StorageKey(record[2]) => record[1] = record[2]
  /\ record[2].kind \in Namespaced =>
       (IsPrefix(namespacePrefix(record[2].kind, record[2].key), StorageKey(record[1])) <=>
          record[1].kind = record[2].kind /\ record[1].key = record[2].key)

(* keys.go:41-60: from every storage key that the others build, KEYS, SCAN *)
(* and DBSIZE get its logical key back.                                    *)
LogicalKeyIsInverse ==
  logicalKeyFromStorage(StorageKey(record[1])) = [key |-> record[1].key, ok |-> TRUE]
=============================================================================
