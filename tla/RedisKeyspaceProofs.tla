------------------------- MODULE RedisKeyspaceProofs -------------------------
(***************************************************************************)
(* The Redis keyspace for any set of keys, fields, members, texts and      *)
(* arguments.  First what the functions of RedisStorage do to the records  *)
(* of one key, compared with what a client can see of it (View); then what *)
(* each command does; then what that means for the properties.  The        *)
(* theorems are in RedisScanProofs, for the commands together with SCAN.   *)
(***************************************************************************)
EXTENDS RedisKeyspace, TLAPS

Cells == Envelopes \cup {Absent}

KeyRecords ==
  [value : Cells, hash : [Fields -> Cells], set : SUBSET Members,
   list : Seq(Texts) \cup {Absent}, ttl : 0..MaxInt]

(* CleanKeys of one key.                                                   *)
Clean(r) ==
  /\ r.value # Absent => FieldsOf(r) = {} /\ r.set = {} /\ r.list = Absent /\ r.ttl = 0
  /\ FieldsOf(r) # {} => r.set = {} /\ r.list = Absent
  /\ r.set # {} => r.list = Absent
  /\ r.list # <<>>
  /\ r.ttl # 0 => FieldsOf(r) # {} \/ r.set # {} \/ r.list # Absent

Seen(type, content, exp) == [type |-> type, content |-> content, expiry |-> exp]

AliveAt(exp, t) == exp = 0 \/ t < exp

LEMMA IntFacts ==
  /\ MaxInt \in Nat /\ MinInt \in Int /\ MinInt = -MaxInt - 1 /\ 0 \in 0..MaxInt
  /\ MaxTime \in Nat /\ 0 < MaxTime /\ MaxTime < MaxInt
BY ConstAssumption DEF MinInt

LEMMA AbsentIsNoList == Absent # <<>>
<1>1. <<>> \in Seq(Texts)
  OBVIOUS
<1> QED
  BY <1>1, ConstAssumption

LEMMA AbsentIsNoEnvelope == Absent \notin Envelopes
BY ConstAssumption

LEMMA EmptyIsClean == EmptyKey \in KeyRecords /\ Clean(EmptyKey) /\ FieldsOf(EmptyKey) = {}
<1>1. EmptyKey \in KeyRecords
  BY ConstAssumption DEF EmptyKey, NoFields, KeyRecords, Cells
<1>2. FieldsOf(EmptyKey) = {}
  BY DEF EmptyKey, NoFields, FieldsOf
<1>3. Clean(EmptyKey)
  BY <1>2, AbsentIsNoList DEF EmptyKey, Clean
<1> QED
  BY <1>1, <1>2, <1>3

(* A cell that is there is alive or expired, by its own expiry.            *)
LEMMA CellAlive ==
  ASSUME NEW e \in Cells, NEW t \in Nat
  PROVE  /\ Reaped(e, t) \in Cells
         /\ Reaped(e, t) # Absent <=> e # Absent /\ AliveAt(e.exp, t)
         /\ Reaped(e, t) # Absent => Reaped(e, t) = e
         /\ e # Absent => e \in Envelopes
BY ConstAssumption DEF Cells, Envelopes, Reaped, Expired, AliveAt

Pruned(r, t) == [f \in Fields |-> Reaped(r.hash[f], t)]

LEMMA PrunedFields ==
  ASSUME NEW r \in KeyRecords, NEW t \in Nat
  PROVE  /\ Pruned(r, t) \in [Fields -> Cells]
         /\ \A f \in Fields : Pruned(r, t)[f] # Absent <=> r.hash[f] # Absent /\ AliveAt(r.hash[f].exp, t)
         /\ \A f \in Fields : Pruned(r, t)[f] # Absent => Pruned(r, t)[f] = r.hash[f]
BY CellAlive DEF KeyRecords, Pruned

LEMMA NoFieldsLeft ==
  ASSUME NEW r \in KeyRecords
  PROVE  FieldsOf(r) = {} <=> r.hash = NoFields
BY DEF KeyRecords, FieldsOf, NoFields

(* What redisType leaves of a key, case by case.                           *)
LEMMA SettledCases ==
  ASSUME NEW r \in KeyRecords, NEW t \in Nat
  PROVE  \/ ~AliveAt(r.ttl, t) /\ Settled(r, t) = EmptyKey
         \/ /\ AliveAt(r.ttl, t) /\ r.value # Absent /\ AliveAt(r.value.exp, t)
            /\ Settled(r, t) = r
         \/ /\ AliveAt(r.ttl, t) /\ Reaped(r.value, t) = Absent
            /\ \E f \in Fields : Pruned(r, t)[f] # Absent
            /\ Settled(r, t) = [r EXCEPT !.value = Absent, !.hash = Pruned(r, t)]
         \/ /\ AliveAt(r.ttl, t) /\ Reaped(r.value, t) = Absent
            /\ \A f \in Fields : Pruned(r, t)[f] = Absent
            /\ FieldsOf(r) # {} \/ (r.set = {} /\ r.list = <<>>)
            /\ Settled(r, t) = EmptyKey
         \/ /\ AliveAt(r.ttl, t) /\ Reaped(r.value, t) = Absent
            /\ FieldsOf(r) = {} /\ (r.set # {} \/ r.list # <<>>)
            /\ Settled(r, t) = [r EXCEPT !.value = Absent]
<1> DEFINE v == [r EXCEPT !.value = Reaped(@, t)]
           h == [v EXCEPT !.hash = Pruned(r, t)]
<1>1. redisKeyExpired(r, t) <=> ~AliveAt(r.ttl, t)
  BY ConstAssumption DEF KeyRecords, redisKeyExpired, AliveAt
<1>2. Settled(r, t) = IF redisKeyExpired(r, t) THEN EmptyKey
                      ELSE IF v.value # Absent THEN v
                      ELSE IF FieldsOf(h) # {} THEN h
                      ELSE IF FieldsOf(v) # {} THEN EmptyKey
                      ELSE IF v.set = {} /\ v.list = <<>> THEN EmptyKey
                      ELSE v
  BY DEF Settled, Pruned
<1>3. /\ v.value = Reaped(r.value, t) /\ v.hash = r.hash /\ v.set = r.set /\ v.list = r.list
      /\ h = [r EXCEPT !.value = Reaped(r.value, t), !.hash = Pruned(r, t)]
      /\ h.hash = Pruned(r, t)
  BY DEF KeyRecords
<1>4. FieldsOf(v) = FieldsOf(r) /\ FieldsOf(h) = {f \in Fields : Pruned(r, t)[f] # Absent}
  BY <1>3 DEF FieldsOf
<1>5. Reaped(r.value, t) # Absent => v = r /\ r.value # Absent /\ AliveAt(r.value.exp, t)
  BY CellAlive DEF KeyRecords
<1> HIDE DEF v, h
<1>6. v = [r EXCEPT !.value = Reaped(r.value, t)]
  BY DEF v
<1> QED
  BY <1>1, <1>2, <1>3, <1>4, <1>5, <1>6

LEMMA SettledType ==
  ASSUME NEW r \in KeyRecords, NEW t \in Nat
  PROVE  Settled(r, t) \in KeyRecords
<1>1. [r EXCEPT !.value = Absent] \in KeyRecords
  BY DEF KeyRecords, Cells
<1>2. [r EXCEPT !.value = Absent, !.hash = Pruned(r, t)] \in KeyRecords
  BY PrunedFields DEF KeyRecords, Cells
<1> QED
  BY <1>1, <1>2, SettledCases, EmptyIsClean

(* What a client sees, by the records that are alive.                      *)
LEMMA ViewCases ==
  ASSUME NEW r \in KeyRecords, NEW t \in Nat
  PROVE  /\ ~AliveAt(r.ttl, t) => View(r, t) = Seen("none", Absent, 0)
         /\ AliveAt(r.ttl, t) /\ r.value # Absent /\ AliveAt(r.value.exp, t)
              => View(r, t) = Seen("string", r.value.data, r.value.exp)
         /\ AliveAt(r.ttl, t) /\ Reaped(r.value, t) = Absent =>
              LET live == {f \in Fields : Pruned(r, t)[f] # Absent}
              IN  View(r, t) =
                    IF live # {} THEN Seen("hash", [f \in live |-> r.hash[f].data], r.ttl)
                    ELSE IF FieldsOf(r) # {} THEN Seen("none", Absent, 0)
                    ELSE IF r.set # {} THEN Seen("set", r.set, r.ttl)
                    ELSE IF r.list \notin {Absent, <<>>} THEN Seen("list", r.list, r.ttl)
                    ELSE Seen("none", Absent, 0)
<1> DEFINE live == {f \in Fields : Pruned(r, t)[f] # Absent}
           fields == {f \in Fields : r.hash[f] # Absent /\ AliveAt(r.hash[f].exp, t)}
<1>1. fields = live
  BY PrunedFields
<1>2. Reaped(r.value, t) = Absent <=> ~(r.value # Absent /\ AliveAt(r.value.exp, t))
  BY CellAlive DEF KeyRecords
<1>3. View(r, t) =
        IF ~AliveAt(r.ttl, t) THEN Seen("none", Absent, 0)
        ELSE IF r.value # Absent /\ AliveAt(r.value.exp, t)
             THEN Seen("string", r.value.data, r.value.exp)
        ELSE IF fields # {} THEN Seen("hash", [f \in fields |-> r.hash[f].data], r.ttl)
        ELSE IF r.hash # NoFields THEN Seen("none", Absent, 0)
        ELSE IF r.set # {} THEN Seen("set", r.set, r.ttl)
        ELSE IF r.list \notin {Absent, <<>>} THEN Seen("list", r.list, r.ttl)
        ELSE Seen("none", Absent, 0)
  BY DEF View, AliveAt, Seen
<1> HIDE DEF fields, live
<1>4. View(r, t) =
        IF ~AliveAt(r.ttl, t) THEN Seen("none", Absent, 0)
        ELSE IF r.value # Absent /\ AliveAt(r.value.exp, t)
             THEN Seen("string", r.value.data, r.value.exp)
        ELSE IF live # {} THEN Seen("hash", [f \in live |-> r.hash[f].data], r.ttl)
        ELSE IF FieldsOf(r) # {} THEN Seen("none", Absent, 0)
        ELSE IF r.set # {} THEN Seen("set", r.set, r.ttl)
        ELSE IF r.list \notin {Absent, <<>>} THEN Seen("list", r.list, r.ttl)
        ELSE Seen("none", Absent, 0)
  BY <1>1, <1>3, NoFieldsLeft
<1> QED
  BY <1>2, <1>4 DEF live

LEMMA ViewOfEmpty ==
  ASSUME NEW t \in Nat
  PROVE  View(EmptyKey, t) = Seen("none", Absent, 0)
<1>1. /\ AliveAt(EmptyKey.ttl, t) /\ Reaped(EmptyKey.value, t) = Absent
      /\ EmptyKey.set = {} /\ EmptyKey.list = Absent
      /\ \A f \in Fields : Pruned(EmptyKey, t)[f] = Absent
  BY DEF EmptyKey, NoFields, AliveAt, Reaped, Expired, Pruned
<1> QED
  BY <1>1, EmptyIsClean, ViewCases

(* Nothing that has expired is left, and an empty list only beside a set.  *)
LEMMA SettledAlive ==
  ASSUME NEW r \in KeyRecords, NEW t \in Nat
  PROVE  LET s == Settled(r, t)
         IN  /\ AliveAt(s.ttl, t)
             /\ s.value # Absent => s = r /\ AliveAt(s.value.exp, t)
             /\ \A f \in Fields : s.value = Absent /\ s.hash[f] # Absent =>
                  /\ s.hash[f] = r.hash[f] /\ AliveAt(s.hash[f].exp, t) /\ s.ttl = r.ttl
             /\ s.value = Absent /\ FieldsOf(s) = {} /\ s.set = {} => s.list # <<>>
<1> DEFINE s == Settled(r, t)
<1>1. CASE s = EmptyKey
  BY <1>1, AbsentIsNoList DEF EmptyKey, NoFields, AliveAt
<1>2. CASE AliveAt(r.ttl, t) /\ r.value # Absent /\ AliveAt(r.value.exp, t) /\ s = r
  BY <1>2
<1>3. CASE /\ AliveAt(r.ttl, t) /\ \E f \in Fields : Pruned(r, t)[f] # Absent
           /\ s = [r EXCEPT !.value = Absent, !.hash = Pruned(r, t)]
  <2>1. s.value = Absent /\ s.hash = Pruned(r, t) /\ s.ttl = r.ttl
    BY <1>3 DEF KeyRecords
  <2>2. FieldsOf(s) # {}
    BY <1>3, <2>1 DEF FieldsOf
  <2> QED
    BY <1>3, <2>1, <2>2, PrunedFields
<1>4. CASE /\ AliveAt(r.ttl, t) /\ FieldsOf(r) = {} /\ (r.set # {} \/ r.list # <<>>)
           /\ s = [r EXCEPT !.value = Absent]
  <2>1. /\ s.value = Absent /\ s.hash = r.hash /\ s.ttl = r.ttl
        /\ s.set = r.set /\ s.list = r.list
    BY <1>4 DEF KeyRecords
  <2>2. \A f \in Fields : s.hash[f] = Absent
    BY <1>4, <2>1 DEF FieldsOf
  <2> QED
    BY <1>4, <2>1, <2>2
<1> QED
  BY <1>1, <1>2, <1>3, <1>4, SettledCases

(* The type, by the records that are left.                                 *)
LEMMA TypeCases ==
  ASSUME NEW r \in KeyRecords, NEW t \in Nat
  PROVE  LET s == Settled(r, t)
         IN  /\ redisType(r, t) \in {"string", "hash", "set", "list", "none"}
             /\ redisType(r, t) = "string" <=> s.value # Absent
             /\ redisType(r, t) = "hash" <=> s.value = Absent /\ FieldsOf(s) # {}
             /\ redisType(r, t) = "set" <=> s.value = Absent /\ FieldsOf(s) = {} /\ s.set # {}
             /\ redisType(r, t) = "list" <=>
                  s.value = Absent /\ FieldsOf(s) = {} /\ s.set = {} /\ s.list # Absent
             /\ redisType(r, t) = "list" => s.list \in Seq(Texts) \ {<<>>}
<1> DEFINE s == Settled(r, t)
<1>1. s \in KeyRecords /\ (s.value = Absent /\ FieldsOf(s) = {} /\ s.set = {} => s.list # <<>>)
  BY SettledType, SettledAlive
<1>2. redisType(r, t) = IF s.value # Absent THEN "string"
                        ELSE IF FieldsOf(s) # {} THEN "hash"
                        ELSE IF s.set # {} THEN "set"
                        ELSE IF s.list # Absent THEN "list" ELSE "none"
  BY DEF redisType
<1> HIDE DEF s
<1>3. s.list \in Seq(Texts) \cup {Absent}
  BY <1>1 DEF KeyRecords
<1> QED
  BY <1>1, <1>2, <1>3 DEF s

(* A settled key shows what it is made of.                                 *)
SeenIn(s) ==
  IF s.value # Absent THEN Seen("string", s.value.data, s.value.exp)
  ELSE IF FieldsOf(s) # {} THEN Seen("hash", [f \in FieldsOf(s) |-> s.hash[f].data], s.ttl)
  ELSE IF s.set # {} THEN Seen("set", s.set, s.ttl)
  ELSE IF s.list \notin {Absent, <<>>} THEN Seen("list", s.list, s.ttl)
  ELSE Seen("none", Absent, 0)

LEMMA ViewOfLiving ==
  ASSUME NEW s \in KeyRecords, NEW t \in Nat, AliveAt(s.ttl, t),
         s.value # Absent => AliveAt(s.value.exp, t),
         \A f \in Fields : s.value = Absent /\ s.hash[f] # Absent => AliveAt(s.hash[f].exp, t)
  PROVE  View(s, t) = SeenIn(s)
<1>1. CASE s.value # Absent
  BY <1>1, ViewCases DEF SeenIn
<1>2. CASE s.value = Absent
  <2>1. Reaped(s.value, t) = Absent
    BY <1>2 DEF Reaped, Expired
  <2>2. {f \in Fields : Pruned(s, t)[f] # Absent} = FieldsOf(s)
    BY <1>2, PrunedFields DEF FieldsOf
  <2> QED
    BY <1>2, <2>1, <2>2, ViewCases DEF SeenIn
<1> QED
  BY <1>1, <1>2

(* redisType and everything it deletes on its way leave what a client can  *)
(* see as it was.                                                          *)
LEMMA SettledView ==
  ASSUME NEW r \in KeyRecords, NEW t \in Nat
  PROVE  /\ View(r, t) = SeenIn(Settled(r, t))
         /\ View(Settled(r, t), t) = View(r, t)
<1> DEFINE s == Settled(r, t)
<1>1. View(s, t) = SeenIn(s)
  <2>1. /\ s \in KeyRecords /\ AliveAt(s.ttl, t)
        /\ s.value # Absent => AliveAt(s.value.exp, t)
        /\ \A f \in Fields : s.value = Absent /\ s.hash[f] # Absent => AliveAt(s.hash[f].exp, t)
    BY SettledType, SettledAlive
  <2> HIDE DEF s
  <2> QED
    BY <2>1, ViewOfLiving
<1>2. View(r, t) = SeenIn(s)
  <2>1. CASE s = EmptyKey /\ ~AliveAt(r.ttl, t)
    BY <1>1, <2>1, ViewCases, ViewOfEmpty
  <2>2. CASE s = r
    BY <1>1, <2>2
  <2>3. CASE /\ AliveAt(r.ttl, t) /\ Reaped(r.value, t) = Absent
             /\ \E f \in Fields : Pruned(r, t)[f] # Absent
             /\ s = [r EXCEPT !.value = Absent, !.hash = Pruned(r, t)]
    <3> DEFINE live == {f \in Fields : Pruned(r, t)[f] # Absent}
    <3>1. s.value = Absent /\ s.hash = Pruned(r, t) /\ s.ttl = r.ttl
      BY <2>3 DEF KeyRecords
    <3>2. FieldsOf(s) = live /\ live # {}
      BY <2>3, <3>1 DEF FieldsOf
    <3>3. [f \in live |-> s.hash[f].data] = [f \in live |-> r.hash[f].data]
      BY <3>1, PrunedFields
    <3>4. View(r, t) = Seen("hash", [f \in live |-> r.hash[f].data], r.ttl)
      BY <2>3, <3>2, ViewCases
    <3> HIDE DEF live, s
    <3> QED
      BY <3>1, <3>2, <3>3, <3>4 DEF SeenIn
  <2>4. CASE /\ AliveAt(r.ttl, t) /\ Reaped(r.value, t) = Absent
             /\ \A f \in Fields : Pruned(r, t)[f] = Absent
             /\ FieldsOf(r) # {} \/ (r.set = {} /\ r.list = <<>>)
             /\ s = EmptyKey
    BY <1>1, <2>4, ViewCases, ViewOfEmpty
  <2>5. CASE /\ AliveAt(r.ttl, t) /\ Reaped(r.value, t) = Absent
             /\ FieldsOf(r) = {} /\ s = [r EXCEPT !.value = Absent]
    <3>1. /\ s.value = Absent /\ s.hash = r.hash /\ s.ttl = r.ttl
          /\ s.set = r.set /\ s.list = r.list
      BY <2>5 DEF KeyRecords
    <3>2. FieldsOf(s) = {} /\ \A f \in Fields : Pruned(r, t)[f] = Absent
      BY <2>5, <3>1, PrunedFields DEF FieldsOf
    <3> DEFINE seen == IF r.set # {} THEN Seen("set", r.set, r.ttl)
                       ELSE IF r.list \notin {Absent, <<>>} THEN Seen("list", r.list, r.ttl)
                       ELSE Seen("none", Absent, 0)
    <3> HIDE DEF s
    <3>3. SeenIn(s) = seen
      BY <3>1, <3>2 DEF SeenIn
    <3>4. {f \in Fields : Pruned(r, t)[f] # Absent} = {}
      BY <3>2
    <3>5. View(r, t) = seen
      BY <2>5, <3>4, ViewCases
    <3> QED
      BY <3>3, <3>5
  <2> HIDE DEF s
  <2> QED
    BY <2>1, <2>2, <2>3, <2>4, <2>5, SettledCases DEF s
<1> QED
  BY <1>1, <1>2

-----------------------------------------------------------------------------
(* Writers.  A clean key that shows nothing has no record at all, and one  *)
(* that shows a string has no other.                                       *)

Data == Seq(Texts \cup MinInt..MaxInt)

Bare(r) == FieldsOf(r) = {} /\ r.set = {} /\ r.list = Absent /\ r.ttl = 0

LEMMA SettledClean ==
  ASSUME NEW r \in KeyRecords, NEW t \in Nat, Clean(r)
  PROVE  /\ Clean(Settled(r, t))
         /\ redisType(r, t) = "none" => Settled(r, t) = EmptyKey
         /\ redisType(r, t) \in {"string", "none"} => Bare(Settled(r, t))
<1> DEFINE s == Settled(r, t)
<1>1. s \in KeyRecords
  BY SettledType
<1>2. Clean(s)
  <2>1. CASE s = EmptyKey \/ s = r
    BY <2>1, EmptyIsClean
  <2>2. CASE /\ \E f \in Fields : Pruned(r, t)[f] # Absent
             /\ s = [r EXCEPT !.value = Absent, !.hash = Pruned(r, t)]
    <3>1. /\ s.value = Absent /\ s.hash = Pruned(r, t) /\ s.ttl = r.ttl
          /\ s.set = r.set /\ s.list = r.list
      BY <2>2 DEF KeyRecords
    <3>2. FieldsOf(s) # {} /\ FieldsOf(r) # {}
      BY <2>2, <3>1, PrunedFields DEF FieldsOf
    <3> QED
      BY <3>1, <3>2 DEF Clean
  <2>3. CASE FieldsOf(r) = {} /\ s = [r EXCEPT !.value = Absent]
    <3>1. /\ s.value = Absent /\ s.hash = r.hash /\ s.ttl = r.ttl
          /\ s.set = r.set /\ s.list = r.list
      BY <2>3 DEF KeyRecords
    <3>2. FieldsOf(s) = {}
      BY <2>3, <3>1 DEF FieldsOf
    <3> QED
      BY <2>3, <3>1, <3>2 DEF Clean
  <2> QED
    BY <2>1, <2>2, <2>3, SettledCases
<1>3. ASSUME redisType(r, t) = "none"  PROVE s = EmptyKey
  <2>1. s.value = Absent /\ FieldsOf(s) = {} /\ s.set = {} /\ s.list = Absent
    BY <1>3, TypeCases
  <2>2. s.ttl = 0 /\ s.hash = NoFields
    BY <1>1, <1>2, <2>1, NoFieldsLeft DEF Clean
  <2> HIDE DEF s
  <2> QED
    BY <1>1, <2>1, <2>2 DEF KeyRecords, EmptyKey
<1>4. ASSUME redisType(r, t) = "string"  PROVE Bare(s)
  <2>1. s.value # Absent
    BY <1>4, TypeCases
  <2> HIDE DEF s
  <2> QED
    BY <1>2, <2>1 DEF Clean, Bare
<1>5. Bare(EmptyKey)
  BY EmptyIsClean DEF Bare, EmptyKey
<1> QED
  BY <1>2, <1>3, <1>4, <1>5

LEMMA WrittenString ==
  ASSUME NEW r \in KeyRecords, NEW data \in Data, NEW exp \in MinInt..MaxInt, NEW t \in Nat
  PROVE  LET w == redisWriteString(r, data, exp, t)
         IN  /\ w \in KeyRecords
             /\ Bare(r) => Clean(w)
             /\ exp <= 0 => View(w, t) = Seen("string", data, 0)
             /\ exp > 0 /\ exp <= t => w = EmptyKey
             /\ exp > t /\ AliveAt(r.ttl, t) => View(w, t) = Seen("string", data, exp)
<1> DEFINE w == redisWriteString(r, data, exp, t)
<1>1. CASE exp <= 0
  <2>1. Envelope(data, 0) \in Envelopes
    BY IntFacts DEF Envelope, Envelopes, Data
  <2>2. w = [r EXCEPT !.value = Envelope(data, 0), !.ttl = 0]
    BY <1>1 DEF redisWriteString
  <2>3. /\ w \in KeyRecords /\ w.value = Envelope(data, 0) /\ w.ttl = 0 /\ w.hash = r.hash
        /\ w.set = r.set /\ w.list = r.list
    BY <2>1, <2>2, IntFacts DEF KeyRecords, Cells
  <2>4. w.value # Absent /\ w.value.data = data /\ w.value.exp = 0 /\ AliveAt(w.ttl, t)
    BY <2>1, <2>3, ConstAssumption DEF Envelope, AliveAt
  <2> HIDE DEF w
  <2>5. View(w, t) = Seen("string", data, 0)
    BY <2>3, <2>4, ViewCases DEF AliveAt
  <2>6. Bare(r) => Clean(w)
    BY <2>3, AbsentIsNoList DEF Bare, Clean, FieldsOf
  <2> QED
    BY <1>1, <2>3, <2>5, <2>6, IntFacts DEF w
<1>2. CASE exp > 0 /\ exp <= t
  <2>1. w = EmptyKey
    BY <1>2, IntFacts DEF redisWriteString
  <2> QED
    BY <1>2, <2>1, EmptyIsClean, IntFacts
<1>3. CASE exp > 0 /\ exp > t
  <2>1. Envelope(data, exp) \in Envelopes
    BY <1>3, IntFacts DEF Envelope, Envelopes, Data
  <2>2. w = [r EXCEPT !.value = Envelope(data, exp)]
    BY <1>3, IntFacts DEF redisWriteString
  <2>3. /\ w \in KeyRecords /\ w.value = Envelope(data, exp) /\ w.ttl = r.ttl /\ w.hash = r.hash
        /\ w.set = r.set /\ w.list = r.list
    BY <2>1, <2>2 DEF KeyRecords, Cells
  <2>4. w.value # Absent /\ w.value.data = data /\ w.value.exp = exp
    BY <2>1, <2>3, ConstAssumption DEF Envelope
  <2> HIDE DEF w
  <2>5. AliveAt(r.ttl, t) => View(w, t) = Seen("string", data, exp)
    BY <1>3, <2>3, <2>4, ViewCases DEF AliveAt
  <2>6. Bare(r) => Clean(w)
    BY <2>3, AbsentIsNoList DEF Bare, Clean, FieldsOf
  <2> QED
    BY <1>3, <2>3, <2>5, <2>6, IntFacts DEF w
<1> QED
  BY <1>1, <1>2, <1>3, IntFacts

LEMMA TypeAndExpirySeen ==
  ASSUME NEW r \in KeyRecords, NEW t \in Nat
  PROVE  /\ View(r, t).type = redisType(r, t)
         /\ View(r, t).expiry = redisExpiry(r, t)
         /\ redisExpiry(r, t) \in 0..MaxInt /\ AliveAt(redisExpiry(r, t), t)
<1> DEFINE s == Settled(r, t)
<1>1. s \in KeyRecords /\ AliveAt(s.ttl, t) /\ (s.value # Absent => AliveAt(s.value.exp, t))
  BY SettledType, SettledAlive
<1>2. redisType(r, t) = IF s.value # Absent THEN "string"
                        ELSE IF FieldsOf(s) # {} THEN "hash"
                        ELSE IF s.set # {} THEN "set"
                        ELSE IF s.list # Absent THEN "list" ELSE "none"
  BY DEF redisType
<1>3. redisExpiry(r, t) = IF redisType(r, t) = "none" THEN 0
                          ELSE IF redisType(r, t) = "string" THEN s.value.exp ELSE s.ttl
  BY DEF redisExpiry
<1>4. redisType(r, t) = "list" => s.list # <<>>
  BY TypeCases
<1>5. View(r, t) = SeenIn(s)
  BY SettledView
<1> HIDE DEF s
<1>6. s.ttl \in 0..MaxInt /\ (s.value # Absent => s.value.exp \in 0..MaxInt)
  BY <1>1 DEF KeyRecords, Cells, Envelopes
<1>7. View(r, t).type = redisType(r, t)
  BY <1>2, <1>4, <1>5 DEF SeenIn, Seen
<1>8. View(r, t).expiry = redisExpiry(r, t)
  BY <1>2, <1>3, <1>4, <1>5 DEF SeenIn, Seen
<1> QED
  BY <1>1, <1>2, <1>3, <1>6, <1>7, <1>8, IntFacts DEF AliveAt

LEMMA ExpirySet ==
  ASSUME NEW r \in KeyRecords, NEW exp \in MinInt..MaxInt, NEW t \in Nat
  PROVE  LET w == redisSetExpiry(r, exp, t)
         IN  /\ w \in KeyRecords
             /\ Clean(r) => Clean(w)
             /\ exp > t => \/ View(w, t) = View(r, t)
                           \/ View(w, t).content = View(r, t).content /\ View(w, t).expiry = exp
<1> DEFINE s == Settled(r, t)
           type == redisType(r, t)
           w == redisSetExpiry(r, exp, t)
<1>1. w = IF type = "none" THEN s
          ELSE IF exp <= t THEN EmptyKey
          ELSE IF type = "string"
               THEN [redisWriteString(s, s.value.data, exp, t) EXCEPT !.ttl = 0]
          ELSE [s EXCEPT !.ttl = exp]
  BY DEF redisSetExpiry
<1>2. /\ s \in KeyRecords /\ AliveAt(s.ttl, t)
      /\ \A f \in Fields : s.value = Absent /\ s.hash[f] # Absent => AliveAt(s.hash[f].exp, t)
  BY SettledType, SettledAlive
<1>3. View(s, t) = View(r, t) /\ View(r, t) = SeenIn(s) /\ (Clean(r) => Clean(s))
  BY SettledView, SettledClean
<1>4. (type = "string" <=> s.value # Absent) /\ (type = "string" /\ Clean(r) => Bare(s))
  BY TypeCases, SettledClean
<1>5. type = "none" <=> s.value = Absent /\ FieldsOf(s) = {} /\ s.set = {} /\ s.list = Absent
  BY TypeCases
<1>6. s.value = Absent /\ FieldsOf(s) = {} /\ s.set = {} => s.list # <<>>
  BY SettledAlive
<1> HIDE DEF s, type, w
<1>7. CASE type = "none" \/ exp <= t
  BY <1>1, <1>2, <1>3, <1>7, EmptyIsClean, IntFacts DEF w
<1>8. CASE type = "string" /\ exp > t
  <2>1. s.value.data \in Data
    BY <1>2, <1>4, <1>8 DEF KeyRecords, Cells, Envelopes, Data
  <2>2. Envelope(s.value.data, exp) \in Envelopes
    BY <1>8, <2>1, IntFacts DEF Envelope, Envelopes, Data
  <2>3. w = [s EXCEPT !.value = Envelope(s.value.data, exp), !.ttl = 0]
    <3>1. redisWriteString(s, s.value.data, exp, t) = [s EXCEPT !.value = Envelope(s.value.data, exp)]
      BY <1>8, IntFacts DEF redisWriteString
    <3> QED
      BY <1>1, <1>2, <1>8, <3>1, IntFacts DEF KeyRecords
  <2>4. /\ w \in KeyRecords /\ w.value = Envelope(s.value.data, exp) /\ w.ttl = 0
        /\ w.hash = s.hash /\ w.set = s.set /\ w.list = s.list
    BY <1>2, <2>2, <2>3, IntFacts DEF KeyRecords, Cells
  <2>5. w.value # Absent /\ w.value.data = s.value.data /\ w.value.exp = exp
    BY <2>2, <2>4, ConstAssumption DEF Envelope
  <2>6. View(w, t) = Seen("string", s.value.data, exp)
    BY <1>8, <2>4, <2>5, ViewCases DEF AliveAt
  <2>7. View(r, t).content = s.value.data
    BY <1>3, <1>4, <1>8 DEF SeenIn, Seen
  <2>8. Bare(s) => Clean(w)
    BY <2>4, AbsentIsNoList DEF Bare, Clean, FieldsOf
  <2> QED
    BY <1>4, <1>8, <2>4, <2>6, <2>7, <2>8 DEF Seen, w
<1>9. CASE type \notin {"none", "string"} /\ exp > t
  <2>1. w = [s EXCEPT !.ttl = exp]
    BY <1>1, <1>9, IntFacts
  <2>2. /\ w \in KeyRecords /\ w.value = Absent /\ w.ttl = exp /\ s.value = Absent
        /\ w.hash = s.hash /\ w.set = s.set /\ w.list = s.list
    BY <1>2, <1>4, <1>9, <2>1, IntFacts DEF KeyRecords
  <2>3. FieldsOf(w) = FieldsOf(s)
    BY <2>2 DEF FieldsOf
  <2>4. View(w, t) = SeenIn(w)
    BY <1>2, <1>9, <2>2, ViewOfLiving DEF AliveAt
  <2>5. SeenIn(w).content = SeenIn(s).content /\ SeenIn(w).expiry = exp
    BY <1>5, <1>6, <1>9, <2>2, <2>3 DEF SeenIn, Seen
  <2>6. Clean(s) => Clean(w)
    BY <1>5, <1>9, <2>2, <2>3 DEF Clean
  <2> QED
    BY <1>3, <2>2, <2>4, <2>5, <2>6 DEF w
<1> QED
  BY <1>7, <1>8, <1>9, IntFacts

LEMMA Persisted ==
  ASSUME NEW r \in KeyRecords, NEW t \in Nat
  PROVE  redisPersist(r, t) \in KeyRecords /\ (Clean(r) => Clean(redisPersist(r, t)))
<1> DEFINE s == Settled(r, t)
           w == redisPersist(r, t)
<1>1. w = IF redisExpiry(r, t) = 0 THEN s
          ELSE IF redisType(r, t) = "string" THEN [s EXCEPT !.value.exp = 0]
          ELSE [s EXCEPT !.ttl = 0]
  BY DEF redisPersist
<1>2. s \in KeyRecords /\ (Clean(r) => Clean(s)) /\ (redisType(r, t) = "string" <=> s.value # Absent)
  BY SettledType, SettledClean, TypeCases
<1>3. redisType(r, t) = "string" /\ Clean(r) => Bare(s)
  BY SettledClean
<1> HIDE DEF s, w
<1>4. CASE redisExpiry(r, t) = 0
  BY <1>1, <1>2, <1>4 DEF w
<1>5. CASE redisExpiry(r, t) # 0 /\ redisType(r, t) = "string"
  <2>1. s.value \in Envelopes
    BY <1>2, <1>5 DEF KeyRecords, Cells
  <2>2. [s.value EXCEPT !.exp = 0] \in Envelopes
    BY <2>1, IntFacts DEF Envelopes
  <2>3. w = [s EXCEPT !.value = [s.value EXCEPT !.exp = 0]]
    BY <1>1, <1>2, <1>5 DEF KeyRecords
  <2>4. /\ w \in KeyRecords /\ w.value = [s.value EXCEPT !.exp = 0] /\ w.ttl = s.ttl
        /\ w.hash = s.hash /\ w.set = s.set /\ w.list = s.list
    BY <1>2, <2>2, <2>3 DEF KeyRecords, Cells
  <2>5. Bare(s) => Clean(w)
    BY <2>4, AbsentIsNoList DEF Bare, Clean, FieldsOf
  <2> QED
    BY <1>3, <1>5, <2>4, <2>5 DEF w
<1>6. CASE redisExpiry(r, t) # 0 /\ redisType(r, t) # "string"
  <2>1. /\ w \in KeyRecords /\ w.value = s.value /\ w.ttl = 0
        /\ w.hash = s.hash /\ w.set = s.set /\ w.list = s.list
    BY <1>1, <1>2, <1>6, IntFacts DEF KeyRecords
  <2>2. Clean(s) => Clean(w)
    BY <2>1 DEF Clean, FieldsOf
  <2> QED
    BY <1>2, <2>1, <2>2 DEF w
<1> QED
  BY <1>4, <1>5, <1>6

(* A collection that is edited in place: its fields stay alive, and its    *)
(* expiry is the one beside it.                                            *)
Living(w, t) ==
  /\ w \in KeyRecords /\ w.value = Absent /\ AliveAt(w.ttl, t)
  /\ \A f \in Fields : w.hash[f] # Absent => AliveAt(w.hash[f].exp, t)

LEMMA LivingExpiry ==
  ASSUME NEW t \in Nat, NEW w, Living(w, t)
  PROVE  View(w, t).type # "none" => View(w, t).expiry = w.ttl
<1>1. View(w, t) = SeenIn(w)
  BY ViewOfLiving DEF Living
<1> QED
  BY <1>1 DEF Living, SeenIn, Seen

LEMMA SettledLiving ==
  ASSUME NEW r \in KeyRecords, NEW t \in Nat, redisType(r, t) # "string"
  PROVE  /\ Living(Settled(r, t), t)
         /\ redisType(r, t) # "none" => View(r, t).expiry = Settled(r, t).ttl
         /\ redisType(r, t) = "none" => View(r, t).expiry = 0
<1>1. Settled(r, t).value = Absent
  BY TypeCases
<1>2. Living(Settled(r, t), t)
  BY <1>1, SettledType, SettledAlive DEF Living
<1>3. View(Settled(r, t), t) = View(r, t) /\ View(r, t).type = redisType(r, t)
      /\ View(r, t).expiry = redisExpiry(r, t)
  BY SettledView, TypeAndExpirySeen
<1> QED
  BY <1>2, <1>3, LivingExpiry DEF redisExpiry

LEMMA FieldsWritten ==
  ASSUME NEW t \in Nat, NEW s, Living(s, t), NEW fs \in (SUBSET Fields) \ {{}}, NEW data \in Data
  PROVE  LET w == WithFields(s, fs, data)
         IN  /\ Living(w, t) /\ w.ttl = s.ttl
             /\ s.set = {} /\ s.list = Absent => Clean(w)
<1> DEFINE w == WithFields(s, fs, data)
<1>1. s \in KeyRecords /\ Envelope(data, 0) \in Envelopes
  BY IntFacts DEF Living, Envelope, Envelopes, Data
<1>2. [f \in Fields |-> IF f \in fs THEN Envelope(data, 0) ELSE s.hash[f]] \in [Fields -> Cells]
  BY <1>1 DEF KeyRecords, Cells
<1>3. w = [s EXCEPT !.hash = [f \in Fields |-> IF f \in fs THEN Envelope(data, 0) ELSE s.hash[f]]]
  BY <1>1 DEF WithFields, KeyRecords
<1>4. /\ w \in KeyRecords /\ w.value = s.value /\ w.set = s.set /\ w.list = s.list /\ w.ttl = s.ttl
      /\ w.hash = [f \in Fields |-> IF f \in fs THEN Envelope(data, 0) ELSE s.hash[f]]
  BY <1>1, <1>2, <1>3 DEF KeyRecords
<1> HIDE DEF w
<1>5. \A f \in Fields : w.hash[f] = IF f \in fs THEN Envelope(data, 0) ELSE s.hash[f]
  BY <1>4
<1>6. \A f \in Fields : w.hash[f] # Absent => AliveAt(w.hash[f].exp, t)
  BY <1>5 DEF Living, Envelope, AliveAt
<1>7. FieldsOf(w) # {}
  <2>1. PICK f \in fs : f \in Fields
    OBVIOUS
  <2>2. w.hash[f] = Envelope(data, 0)
    BY <1>5, <2>1
  <2>3. w.hash[f] # Absent
    BY <1>1, <2>2, AbsentIsNoEnvelope
  <2> QED
    BY <2>1, <2>3 DEF FieldsOf
<1>8. s.set = {} /\ s.list = Absent => Clean(w)
  BY <1>4, <1>7, AbsentIsNoList DEF Clean, Living
<1> QED
  BY <1>4, <1>6, <1>8 DEF Living, w

LEMMA FieldsDeleted ==
  ASSUME NEW t \in Nat, NEW s, Living(s, t), NEW fs \in SUBSET Fields
  PROVE  LET w == [s EXCEPT !.hash = [f \in Fields |-> IF f \in fs THEN Absent ELSE @[f]]]
         IN  Living(w, t) /\ w.ttl = s.ttl /\ w.set = s.set /\ w.list = s.list
<1> DEFINE w == [s EXCEPT !.hash = [f \in Fields |-> IF f \in fs THEN Absent ELSE @[f]]]
<1>1. s \in KeyRecords
  BY DEF Living
<1>2. [f \in Fields |-> IF f \in fs THEN Absent ELSE s.hash[f]] \in [Fields -> Cells]
  BY <1>1 DEF KeyRecords, Cells
<1>3. /\ w \in KeyRecords /\ w.value = s.value /\ w.set = s.set /\ w.list = s.list /\ w.ttl = s.ttl
      /\ w.hash = [f \in Fields |-> IF f \in fs THEN Absent ELSE s.hash[f]]
  BY <1>1, <1>2 DEF KeyRecords
<1> HIDE DEF w
<1> QED
  BY <1>3 DEF Living, w

LEMMA MembersWritten ==
  ASSUME NEW t \in Nat, NEW s, Living(s, t), NEW ms \in SUBSET Members
  PROVE  LET w == [s EXCEPT !.set = ms]
         IN  /\ Living(w, t) /\ w.ttl = s.ttl /\ w.set = ms /\ FieldsOf(w) = FieldsOf(s)
             /\ w.list = s.list
             /\ FieldsOf(s) = {} /\ s.list = Absent /\ ms # {} => Clean(w)
<1> DEFINE w == [s EXCEPT !.set = ms]
<1>1. s \in KeyRecords
  BY DEF Living
<1>2. /\ w \in KeyRecords /\ w.value = s.value /\ w.set = ms /\ w.list = s.list /\ w.ttl = s.ttl
      /\ w.hash = s.hash
  BY <1>1 DEF KeyRecords
<1> HIDE DEF w
<1>3. FieldsOf(w) = FieldsOf(s)
  BY <1>2 DEF FieldsOf
<1>4. FieldsOf(s) = {} /\ s.list = Absent /\ ms # {} => Clean(w)
  BY <1>2, <1>3, AbsentIsNoList DEF Clean, Living
<1>5. Living(w, t)
  BY <1>2 DEF Living
<1> QED
  BY <1>2, <1>3, <1>4, <1>5 DEF w

LEMMA ItemsWritten ==
  ASSUME NEW t \in Nat, NEW s, Living(s, t), NEW items \in Seq(Texts)
  PROVE  LET w == redisWriteList(s, items)
         IN  /\ Living(w, t)
             /\ items = <<>> => w = EmptyKey
             /\ items # <<>> => w.ttl = s.ttl
             /\ FieldsOf(s) = {} /\ s.set = {} => Clean(w)
<1> DEFINE w == redisWriteList(s, items)
<1>1. s \in KeyRecords
  BY DEF Living
<1>2. CASE items = <<>>
  <2>1. w = EmptyKey
    BY <1>2 DEF redisWriteList
  <2>2. Living(EmptyKey, t)
    BY EmptyIsClean DEF Living, EmptyKey, NoFields, AliveAt
  <2> QED
    BY <1>2, <2>1, <2>2, EmptyIsClean
<1>3. CASE items # <<>>
  <2>1. /\ w \in KeyRecords /\ w.value = s.value /\ w.set = s.set /\ w.list = items
        /\ w.ttl = s.ttl /\ w.hash = s.hash
    BY <1>1, <1>3 DEF redisWriteList, KeyRecords
  <2> HIDE DEF w
  <2>2. FieldsOf(w) = FieldsOf(s)
    BY <2>1 DEF FieldsOf
  <2>3. items # Absent
    BY ConstAssumption
  <2>4. FieldsOf(s) = {} /\ s.set = {} => Clean(w)
    BY <1>3, <2>1, <2>2, <2>3 DEF Clean, Living
  <2>5. Living(w, t)
    BY <2>1 DEF Living
  <2> QED
    BY <1>3, <2>1, <2>4, <2>5 DEF w
<1> QED
  BY <1>2, <1>3

LEMMA Sliced ==
  ASSUME NEW items \in Seq(Texts), NEW m \in 1..(Len(items) + 1), NEW n \in 0..Len(items), m <= n + 1
  PROVE  SubSeq(items, m, n) \in Seq(Texts)
OBVIOUS

LEMMA RangeIsInside ==
  ASSUME NEW items \in Seq(Texts), NEW start \in Int, NEW stop \in Int,
         normalizeRange(Len(items), start, stop).ok
  PROVE  Slice(items, normalizeRange(Len(items), start, stop)) \in Seq(Texts)
<1> DEFINE length == Len(items)
           from == IF start < 0 THEN length + start ELSE start
           to == IF stop < 0 THEN length + stop ELSE stop
           first == IF from < 0 THEN 0 ELSE from
           final == IF to >= length THEN length - 1 ELSE to
           n == normalizeRange(length, start, stop)
<1>1. n = [first |-> first + 1, last |-> final + 1,
           ok |-> length > 0 /\ first < length /\ final >= first]
  BY DEF normalizeRange
<1>2. length \in Nat /\ n.ok
  OBVIOUS
<1> HIDE DEF n, length
<1>3. first \in Nat /\ final \in Int /\ final < length
  BY <1>2
<1> HIDE DEF first, final
<1>4. n.first = first + 1 /\ n.last = final + 1 /\ first < length /\ final >= first
  BY <1>1, <1>2
<1>5. n.first \in 1..(length + 1) /\ n.last \in 0..length /\ n.first <= n.last + 1
  BY <1>2, <1>3, <1>4
<1> QED
  BY <1>5, Sliced DEF Slice, n, length

LEMMA PushedBatch ==
  ASSUME NEW vs \in Batches
  PROVE  vs \in Seq(Texts) /\ Reversed(vs) \in Seq(Texts) /\ Len(vs) >= 1 /\ Len(Reversed(vs)) >= 1
<1>1. PICK n \in 1..2 : vs \in [1..n -> Texts]
  BY DEF Batches
<1>2. vs \in Seq(Texts) /\ Len(vs) = n /\ DOMAIN vs = 1..n
  BY <1>1
<1>3. Reversed(vs) \in [1..n -> Texts]
  BY <1>1, <1>2 DEF Reversed
<1>4. Reversed(vs) \in Seq(Texts) /\ Len(Reversed(vs)) = n
  BY <1>3
<1> QED
  BY <1>2, <1>4

-----------------------------------------------------------------------------
(* Commands.  `Fits' is what the properties ask of the command `name' on   *)
(* key k that leaves the records r behind and answers `reply'.             *)

TypeInv == db \in [Keys -> KeyRecords] /\ now \in 1..MaxTime

(* The operations of the embedded API that write one kind of record and    *)
(* leave the others of the key.                                            *)
EmbeddedWrites == {"DB.HSet", "DB.HDelete", "DB.SAdd", "DB.SRemove", "DB.RPush"}

(* NeverReturnsExpired of one command.                                     *)
Truthful(name, k, reply) ==
  /\ name \in {"GET", "GETSET", "GETDEL", "GETEX"} /\ reply.kind = "bulk" => Alive(db[k].value.exp)
  /\ name = "HGETALL" /\ reply.kind = "array" =>
       \A f \in DOMAIN reply.items : Alive(db[k].hash[f].exp) /\ Alive(db[k].ttl)
  /\ name \in {"SCARD", "LLEN"} /\ reply.kind = "integer" => reply.value = 0 \/ Alive(db[k].ttl)

SameView(k, r) == View(r, now) = View(db[k], now)

KeepsExpiry(k, r) ==
  View(r, now).type # "none" => View(r, now).expiry = View(db[k], now).expiry

(* ExpireIsInTheFuture of one command.                                     *)
Postpones(arg, k, r) ==
  ~arg.at /\ arg.amount > 0 =>
    \/ SameView(k, r)
    \/ View(r, now).content = View(db[k], now).content /\ View(r, now).expiry > now

(* HDEL and SREM delete before they look for records of another type.      *)
Late == {"HDEL", "SREM"}

Fits(arg, name, k, r, reply) ==
  /\ r \in KeyRecords
  /\ name \notin EmbeddedWrites /\ Clean(db[k]) => Clean(r)
  /\ name \notin {"SCAN", "MSETNX"}
  /\ name \in Reads => SameView(k, r)
  /\ reply.kind = "error" => SameView(k, r) \/ (name \in Late /\ ~Clean(db[k]))
  /\ name \in InPlace /\ Clean(db[k]) => KeepsExpiry(k, r)
  /\ name = "EXPIRE" => Postpones(arg, k, r)
  /\ Truthful(name, k, reply)

Did(k) == \E arg, name, r, reply : CommandWith(arg, name, k, r, reply) /\ Fits(arg, name, k, r, reply)

LEMMA KeyFacts ==
  ASSUME TypeInv, NEW k \in Keys
  PROVE  /\ now \in Nat /\ db[k] \in KeyRecords /\ S(k) \in KeyRecords
         /\ SameView(k, S(k))
         /\ Clean(db[k]) => Clean(S(k))
         /\ T(k) \in {"string", "hash", "set", "list", "none"}
         /\ Clean(db[k]) /\ T(k) = "none" => S(k) = EmptyKey
         /\ Clean(db[k]) /\ T(k) \in {"string", "none"} => Bare(S(k))
         /\ View(db[k], now).type = T(k)
<1>1. now \in Nat /\ db[k] \in KeyRecords
  BY IntFacts DEF TypeInv
<1> QED
  BY <1>1, SettledType, SettledView, SettledClean, TypeCases, TypeAndExpirySeen DEF S, T, SameView

(* A command that leaves what a client sees as it was.                     *)
LEMMA QuietFits ==
  ASSUME NEW arg, NEW name, NEW k \in Keys, NEW r \in KeyRecords, NEW reply,
         SameView(k, r), Clean(db[k]) => Clean(r),
         name \notin {"SCAN", "MSETNX"}, Truthful(name, k, reply)
  PROVE  Fits(arg, name, k, r, reply)
BY DEF Fits, SameView, KeepsExpiry, Postpones

LEMMA LookFits ==
  ASSUME TypeInv, NEW arg, NEW name, NEW k \in Keys, NEW reply,
         name \notin {"SCAN", "MSETNX"}, Truthful(name, k, reply)
  PROVE  Fits(arg, name, k, S(k), reply) /\ Fits(arg, name, k, db[k], reply)
<1>1. SameView(k, db[k])
  BY DEF SameView
<1> QED
  BY <1>1, KeyFacts, QuietFits

(* Names that neither read nor edit in place.                              *)
Plain(name) == name \notin Reads \cup InPlace \cup {"SCAN", "MSETNX", "EXPIRE"}

LEMMA WriteFits ==
  ASSUME NEW arg, NEW name, NEW k \in Keys, NEW r \in KeyRecords, NEW reply,
         Plain(name), name \notin EmbeddedWrites /\ Clean(db[k]) => Clean(r),
         reply.kind # "error", Truthful(name, k, reply)
  PROVE  Fits(arg, name, k, r, reply)
BY DEF Fits, Plain

LEMMA EditFits ==
  ASSUME NEW arg, NEW name, NEW k \in Keys, NEW r \in KeyRecords, NEW reply,
         name \in InPlace, Clean(db[k]) => Clean(r) /\ KeepsExpiry(k, r),
         reply.kind # "error"
  PROVE  Fits(arg, name, k, r, reply)
<1>1. name \notin Reads \cup EmbeddedWrites \cup {"SCAN", "MSETNX", "EXPIRE"}
  BY DEF InPlace, Reads, EmbeddedWrites
<1>2. Truthful(name, k, reply)
  BY DEF InPlace, Truthful
<1> QED
  BY <1>1, <1>2 DEF Fits

LEMMA Done ==
  ASSUME NEW arg, NEW name, NEW k, NEW r, NEW reply,
         CommandWith(arg, name, k, r, reply), Fits(arg, name, k, r, reply)
  PROVE  Did(k)
BY DEF Did

(* What OfType leaves to show: that the command fits a key of its type.    *)
LEMMA OfTypeDone ==
  ASSUME TypeInv, NEW name, NEW k \in Keys, NEW type, NEW r, NEW reply,
         OfType(name, k, type, r, reply), name \notin {"SCAN", "MSETNX"},
         T(k) \in {type, "none"} => Fits(Absent, name, k, r, reply)
  PROVE  Did(k)
<1>1. CASE T(k) \in {type, "none"}
  BY <1>1, Done DEF OfType, Command
<1>2. CASE T(k) \notin {type, "none"}
  <2>1. Truthful(name, k, WrongType)
    BY DEF Truthful, WrongType, Error
  <2> QED
    BY <1>2, <2>1, LookFits, Done DEF OfType, Command
<1> QED
  BY <1>1, <1>2

-----------------------------------------------------------------------------
(* Strings.                                                                *)

(* A key that is not "none" has no expired collection expiry.              *)
LEMMA LiveKey ==
  ASSUME TypeInv, NEW k \in Keys
  PROVE  /\ T(k) # "none" => Alive(db[k].ttl)
         /\ T(k) = "string" => S(k) = db[k] /\ Alive(db[k].value.exp) /\ db[k].value.data \in Data
         /\ T(k) = "hash" => \A f \in FieldsOf(S(k)) :
              S(k).hash[f] = db[k].hash[f] /\ Alive(db[k].hash[f].exp) /\ db[k].hash[f].data \in Data
<1>1. now \in Nat /\ db[k] \in KeyRecords
  BY KeyFacts
<1>2. T(k) # "none" => Alive(db[k].ttl)
  <2>1. redisType(db[k], now) # "none" => Settled(db[k], now) # EmptyKey
    <3>1. EmptyKey.value = Absent /\ EmptyKey.set = {} /\ EmptyKey.list = Absent
      BY DEF EmptyKey
    <3> QED
      BY <1>1, <3>1, TypeCases, EmptyIsClean
  <2> QED
    BY <1>1, <2>1, SettledCases DEF T, Alive, AliveAt
<1>3. T(k) = "string" => S(k) = db[k] /\ db[k].value # Absent /\ Alive(db[k].value.exp)
  BY <1>1, TypeCases, SettledAlive DEF S, T, Alive, AliveAt
<1>4. T(k) = "hash" => \A f \in FieldsOf(S(k)) :
         S(k).hash[f] = db[k].hash[f] /\ db[k].hash[f] # Absent /\ Alive(db[k].hash[f].exp)
  <2>1. T(k) = "hash" => S(k).value = Absent
    BY <1>1, TypeCases DEF S, T
  <2>2. \A f \in Fields : S(k).value = Absent /\ S(k).hash[f] # Absent =>
           S(k).hash[f] = db[k].hash[f] /\ AliveAt(S(k).hash[f].exp, now)
    BY <1>1, SettledAlive DEF S
  <2> QED
    BY <2>1, <2>2 DEF Alive, AliveAt, FieldsOf
<1>5. \A e \in Cells : e # Absent => e.data \in Data
  BY DEF Cells, Envelopes, Data
<1>6. db[k].value \in Cells /\ \A f \in Fields : db[k].hash[f] \in Cells
  BY <1>1 DEF KeyRecords
<1>7. \A f \in FieldsOf(S(k)) : f \in Fields
  BY DEF FieldsOf
<1> QED
  BY <1>2, <1>3, <1>4, <1>5, <1>6, <1>7

LEMMA StringReplies ==
  ASSUME TypeInv, NEW k \in Keys
  PROVE  /\ StringReply(k).kind \in {"bulk", "nil"}
         /\ StringReply(k).kind = "bulk" => Alive(db[k].value.exp)
<1>1. T(k) = "string" => Alive(db[k].value.exp)
  BY LiveKey
<1> QED
  BY <1>1 DEF StringReply, Bulk, Nil

LEMMA StringTruthful ==
  ASSUME TypeInv, NEW k \in Keys, NEW name, name \notin {"HGETALL", "SCARD", "LLEN"}
  PROVE  Truthful(name, k, StringReply(k))
BY StringReplies DEF Truthful

(* Names of commands whose replies NeverReturnsExpired does not look at.   *)
Silent(name) == name \notin {"GET", "GETSET", "GETDEL", "GETEX", "HGETALL", "SCARD", "LLEN"}

LEMMA SilentTruthful ==
  ASSUME NEW k, NEW name, NEW reply, Silent(name) \/ reply.kind \in {"error", "nil", "ok"}
  PROVE  Truthful(name, k, reply)
BY DEF Truthful, Silent

(* redisWriteString with the expiry that the key has.                      *)
LEMMA Rewritten ==
  ASSUME TypeInv, NEW k \in Keys, T(k) \in {"string", "none"}, NEW data \in Data
  PROVE  LET w == redisWriteString(S(k), data, redisExpiry(db[k], now), now)
         IN  w \in KeyRecords /\ (Clean(db[k]) => Clean(w) /\ KeepsExpiry(k, w))
<1> DEFINE exp == redisExpiry(db[k], now)
           w == redisWriteString(S(k), data, exp, now)
<1>1. /\ now \in Nat /\ db[k] \in KeyRecords /\ S(k) \in KeyRecords
      /\ Clean(db[k]) => Bare(S(k))
  BY KeyFacts
<1>2. exp \in 0..MaxInt /\ AliveAt(exp, now) /\ View(db[k], now).expiry = exp
  BY <1>1, TypeAndExpirySeen
<1>3. AliveAt(S(k).ttl, now)
  BY <1>1, SettledAlive DEF S
<1> HIDE DEF exp
<1>4. exp \in MinInt..MaxInt
  BY <1>2, IntFacts
<1>5. w \in KeyRecords /\ (Bare(S(k)) => Clean(w))
  BY <1>1, <1>4, WrittenString
<1>6. exp <= 0 \/ exp > now
  BY <1>1, <1>2, IntFacts DEF AliveAt
<1>7. View(w, now).expiry = exp
  <2>1. CASE exp <= 0
    <3>1. View(w, now) = Seen("string", data, 0) /\ exp = 0
      BY <1>1, <1>2, <1>4, <2>1, WrittenString, IntFacts
    <3> QED
      BY <3>1 DEF Seen
  <2>2. CASE exp > now
    <3>1. View(w, now) = Seen("string", data, exp)
      BY <1>1, <1>3, <1>4, <2>2, WrittenString
    <3> QED
      BY <3>1 DEF Seen
  <2> QED
    BY <1>6, <2>1, <2>2
<1> QED
  BY <1>1, <1>2, <1>5, <1>7 DEF KeepsExpiry, exp

LEMMA NumbersAreData == \A n \in MinInt..MaxInt : <<n>> \in Data
BY DEF Data

LEMMA PayloadsAreData == Payloads \subseteq Data /\ <<>> \in Data
<1>1. \A x \in Texts \cup Numbers : x \in Texts \cup MinInt..MaxInt
  BY ConstAssumption
<1>2. \A x \in Texts \cup MinInt..MaxInt : <<x>> \in Data
  BY DEF Data
<1> QED
  BY <1>1, <1>2 DEF Payloads, Data

LEMMA AcceptedExpiry ==
  ASSUME NEW e, ~InvalidExpiry(e)
  PROVE  redisExpiryFromCommand(e) \in MinInt..MaxInt
BY DEF InvalidExpiry, redisExpiryFromCommand

LEMMA WrittenAfresh ==
  ASSUME TypeInv, NEW data \in Data, NEW exp \in MinInt..MaxInt
  PROVE  redisWriteString(EmptyKey, data, exp, now) \in KeyRecords
         /\ Clean(redisWriteString(EmptyKey, data, exp, now))
<1>1. now \in Nat /\ EmptyKey \in KeyRecords /\ Bare(EmptyKey)
  BY EmptyIsClean, IntFacts DEF TypeInv, Bare, EmptyKey
<1> QED
  BY <1>1, WrittenString

(* A command that only looks, whatever the type it asks for.               *)
LEMMA ReadDone ==
  ASSUME TypeInv, NEW k \in Keys, NEW name, NEW type, NEW reply,
         OfType(name, k, type, S(k), reply), Silent(name), name \notin {"SCAN", "MSETNX"}
  PROVE  Did(k)
BY SilentTruthful, LookFits, OfTypeDone

LEMMA StringReads ==
  ASSUME TypeInv, NEW k \in Keys, redisGet(k) \/ redisStrLen(k)
  PROVE  Did(k)
<1>1. CASE redisGet(k)
  BY <1>1, StringTruthful, LookFits, OfTypeDone DEF redisGet
<1>2. CASE redisStrLen(k)
  <2>1. Silent("STRLEN") /\ "STRLEN" \notin {"SCAN", "MSETNX"}
    BY DEF Silent
  <2>2. PICK reply : OfType("STRLEN", k, "string", S(k), reply)
    BY <1>2 DEF redisStrLen
  <2> QED
    BY <2>1, <2>2, ReadDone
<1> QED
  BY <1>1, <1>2

LEMMA SetDone ==
  ASSUME TypeInv, NEW k \in Keys, NEW v \in Payloads, NEW o \in SetOptions, redisSet(k, v, o)
  PROVE  Did(k)
<1> DEFINE exists == T(k) # "none"
           exp == IF o.ex # Absent THEN redisExpiryFromCommand(o.ex)
                  ELSE IF o.keep THEN redisExpiry(db[k], now) ELSE 0
           reply == IF o.get THEN StringReply(k) ELSE OK
           w == redisWriteString(EmptyKey, v, exp, now)
<1>1. Silent("SET") /\ Plain("SET")
  BY DEF Silent, Plain, Reads, InPlace
<1>2. \A answer : Truthful("SET", k, answer)
  BY <1>1, SilentTruthful
<1>3. \A answer : Fits(Absent, "SET", k, S(k), answer) /\ Fits(Absent, "SET", k, db[k], answer)
  BY <1>2, LookFits
<1>4. \/ \E r \in {S(k), db[k]}, answer \in {Error("expire"), Nil, WrongType} :
           Command("SET", k, r, answer)
      \/ /\ o.ex # Absent => ~InvalidTTL(o.ex)
         /\ Command("SET", k, w, reply)
  BY DEF redisSet
<1>5. CASE \E r \in {S(k), db[k]}, answer \in {Error("expire"), Nil, WrongType} :
             Command("SET", k, r, answer)
  BY <1>3, <1>5, Done DEF Command
<1>6. CASE (o.ex # Absent => ~InvalidTTL(o.ex)) /\ Command("SET", k, w, reply)
  <2>1. v \in Data
    BY PayloadsAreData
  <2>2. exp \in MinInt..MaxInt
    <3>1. redisExpiry(db[k], now) \in 0..MaxInt
      BY KeyFacts, TypeAndExpirySeen
    <3>2. o.ex # Absent => redisExpiryFromCommand(o.ex) \in MinInt..MaxInt
      BY <1>6, AcceptedExpiry DEF InvalidTTL
    <3> QED
      BY <3>1, <3>2, IntFacts
  <2>3. w \in KeyRecords /\ Clean(w)
    BY <2>1, <2>2, WrittenAfresh
  <2>4. reply.kind # "error"
    BY StringReplies DEF OK
  <2> HIDE DEF w, reply
  <2>5. Fits(Absent, "SET", k, w, reply)
    BY <1>1, <1>2, <2>3, <2>4, WriteFits
  <2> QED
    BY <1>6, <2>5, Done DEF Command
<1> QED
  BY <1>4, <1>5, <1>6

LEMMA SetNXDone ==
  ASSUME TypeInv, NEW k \in Keys, NEW v \in Payloads, redisSetNX(k, v)
  PROVE  Did(k)
<1>1. Silent("SETNX") /\ Plain("SETNX")
  BY DEF Silent, Plain, Reads, InPlace
<1>2. \A answer : Truthful("SETNX", k, answer)
  BY <1>1, SilentTruthful
<1>3. CASE T(k) # "none"
  <2>1. Command("SETNX", k, S(k), Int64(0))
    BY <1>3 DEF redisSetNX
  <2> QED
    BY <1>2, <2>1, LookFits, Done DEF Command
<1>4. CASE T(k) = "none"
  <2> DEFINE w == redisWriteString(S(k), v, 0, now)
  <2>1. Command("SETNX", k, w, Int64(1))
    BY <1>4 DEF redisSetNX
  <2>2. v \in Data /\ 0 \in MinInt..MaxInt
    BY PayloadsAreData, IntFacts
  <2>3. now \in Nat /\ S(k) \in KeyRecords /\ (Clean(db[k]) => Bare(S(k)))
    BY <1>4, KeyFacts
  <2>4. w \in KeyRecords /\ (Clean(db[k]) => Clean(w))
    BY <2>2, <2>3, WrittenString
  <2>5. Int64(1).kind # "error"
    BY DEF Int64
  <2> HIDE DEF w
  <2>6. Fits(Absent, "SETNX", k, w, Int64(1))
    BY <1>1, <1>2, <2>4, <2>5, WriteFits
  <2> QED
    BY <2>1, <2>6, Done DEF Command
<1> QED
  BY <1>3, <1>4

LEMMA SetEXDone ==
  ASSUME TypeInv, NEW k \in Keys, NEW v \in Payloads, NEW e \in Expiries, redisSetEX(k, v, e)
  PROVE  Did(k)
<1> DEFINE w == redisWriteString(EmptyKey, v, redisExpiryFromCommand(e), now)
<1>1. Silent("SETEX") /\ Plain("SETEX")
  BY DEF Silent, Plain, Reads, InPlace
<1>2. \A answer : Truthful("SETEX", k, answer)
  BY <1>1, SilentTruthful
<1>3. CASE InvalidTTL(e)
  <2>1. Command("SETEX", k, db[k], Error("expire"))
    BY <1>3 DEF redisSetEX
  <2> QED
    BY <1>2, <2>1, LookFits, Done DEF Command
<1>4. CASE ~InvalidTTL(e)
  <2>1. Command("SETEX", k, w, OK)
    BY <1>4 DEF redisSetEX
  <2>2. v \in Data /\ redisExpiryFromCommand(e) \in MinInt..MaxInt
    BY <1>4, PayloadsAreData, AcceptedExpiry DEF InvalidTTL
  <2>3. w \in KeyRecords /\ Clean(w)
    BY <2>2, WrittenAfresh
  <2>4. OK.kind # "error"
    BY DEF OK
  <2> HIDE DEF w
  <2>5. Fits(Absent, "SETEX", k, w, OK)
    BY <1>1, <1>2, <2>3, <2>4, WriteFits
  <2> QED
    BY <2>1, <2>5, Done DEF Command
<1> QED
  BY <1>3, <1>4

LEMMA GetSetDone ==
  ASSUME TypeInv, NEW k \in Keys, NEW v \in Payloads, redisGetSet(k, v)
  PROVE  Did(k)
<1> DEFINE w == redisWriteString(EmptyKey, v, 0, now)
<1>1. Plain("GETSET")
  BY DEF Plain, Reads, InPlace
<1>2. v \in Data /\ 0 \in MinInt..MaxInt
  BY PayloadsAreData, IntFacts
<1>3. w \in KeyRecords /\ Clean(w)
  BY <1>2, WrittenAfresh
<1>4. OfType("GETSET", k, "string", w, StringReply(k))
  BY DEF redisGetSet
<1> HIDE DEF w
<1>5. Fits(Absent, "GETSET", k, w, StringReply(k))
  BY <1>1, <1>3, StringReplies, StringTruthful, WriteFits
<1> QED
  BY <1>4, <1>5, OfTypeDone

LEMMA GetDelDone ==
  ASSUME TypeInv, NEW k \in Keys, redisGetDel(k)
  PROVE  Did(k)
<1> DEFINE w == IF T(k) = "string" THEN EmptyKey ELSE S(k)
<1>1. Plain("GETDEL")
  BY DEF Plain, Reads, InPlace
<1>2. w \in KeyRecords /\ (Clean(db[k]) => Clean(w))
  BY KeyFacts, EmptyIsClean
<1>3. OfType("GETDEL", k, "string", w, StringReply(k))
  BY DEF redisGetDel
<1> HIDE DEF w
<1>4. Fits(Absent, "GETDEL", k, w, StringReply(k))
  BY <1>1, <1>2, StringReplies, StringTruthful, WriteFits
<1> QED
  BY <1>3, <1>4, OfTypeDone

LEMMA GetExDone ==
  ASSUME TypeInv, NEW k \in Keys,
         \/ \E o \in {"none", "persist"} : redisGetEx(k, o)
         \/ \E e \in Expiries : redisGetExAt(k, e)
  PROVE  Did(k)
<1>1. Plain("GETEX")
  BY DEF Plain, Reads, InPlace
<1>2. now \in Nat /\ db[k] \in KeyRecords /\ S(k) \in KeyRecords /\ (Clean(db[k]) => Clean(S(k)))
  BY KeyFacts
<1>3. ASSUME NEW o, redisGetEx(k, o)
      PROVE  Did(k)
  <2> DEFINE w == IF o = "persist" THEN redisPersist(db[k], now) ELSE S(k)
  <2>1. w \in KeyRecords /\ (Clean(db[k]) => Clean(w))
    BY <1>2, Persisted
  <2>2. OfType("GETEX", k, "string", w, StringReply(k))
    BY <1>3 DEF redisGetEx
  <2> HIDE DEF w
  <2>3. Fits(Absent, "GETEX", k, w, StringReply(k))
    BY <1>1, <2>1, StringReplies, StringTruthful, WriteFits
  <2> QED
    BY <2>2, <2>3, OfTypeDone
<1>4. ASSUME NEW e, redisGetExAt(k, e)
      PROVE  Did(k)
  <2> DEFINE refused == (~e.at /\ e.amount <= 0) \/ InvalidExpiry(e)
             w == IF T(k) = "none" \/ refused THEN S(k)
                  ELSE redisSetExpiry(db[k], redisExpiryFromCommand(e), now)
             reply == IF T(k) = "string" /\ refused THEN Error("expire") ELSE StringReply(k)
  <2>1. OfType("GETEX", k, "string", w, reply)
    BY <1>4 DEF redisGetExAt
  <2>2. Truthful("GETEX", k, Error("expire")) /\ Truthful("GETEX", k, StringReply(k))
    BY StringTruthful DEF Truthful, Error
  <2>3. CASE T(k) = "none" \/ refused
    <3>1. w = S(k) /\ Truthful("GETEX", k, reply)
      BY <2>2, <2>3
    <3> HIDE DEF w, reply
    <3> QED
      BY <2>1, <3>1, LookFits, OfTypeDone
  <2>4. CASE ~(T(k) = "none" \/ refused)
    <3>1. w = redisSetExpiry(db[k], redisExpiryFromCommand(e), now) /\ reply = StringReply(k)
      BY <2>4
    <3>2. redisExpiryFromCommand(e) \in MinInt..MaxInt
      BY <2>4, AcceptedExpiry
    <3> HIDE DEF w, reply
    <3>3. w \in KeyRecords /\ (Clean(db[k]) => Clean(w))
      BY <1>2, <3>1, <3>2, ExpirySet
    <3>4. Fits(Absent, "GETEX", k, w, reply)
      BY <1>1, <3>1, <3>3, StringReplies, StringTruthful, WriteFits
    <3> QED
      BY <2>1, <3>4, OfTypeDone
  <2> QED
    BY <2>3, <2>4
<1> QED
  BY <1>3, <1>4

LEMMA AppendDone ==
  ASSUME TypeInv, NEW k \in Keys, NEW x \in Texts, redisAppend(k, x)
  PROVE  Did(k)
<1> DEFINE old == IF T(k) = "string" THEN S(k).value.data ELSE <<>>
           w == redisWriteString(S(k), old \o <<x>>, redisExpiry(db[k], now), now)
<1>1. OfType("APPEND", k, "string", w, LengthOf(old \o <<x>>))
  BY DEF redisAppend
<1>2. old \in Data
  BY LiveKey, PayloadsAreData
<1>3. old \o <<x>> \in Data
  BY <1>2 DEF Data
<1>4. T(k) \in {"string", "none"} => w \in KeyRecords /\ (Clean(db[k]) => Clean(w) /\ KeepsExpiry(k, w))
  BY <1>3, Rewritten
<1>5. "APPEND" \in InPlace /\ LengthOf(old \o <<x>>).kind # "error"
  BY DEF InPlace, LengthOf
<1> HIDE DEF w, old
<1>6. T(k) \in {"string", "none"} => Fits(Absent, "APPEND", k, w, LengthOf(old \o <<x>>))
  BY <1>4, <1>5, EditFits
<1> QED
  BY <1>1, <1>6, OfTypeDone

LEMMA IncrementDone ==
  ASSUME TypeInv, NEW k \in Keys, NEW name \in {"INCRBY", "DECRBY"}, NEW delta \in Int,
         redisIncrement(name, k, delta)
  PROVE  Did(k)
<1> DEFINE data == IF T(k) = "string" THEN S(k).value.data ELSE <<0>>
           sum == data[1] + delta
           w == redisWriteString(S(k), <<sum>>, redisExpiry(db[k], now), now)
<1>1. \/ OfType(name, k, "string", S(k), Error("integer"))
      \/ OfType(name, k, "string", S(k), Error("overflow"))
      \/ sum \in MinInt..MaxInt /\ OfType(name, k, "string", w, Int64(sum))
  BY DEF redisIncrement
<1>2. ASSUME NEW what, OfType(name, k, "string", S(k), Error(what))
      PROVE  Did(k)
  <2>1. Truthful(name, k, Error(what))
    BY DEF Truthful, Error
  <2> QED
    BY <1>2, <2>1, LookFits, OfTypeDone
<1>3. CASE sum \in MinInt..MaxInt /\ OfType(name, k, "string", w, Int64(sum))
  <2>1. <<sum>> \in Data
    BY <1>3, NumbersAreData
  <2>2. T(k) \in {"string", "none"} => w \in KeyRecords /\ (Clean(db[k]) => Clean(w) /\ KeepsExpiry(k, w))
    BY <2>1, Rewritten
  <2>3. name \in InPlace /\ Int64(sum).kind # "error"
    BY DEF InPlace, Int64
  <2> HIDE DEF w, sum
  <2>4. T(k) \in {"string", "none"} => Fits(Absent, name, k, w, Int64(sum))
    BY <2>2, <2>3, EditFits
  <2> QED
    BY <1>3, <2>4, OfTypeDone
<1> QED
  BY <1>1, <1>2, <1>3

LEMMA StringsDone ==
  ASSUME TypeInv, NEW k \in Keys, Strings(k)
  PROVE  Did(k)
<1>1. ASSUME NEW v \in Payloads,
             \/ redisSetNX(k, v) \/ redisGetSet(k, v)
             \/ \E o \in SetOptions : redisSet(k, v, o)
             \/ \E e \in Expiries : redisSetEX(k, v, e)
      PROVE  Did(k)
  BY <1>1, SetNXDone, GetSetDone, SetDone, SetEXDone
<1>2. ASSUME NEW d \in Numbers, redisIncrement("INCRBY", k, d) \/ redisIncrement("DECRBY", k, -d)
      PROVE  Did(k)
  <2>1. d \in Int /\ -d \in Int
    BY ConstAssumption, IntFacts
  <2> QED
    BY <1>2, <2>1, IncrementDone
<1> QED
  BY <1>1, <1>2, StringReads, GetDelDone, GetExDone, AppendDone DEF Strings

-----------------------------------------------------------------------------
(* Commands on keys of any type.                                           *)

LEMMA ExpireDone ==
  ASSUME TypeInv, NEW k \in Keys, NEW e \in Expiries, redisExpireCommand(k, e)
  PROVE  Did(k)
<1>1. Silent("EXPIRE")
  BY DEF Silent
<1>2. \A answer : Truthful("EXPIRE", k, answer)
  BY <1>1, SilentTruthful
<1>3. CASE InvalidExpiry(e)
  <2>1. CommandWith(e, "EXPIRE", k, db[k], Error("expire"))
    BY <1>3 DEF redisExpireCommand
  <2> QED
    BY <1>2, <2>1, LookFits, Done
<1>4. CASE ~InvalidExpiry(e)
  <2> DEFINE exp == redisExpiryFromCommand(e)
             w == redisSetExpiry(db[k], exp, now)
             reply == Int64(IF T(k) = "none" THEN 0 ELSE 1)
  <2>1. CommandWith(e, "EXPIRE", k, w, reply)
    BY <1>4 DEF redisExpireCommand
  <2>2. exp \in MinInt..MaxInt /\ db[k] \in KeyRecords /\ now \in Nat
    BY <1>4, AcceptedExpiry, KeyFacts
  <2>3. ~e.at /\ e.amount > 0 => exp > now
    <3>1. exp = IF e.at THEN e.amount * e.unit ELSE now + e.amount * e.unit
      BY <1>4 DEF InvalidExpiry, redisExpiryFromCommand
    <3>2. e.unit \in Nat \ {0} /\ e.amount \in Int
      <4>1. e.unit \in {1, Second} /\ e.amount \in Amounts
        BY DEF Expiries
      <4>2. Second \in Nat \ {0} /\ \A a \in Amounts : a \in MinInt..MaxInt
        BY ConstAssumption
      <4> QED
        BY <4>1, <4>2
    <3>3. e.amount > 0 => e.amount * e.unit > 0
      <4>1. \A a \in Int, u \in Nat \ {0} : a > 0 => a * u > 0
        OBVIOUS
      <4> QED
        BY <3>2, <4>1
    <3>4. e.amount * e.unit \in Int
      BY <3>2
    <3> HIDE DEF exp
    <3> QED
      BY <2>2, <3>1, <3>3, <3>4
  <2> HIDE DEF exp
  <2>4. /\ w \in KeyRecords /\ (Clean(db[k]) => Clean(w))
        /\ exp > now => \/ View(w, now) = View(db[k], now)
                        \/ View(w, now).content = View(db[k], now).content /\ View(w, now).expiry = exp
    BY <2>2, ExpirySet
  <2>5. reply.kind = "integer"
    BY DEF Int64
  <2> HIDE DEF w, reply
  <2>6. Postpones(e, k, w)
    BY <2>3, <2>4 DEF Postpones, SameView
  <2>7. "EXPIRE" \notin Reads \cup InPlace \cup {"SCAN", "MSETNX"}
    BY DEF Reads, InPlace
  <2>8. Fits(e, "EXPIRE", k, w, reply)
    BY <1>2, <2>4, <2>5, <2>6, <2>7 DEF Fits
  <2> QED
    BY <2>1, <2>8, Done
<1> QED
  BY <1>3, <1>4

LEMMA AnyKeyDone ==
  ASSUME TypeInv, NEW k \in Keys, AnyKey(k)
  PROVE  Did(k)
<1>1. Silent("TYPE") /\ Silent("TTL") /\ Silent("PERSIST")
  BY DEF Silent
<1>2. \A name \in {"TYPE", "TTL", "PERSIST"} : \A answer : Truthful(name, k, answer)
  BY <1>1, SilentTruthful
<1>3. ASSUME redisTypeCommand(k)  PROVE Did(k)
  BY <1>2, <1>3, LookFits, Done DEF redisTypeCommand, Command
<1>4. ASSUME NEW divisor, redisTTLCommand(k, divisor)  PROVE Did(k)
  <2>1. PICK answer : Command("TTL", k, S(k), answer)
    BY <1>4 DEF redisTTLCommand
  <2> QED
    BY <1>2, <2>1, LookFits, Done DEF Command
<1>5. ASSUME redisPersistCommand(k)  PROVE Did(k)
  <2> DEFINE w == redisPersist(db[k], now)
             reply == Int64(IF redisExpiry(db[k], now) = 0 THEN 0 ELSE 1)
  <2>1. Command("PERSIST", k, w, reply)
    BY <1>5 DEF redisPersistCommand
  <2>2. w \in KeyRecords /\ (Clean(db[k]) => Clean(w))
    BY KeyFacts, Persisted
  <2>3. reply.kind # "error"
    BY DEF Int64
  <2>4. Plain("PERSIST")
    BY DEF Plain, Reads, InPlace
  <2> HIDE DEF w, reply
  <2>5. Fits(Absent, "PERSIST", k, w, reply)
    BY <1>2, <2>2, <2>3, <2>4, WriteFits
  <2> QED
    BY <2>1, <2>5, Done DEF Command
<1> QED
  BY <1>3, <1>4, <1>5, ExpireDone DEF AnyKey

-----------------------------------------------------------------------------
(* Hashes.                                                                 *)

(* A collection command on a key that is no string.                        *)
LEMMA Collection ==
  ASSUME TypeInv, NEW k \in Keys, T(k) # "string"
  PROVE  /\ Living(S(k), now)
         /\ T(k) # "none" => S(k).ttl = View(db[k], now).expiry
         /\ T(k) = "none" => View(db[k], now).expiry = 0
         /\ Clean(db[k]) => S(k).ttl = View(db[k], now).expiry
         /\ Clean(db[k]) /\ T(k) \in {"hash", "none"} => S(k).set = {} /\ S(k).list = Absent
         /\ Clean(db[k]) /\ T(k) \in {"set", "none"} => FieldsOf(S(k)) = {} /\ S(k).list = Absent
         /\ Clean(db[k]) /\ T(k) \in {"list", "none"} => FieldsOf(S(k)) = {} /\ S(k).set = {}
<1>1. /\ now \in Nat /\ db[k] \in KeyRecords /\ (Clean(db[k]) => Clean(S(k)))
      /\ Clean(db[k]) /\ T(k) = "none" => S(k) = EmptyKey
  BY KeyFacts
<1>2. /\ Living(S(k), now)
      /\ T(k) # "none" => View(db[k], now).expiry = S(k).ttl
      /\ T(k) = "none" => View(db[k], now).expiry = 0
  BY <1>1, SettledLiving DEF S, T
<1>3. /\ EmptyKey.ttl = 0 /\ EmptyKey.set = {} /\ EmptyKey.list = Absent /\ FieldsOf(EmptyKey) = {}
  BY EmptyIsClean DEF EmptyKey
<1>4. /\ T(k) = "hash" => FieldsOf(S(k)) # {}
      /\ T(k) = "set" => FieldsOf(S(k)) = {} /\ S(k).set # {}
      /\ T(k) = "list" => FieldsOf(S(k)) = {} /\ S(k).set = {}
  BY <1>1, TypeCases DEF S, T
<1>5. /\ Clean(S(k)) /\ FieldsOf(S(k)) # {} => S(k).set = {} /\ S(k).list = Absent
      /\ Clean(S(k)) /\ S(k).set # {} => S(k).list = Absent
  BY DEF Clean
<1> QED
  BY <1>1, <1>2, <1>3, <1>4, <1>5

(* HSET, SADD and the pushes drop the expiry of a collection that is gone. *)
LEMMA CreatedKey ==
  ASSUME TypeInv, NEW k \in Keys, T(k) # "string"
  PROVE  /\ Living(Created(k), now) /\ Created(k).ttl = View(db[k], now).expiry
         /\ Created(k).set = S(k).set /\ Created(k).list = S(k).list
         /\ FieldsOf(Created(k)) = FieldsOf(S(k))
<1>1. /\ Living(S(k), now)
      /\ T(k) # "none" => S(k).ttl = View(db[k], now).expiry
      /\ T(k) = "none" => View(db[k], now).expiry = 0
  BY Collection
<1>2. CASE T(k) # "none"
  BY <1>1, <1>2 DEF Created
<1>3. CASE T(k) = "none"
  <2> DEFINE w == [S(k) EXCEPT !.ttl = 0]
  <2>1. S(k) \in KeyRecords
    BY <1>1 DEF Living
  <2>2. /\ w \in KeyRecords /\ w.value = S(k).value /\ w.hash = S(k).hash /\ w.set = S(k).set
        /\ w.list = S(k).list /\ w.ttl = 0
    BY <2>1, IntFacts DEF KeyRecords
  <2>3. Created(k) = w
    BY <1>3 DEF Created
  <2> HIDE DEF w
  <2>4. Living(w, now) /\ FieldsOf(w) = FieldsOf(S(k))
    BY <1>1, <2>2 DEF Living, FieldsOf, AliveAt
  <2> QED
    BY <1>1, <1>3, <2>2, <2>3, <2>4
<1> QED
  BY <1>2, <1>3

(* A collection that is edited in place and ends up with the expiry that   *)
(* it had.                                                                 *)
LEMMA LivingFits ==
  ASSUME TypeInv, NEW k \in Keys, NEW name \in InPlace, NEW w, NEW reply, Living(w, now),
         Clean(db[k]) => Clean(w),
         Clean(db[k]) => w.ttl = View(db[k], now).expiry \/ w = EmptyKey,
         reply.kind # "error"
  PROVE  Fits(Absent, name, k, w, reply)
<1>1. now \in Nat /\ w \in KeyRecords
  BY KeyFacts DEF Living
<1>2. View(w, now).type # "none" => View(w, now).expiry = w.ttl
  BY <1>1, LivingExpiry
<1>3. View(EmptyKey, now).type = "none"
  BY <1>1, ViewOfEmpty DEF Seen
<1>4. Clean(db[k]) => KeepsExpiry(k, w)
  BY <1>2, <1>3 DEF KeepsExpiry
<1> QED
  BY <1>1, <1>4, EditFits

LEMMA HSetDone ==
  ASSUME TypeInv, NEW k \in Keys, NEW fs \in (SUBSET Fields) \ {{}}, NEW v \in Payloads,
         redisHSet(k, fs, v)
  PROVE  Did(k)
<1> DEFINE w == WithFields(Created(k), fs, v)
           reply == Int64(Cardinality(fs \ FieldsOf(S(k))))
<1>1. OfType("HSET", k, "hash", w, reply)
  BY DEF redisHSet
<1>2. reply.kind # "error" /\ "HSET" \in InPlace
  BY DEF Int64, InPlace
<1>3. v \in Data /\ now \in Nat
  BY PayloadsAreData, KeyFacts
<1> HIDE DEF w, reply
<1>4. ASSUME T(k) \in {"hash", "none"}
      PROVE  Fits(Absent, "HSET", k, w, reply)
  <2>1. T(k) # "string"
    BY <1>4
  <2>2. /\ Living(Created(k), now) /\ Created(k).ttl = View(db[k], now).expiry
        /\ Clean(db[k]) => Created(k).set = {} /\ Created(k).list = Absent
    BY <1>4, <2>1, CreatedKey, Collection
  <2>3. /\ Living(w, now) /\ w.ttl = Created(k).ttl
        /\ Created(k).set = {} /\ Created(k).list = Absent => Clean(w)
    BY <1>3, <2>2, FieldsWritten DEF w
  <2> QED
    BY <1>2, <2>2, <2>3, LivingFits
<1> QED
  BY <1>1, <1>4, OfTypeDone

LEMMA HIncrByDone ==
  ASSUME TypeInv, NEW k \in Keys, NEW f \in Fields, NEW delta \in Int, redisHIncrBy(k, f, delta)
  PROVE  Did(k)
<1> DEFINE data == IF FieldReply(k, f) = Nil THEN <<0>> ELSE S(k).hash[f].data
           sum == data[1] + delta
           w == WithFields(S(k), {f}, <<sum>>)
<1>1. \/ OfType("HINCRBY", k, "hash", S(k), Error("integer"))
      \/ OfType("HINCRBY", k, "hash", S(k), Error("overflow"))
      \/ sum \in MinInt..MaxInt /\ OfType("HINCRBY", k, "hash", w, Int64(sum))
  BY DEF redisHIncrBy
<1>2. ASSUME NEW what, OfType("HINCRBY", k, "hash", S(k), Error(what))
      PROVE  Did(k)
  <2>1. Truthful("HINCRBY", k, Error(what))
    BY DEF Truthful, Error
  <2> QED
    BY <1>2, <2>1, LookFits, OfTypeDone
<1>3. CASE sum \in MinInt..MaxInt /\ OfType("HINCRBY", k, "hash", w, Int64(sum))
  <2>1. <<sum>> \in Data
    BY <1>3, NumbersAreData
  <2>2. Int64(sum).kind # "error" /\ "HINCRBY" \in InPlace
    BY DEF Int64, InPlace
  <2>3. {f} \in (SUBSET Fields) \ {{}} /\ now \in Nat
    BY KeyFacts
  <2> HIDE DEF w, sum
  <2>4. ASSUME T(k) \in {"hash", "none"}
        PROVE  Fits(Absent, "HINCRBY", k, w, Int64(sum))
    <3>1. T(k) # "string"
      BY <2>4
    <3>2. /\ Living(S(k), now)
          /\ Clean(db[k]) => /\ S(k).set = {} /\ S(k).list = Absent
                             /\ S(k).ttl = View(db[k], now).expiry
      BY <2>4, <3>1, Collection
    <3>3. Living(w, now) /\ w.ttl = S(k).ttl /\ (S(k).set = {} /\ S(k).list = Absent => Clean(w))
      BY <2>1, <2>3, <3>2, FieldsWritten DEF w
    <3> QED
      BY <2>2, <3>2, <3>3, LivingFits
  <2> QED
    BY <1>3, <2>4, OfTypeDone
<1> QED
  BY <1>1, <1>2, <1>3

LEMMA HGetAllDone ==
  ASSUME TypeInv, NEW k \in Keys, redisHGetAll(k)
  PROVE  Did(k)
<1> DEFINE entries == redisHashEntries(k)
<1>1. OfType("HGETALL", k, "hash", S(k), Array(entries))
  BY DEF redisHGetAll
<1>2. DOMAIN entries = IF T(k) = "hash" THEN FieldsOf(S(k)) ELSE {}
  BY DEF redisHashEntries
<1>3. \A f \in DOMAIN entries : Alive(db[k].hash[f].exp) /\ Alive(db[k].ttl)
  BY <1>2, LiveKey
<1> HIDE DEF entries
<1>4. Truthful("HGETALL", k, Array(entries))
  BY <1>3 DEF Truthful, Array
<1> QED
  BY <1>1, <1>4, LookFits, OfTypeDone

LEMMA HashReads ==
  ASSUME TypeInv, NEW k \in Keys,
         \/ redisHLen(k) \/ redisHKeys(k) \/ redisHVals(k)
         \/ \E fs \in SUBSET Fields : redisHMGet(k, fs)
         \/ \E f \in Fields : redisHGet(k, f) \/ redisHExists(k, f)
  PROVE  Did(k)
<1>1. \A name \in {"HLEN", "HKEYS", "HVALS", "HMGET", "HGET", "HEXISTS"} :
         Silent(name) /\ name \notin {"SCAN", "MSETNX"}
  BY DEF Silent
<1>2. \E name \in {"HLEN", "HKEYS", "HVALS", "HMGET", "HGET", "HEXISTS"} : \E reply :
         OfType(name, k, "hash", S(k), reply)
  BY DEF redisHLen, redisHKeys, redisHVals, redisHMGet, redisHGet, redisHExists
<1> QED
  BY <1>1, <1>2, ReadDone

(* HDEL and SREM: what is left is settled, and a key of which nothing is   *)
(* left is deleted.                                                        *)
LEMMA ShrunkDone ==
  ASSUME TypeInv, NEW k \in Keys, NEW name \in Late, NEW type \in {"hash", "set"}, NEW r,
         NEW n, Shrunk(name, k, type, r, Int64(n)),
         T(k) = type => /\ Living(r, now) /\ r.ttl = S(k).ttl
                        /\ Clean(db[k]) => \/ redisType(r, now) = "none"
                                           \/ redisType(r, now) = type /\ Clean(r)
  PROVE  Did(k)
<1>1. Silent(name) /\ name \notin {"SCAN", "MSETNX"} /\ name \in InPlace
      /\ name \notin Reads \cup {"EXPIRE"}
  BY DEF Silent, Late, InPlace, Reads
<1>2. \A answer : Truthful(name, k, answer) /\ Fits(Absent, name, k, S(k), answer)
  BY <1>1, SilentTruthful, LookFits
<1>3. CASE T(k) # type
  BY <1>2, <1>3, Done DEF Shrunk, Command
<1>4. CASE T(k) = type /\ redisType(r, now) = "none"
  <2>1. Command(name, k, EmptyKey, Int64(n))
    BY <1>4 DEF Shrunk
  <2>2. Int64(n).kind # "error"
    BY DEF Int64
  <2>3. Living(EmptyKey, now) /\ Clean(EmptyKey)
    BY EmptyIsClean DEF Living, EmptyKey, NoFields, AliveAt
  <2>4. Fits(Absent, name, k, EmptyKey, Int64(n))
    BY <1>1, <2>2, <2>3, LivingFits
  <2> QED
    BY <2>1, <2>4, Done DEF Command
<1>5. CASE T(k) = type /\ redisType(r, now) # "none"
  <2> DEFINE w == Settled(r, now)
             reply == IF redisType(r, now) = type THEN Int64(n) ELSE WrongType
  <2>1. Command(name, k, w, reply)
    BY <1>5 DEF Shrunk
  <2>2. now \in Nat /\ r \in KeyRecords
    BY <1>5, KeyFacts DEF Living
  <2>3. w \in KeyRecords /\ View(w, now) = View(r, now) /\ (Clean(r) => Clean(w))
    BY <2>2, SettledType, SettledView, SettledClean
  <2>4. View(r, now).type # "none" => View(r, now).expiry = r.ttl
    BY <1>5, <2>2, LivingExpiry
  <2>5. S(k).ttl = View(db[k], now).expiry
    BY <1>5, Collection
  <2>6. KeepsExpiry(k, w)
    BY <1>5, <2>3, <2>4, <2>5 DEF KeepsExpiry
  <2>7. Clean(db[k]) => Clean(w) /\ reply = Int64(n)
    BY <1>5, <2>3
  <2>8. Int64(n).kind # "error"
    BY DEF Int64
  <2> HIDE DEF w, reply
  <2>9. Fits(Absent, name, k, w, reply)
    BY <1>1, <1>2, <2>3, <2>6, <2>7, <2>8 DEF Fits
  <2> QED
    BY <2>1, <2>9, Done DEF Command
<1> QED
  BY <1>3, <1>4, <1>5

LEMMA LivingType ==
  ASSUME NEW t \in Nat, NEW w, Living(w, t), w.list = Absent
  PROVE  /\ w.set = {} => redisType(w, t) = "none" \/ (redisType(w, t) = "hash" /\ Clean(w))
         /\ FieldsOf(w) = {} => redisType(w, t) = "none" \/ (redisType(w, t) = "set" /\ Clean(w))
<1>1. w \in KeyRecords /\ w.value = Absent /\ View(w, t) = SeenIn(w)
  BY ViewOfLiving DEF Living
<1>2. View(w, t).type = redisType(w, t)
  BY <1>1, TypeAndExpirySeen
<1>3. redisType(w, t) = IF FieldsOf(w) # {} THEN "hash" ELSE IF w.set # {} THEN "set" ELSE "none"
  <2>1. \A type, content, exp : Seen(type, content, exp).type = type
    BY DEF Seen
  <2>2. SeenIn(w) = IF FieldsOf(w) # {} THEN Seen("hash", [f \in FieldsOf(w) |-> w.hash[f].data], w.ttl)
                    ELSE IF w.set # {} THEN Seen("set", w.set, w.ttl) ELSE Seen("none", Absent, 0)
    BY <1>1, Zenon DEF SeenIn
  <2> QED
    BY <1>1, <1>2, <2>1, <2>2
<1>4. FieldsOf(w) # {} /\ w.set = {} => Clean(w)
  BY <1>1, AbsentIsNoList DEF Clean
<1>5. FieldsOf(w) = {} /\ w.set # {} => Clean(w)
  BY <1>1, AbsentIsNoList DEF Clean
<1> QED
  BY <1>3, <1>4, <1>5

LEMMA HDelDone ==
  ASSUME TypeInv, NEW k \in Keys, NEW fs \in SUBSET Fields, redisHDel(k, fs)
  PROVE  Did(k)
<1> DEFINE r == [S(k) EXCEPT !.hash = [f \in Fields |-> IF f \in fs THEN Absent ELSE @[f]]]
           n == Cardinality(fs \cap FieldsOf(S(k)))
<1>1. Shrunk("HDEL", k, "hash", r, Int64(n))
  BY DEF redisHDel
<1>2. "HDEL" \in Late /\ now \in Nat
  BY KeyFacts DEF Late
<1>3. ASSUME T(k) = "hash"
      PROVE  /\ Living(r, now) /\ r.ttl = S(k).ttl
             /\ Clean(db[k]) => \/ redisType(r, now) = "none"
                                \/ redisType(r, now) = "hash" /\ Clean(r)
  <2>1. Living(S(k), now) /\ (Clean(db[k]) => S(k).set = {} /\ S(k).list = Absent)
    BY <1>3, Collection
  <2>2. Living(r, now) /\ r.ttl = S(k).ttl /\ r.set = S(k).set /\ r.list = S(k).list
    BY <1>2, <2>1, FieldsDeleted
  <2> HIDE DEF r
  <2> QED
    BY <1>2, <2>1, <2>2, LivingType
<1> HIDE DEF r, n
<1> QED
  BY <1>1, <1>2, <1>3, ShrunkDone

LEMMA HashesDone ==
  ASSUME TypeInv, NEW k \in Keys, Hashes(k)
  PROVE  Did(k)
<1>1. ASSUME NEW fs \in (SUBSET Fields) \ {{}},
             \/ redisHMGet(k, fs) \/ redisHDel(k, fs)
             \/ \E v \in Payloads : redisHSet(k, fs, v)
      PROVE  Did(k)
  BY <1>1, HashReads, HDelDone, HSetDone
<1>2. ASSUME NEW f \in Fields, NEW d \in Numbers, redisHIncrBy(k, f, d)
      PROVE  Did(k)
  <2>1. d \in Int
    BY ConstAssumption, IntFacts
  <2> QED
    BY <1>2, <2>1, HIncrByDone
<1> QED
  BY <1>1, <1>2, HashReads, HGetAllDone DEF Hashes

-----------------------------------------------------------------------------
(* Sets.                                                                   *)

LEMMA SAddDone ==
  ASSUME TypeInv, NEW k \in Keys, NEW ms \in (SUBSET Members) \ {{}}, redisSAdd(k, ms)
  PROVE  Did(k)
<1> DEFINE w == [Created(k) EXCEPT !.set = Created(k).set \cup ms]
           reply == Int64(Cardinality(ms \ S(k).set))
<1>1. ASSUME T(k) # "string"
      PROVE  [Created(k) EXCEPT !.set = @ \cup ms] = w
  BY <1>1, CreatedKey DEF Living, KeyRecords
<1>2. reply.kind # "error" /\ "SADD" \in InPlace
  BY DEF Int64, InPlace
<1>3. OfType("SADD", k, "set", [Created(k) EXCEPT !.set = @ \cup ms], reply)
  BY DEF redisSAdd
<1> HIDE DEF reply
<1>4. ASSUME T(k) \in {"set", "none"}
      PROVE  Fits(Absent, "SADD", k, [Created(k) EXCEPT !.set = @ \cup ms], reply)
  <2>1. T(k) # "string" /\ now \in Nat
    BY <1>4, KeyFacts
  <2>2. /\ Living(Created(k), now) /\ Created(k).ttl = View(db[k], now).expiry
        /\ Clean(db[k]) => FieldsOf(Created(k)) = {} /\ Created(k).list = Absent
    BY <1>4, <2>1, CreatedKey, Collection
  <2>3. Created(k).set \cup ms \in (SUBSET Members) \ {{}}
    BY <2>2 DEF Living, KeyRecords
  <2>4. /\ Living(w, now) /\ w.ttl = Created(k).ttl
        /\ FieldsOf(Created(k)) = {} /\ Created(k).list = Absent => Clean(w)
    BY <2>1, <2>2, <2>3, MembersWritten
  <2> HIDE DEF w
  <2>5. Fits(Absent, "SADD", k, w, reply)
    BY <1>2, <2>2, <2>4, LivingFits
  <2> QED
    BY <1>1, <2>1, <2>5
<1> QED
  BY <1>3, <1>4, OfTypeDone

LEMMA SRemDone ==
  ASSUME TypeInv, NEW k \in Keys, NEW ms \in SUBSET Members, redisSRem(k, ms)
  PROVE  Did(k)
<1> DEFINE r == [S(k) EXCEPT !.set = S(k).set \ ms]
           n == Cardinality(ms \cap S(k).set)
<1>1. [S(k) EXCEPT !.set = @ \ ms] = r
  BY KeyFacts DEF KeyRecords
<1>2. Shrunk("SREM", k, "set", r, Int64(n))
  BY <1>1 DEF redisSRem
<1>3. "SREM" \in Late /\ now \in Nat
  BY KeyFacts DEF Late
<1>4. ASSUME T(k) = "set"
      PROVE  /\ Living(r, now) /\ r.ttl = S(k).ttl
             /\ Clean(db[k]) => \/ redisType(r, now) = "none"
                                \/ redisType(r, now) = "set" /\ Clean(r)
  <2>1. Living(S(k), now) /\ (Clean(db[k]) => FieldsOf(S(k)) = {} /\ S(k).list = Absent)
    BY <1>4, Collection
  <2>2. S(k).set \ ms \in SUBSET Members
    BY <2>1 DEF Living, KeyRecords
  <2>3. Living(r, now) /\ r.ttl = S(k).ttl /\ FieldsOf(r) = FieldsOf(S(k)) /\ r.list = S(k).list
    BY <1>3, <2>1, <2>2, MembersWritten
  <2> HIDE DEF r
  <2> QED
    BY <1>3, <2>1, <2>3, LivingType
<1> HIDE DEF r, n
<1> QED
  BY <1>2, <1>3, <1>4, ShrunkDone

LEMMA SCardDone ==
  ASSUME Cardinality({}) = 0, TypeInv, NEW k \in Keys, redisSCard(k)
  PROVE  Did(k)
<1> DEFINE n == Cardinality(redisSetMembers(k))
<1>1. OfType("SCARD", k, "set", S(k), Int64(n))
  BY DEF redisSCard
<1>2. n = 0 \/ Alive(db[k].ttl)
  BY LiveKey DEF redisSetMembers
<1> HIDE DEF n
<1>3. Truthful("SCARD", k, Int64(n))
  BY <1>2 DEF Truthful, Int64
<1> QED
  BY <1>1, <1>3, LookFits, OfTypeDone

LEMMA SetsDone ==
  ASSUME Cardinality({}) = 0, TypeInv, NEW k \in Keys, Sets(k)
  PROVE  Did(k)
<1>1. \A name \in {"SMEMBERS", "SISMEMBER", "SMISMEMBER"} :
         Silent(name) /\ name \notin {"SCAN", "MSETNX"}
  BY DEF Silent
<1>2. ASSUME NEW name \in {"SMEMBERS", "SISMEMBER", "SMISMEMBER"}, NEW reply,
             OfType(name, k, "set", S(k), reply)
      PROVE  Did(k)
  BY <1>1, <1>2, ReadDone
<1>3. ASSUME redisSMembers(k)  PROVE Did(k)
  BY <1>2, <1>3 DEF redisSMembers
<1>4. ASSUME NEW m \in Members, redisSIsMember(k, m)  PROVE Did(k)
  BY <1>2, <1>4 DEF redisSIsMember
<1>5. ASSUME NEW ms \in SUBSET Members, redisSMIsMember(k, ms)  PROVE Did(k)
  BY <1>2, <1>5 DEF redisSMIsMember
<1> QED
  BY <1>3, <1>4, <1>5, SAddDone, SRemDone, SCardDone DEF Sets

-----------------------------------------------------------------------------
(* Lists.                                                                  *)

LEMMA ItemsType ==
  ASSUME TypeInv, NEW k \in Keys
  PROVE  Items(k) \in Seq(Texts) /\ (T(k) # "list" => Items(k) = <<>>)
<1>1. now \in Nat /\ db[k] \in KeyRecords
  BY KeyFacts
<1>2. T(k) = "list" => S(k).list \in Seq(Texts)
  BY <1>1, TypeCases DEF T, S
<1>3. Items(k) = IF T(k) = "list" THEN S(k).list ELSE <<>>
  BY DEF Items, redisList, T, S
<1>4. <<>> \in Seq(Texts)
  OBVIOUS
<1> QED
  BY <1>2, <1>3, <1>4

(* redisWriteList on a list, or on a key that is not there.                *)
LEMMA ListEdited ==
  ASSUME TypeInv, NEW k \in Keys, T(k) \in {"list", "none"}, NEW items \in Seq(Texts),
         NEW s \in {S(k), Created(k)}, NEW name \in InPlace, NEW reply, reply.kind # "error"
  PROVE  Fits(Absent, name, k, redisWriteList(s, items), reply)
<1> DEFINE w == redisWriteList(s, items)
<1>1. T(k) # "string" /\ now \in Nat
  BY KeyFacts
<1>2. /\ Living(s, now)
      /\ Clean(db[k]) => s.ttl = View(db[k], now).expiry /\ FieldsOf(s) = {} /\ s.set = {}
  BY <1>1, Collection, CreatedKey
<1>3. /\ Living(w, now)
      /\ items = <<>> => w = EmptyKey
      /\ items # <<>> => w.ttl = s.ttl
      /\ FieldsOf(s) = {} /\ s.set = {} => Clean(w)
  BY <1>1, <1>2, ItemsWritten
<1> HIDE DEF w
<1>4. Fits(Absent, name, k, w, reply)
  BY <1>2, <1>3, LivingFits
<1> QED
  BY <1>4 DEF w

LEMMA PushDone ==
  ASSUME TypeInv, NEW k \in Keys, NEW name \in {"LPUSH", "RPUSH", "LPUSHX", "RPUSHX"},
         NEW vs \in Batches, NEW left \in BOOLEAN, NEW onlyIfExists \in BOOLEAN,
         redisPushValues(name, k, vs, left, onlyIfExists)
  PROVE  Did(k)
<1> DEFINE items == IF left THEN Reversed(vs) \o Items(k) ELSE Items(k) \o vs
           written == redisWriteList(S(k), items)
           w == IF T(k) = "none" THEN [written EXCEPT !.ttl = 0] ELSE written
<1>1. \/ Command(name, k, S(k), Int64(0))
      \/ OfType(name, k, "list", w, Int64(Len(items)))
  BY DEF redisPushValues
<1>2. Silent(name) /\ name \notin {"SCAN", "MSETNX"} /\ name \in InPlace
  BY DEF Silent, InPlace
<1>3. CASE Command(name, k, S(k), Int64(0))
  BY <1>2, <1>3, SilentTruthful, LookFits, Done DEF Command
<1>4. CASE OfType(name, k, "list", w, Int64(Len(items)))
  <2>1. items \in Seq(Texts) /\ items # <<>>
    <3>1. /\ vs \in Seq(Texts) /\ Reversed(vs) \in Seq(Texts) /\ Len(vs) >= 1
          /\ Len(Reversed(vs)) >= 1 /\ Items(k) \in Seq(Texts)
      BY PushedBatch, ItemsType
    <3>2. \A a, b \in Seq(Texts) : a \o b \in Seq(Texts) /\ (Len(a) >= 1 \/ Len(b) >= 1 => a \o b # <<>>)
      OBVIOUS
    <3> QED
      BY <3>1, <3>2
  <2> HIDE DEF items
  <2>2. \E s \in {S(k), Created(k)} : w = redisWriteList(s, items)
    <3>1. CASE T(k) # "none"
      BY <3>1
    <3>2. CASE T(k) = "none"
      <4>1. S(k) \in KeyRecords
        BY KeyFacts
      <4>2. [[S(k) EXCEPT !.list = items] EXCEPT !.ttl = 0] = [[S(k) EXCEPT !.ttl = 0] EXCEPT !.list = items]
        BY <4>1 DEF KeyRecords
      <4>3. w = redisWriteList(Created(k), items)
        BY <2>1, <3>2, <4>2 DEF redisWriteList, Created
      <4> QED
        BY <4>3
    <3> QED
      BY <3>1, <3>2
  <2>3. Int64(Len(items)).kind # "error"
    BY DEF Int64
  <2> HIDE DEF w
  <2>4. T(k) \in {"list", "none"} => Fits(Absent, name, k, w, Int64(Len(items)))
    BY <1>2, <2>1, <2>2, <2>3, ListEdited
  <2> QED
    BY <1>2, <1>4, <2>4, OfTypeDone
<1> QED
  BY <1>1, <1>3, <1>4

LEMMA PopDone ==
  ASSUME TypeInv, NEW k \in Keys, NEW name \in {"LPOP", "RPOP"}, NEW left \in BOOLEAN,
         NEW count \in Nat, redisPop(name, k, left, count)
  PROVE  Did(k)
<1> DEFINE items == Items(k)
           n == IF count > Len(items) THEN Len(items) ELSE count
           taken == IF left THEN SubSeq(items, 1, n) ELSE SubSeq(items, Len(items) - n + 1, Len(items))
           rest == IF left THEN SubSeq(items, n + 1, Len(items)) ELSE SubSeq(items, 1, Len(items) - n)
           w == IF T(k) = "none" \/ count = 0 THEN S(k) ELSE redisWriteList(S(k), rest)
<1>1. OfType(name, k, "list", w, Array(taken))
  BY DEF redisPop
<1>2. Silent(name) /\ name \notin {"SCAN", "MSETNX"} /\ name \in InPlace /\ Array(taken).kind # "error"
  BY DEF Silent, InPlace, Array
<1>3. Fits(Absent, name, k, S(k), Array(taken))
  BY <1>2, SilentTruthful, LookFits
<1>4. rest \in Seq(Texts)
  <2>1. items \in Seq(Texts) /\ Len(items) \in Nat
    BY ItemsType
  <2> HIDE DEF items
  <2>2. n \in 0..Len(items)
    BY <2>1
  <2> HIDE DEF n
  <2>3. SubSeq(items, n + 1, Len(items)) \in Seq(Texts)
    BY <2>1, <2>2, Sliced
  <2>4. SubSeq(items, 1, Len(items) - n) \in Seq(Texts)
    BY <2>1, <2>2, Sliced
  <2> QED
    BY <2>3, <2>4
<1> HIDE DEF rest, taken
<1>5. T(k) \in {"list", "none"} => Fits(Absent, name, k, redisWriteList(S(k), rest), Array(taken))
  BY <1>2, <1>4, ListEdited
<1>6. T(k) \in {"list", "none"} => Fits(Absent, name, k, w, Array(taken))
  BY <1>3, <1>5
<1> HIDE DEF w
<1> QED
  BY <1>1, <1>2, <1>6, OfTypeDone

LEMMA LTrimDone ==
  ASSUME TypeInv, NEW k \in Keys, NEW start \in Int, NEW stop \in Int, redisLTrim(k, start, stop)
  PROVE  Did(k)
<1> DEFINE n == normalizeRange(Len(Items(k)), start, stop)
           w == IF n.ok THEN redisWriteList(S(k), Slice(Items(k), n)) ELSE EmptyKey
<1>1. OfType("LTRIM", k, "list", w, OK)
  BY DEF redisLTrim
<1>2. "LTRIM" \in InPlace /\ OK.kind # "error"
  BY DEF InPlace, OK
<1>3. n.ok => Slice(Items(k), n) \in Seq(Texts)
  BY ItemsType, RangeIsInside
<1>4. <<>> \in Seq(Texts) /\ EmptyKey = redisWriteList(S(k), <<>>)
  BY DEF redisWriteList
<1>5. \E items \in Seq(Texts) : w = redisWriteList(S(k), items)
  BY <1>3, <1>4
<1> HIDE DEF w
<1>6. T(k) \in {"list", "none"} => Fits(Absent, "LTRIM", k, w, OK)
  BY <1>2, <1>5, ListEdited
<1> QED
  BY <1>1, <1>6, OfTypeDone

LEMMA ListReads ==
  ASSUME TypeInv, NEW k \in Keys, redisLLen(k) \/ \E start, stop \in Bounds : redisLRange(k, start, stop)
  PROVE  Did(k)
<1>1. ASSUME redisLLen(k)  PROVE Did(k)
  <2>1. OfType("LLEN", k, "list", S(k), Int64(Len(Items(k))))
    BY <1>1 DEF redisLLen
  <2>2. Len(<<>>) = 0
    OBVIOUS
  <2>3. Len(Items(k)) = 0 \/ Alive(db[k].ttl)
    BY <2>2, ItemsType, LiveKey
  <2>4. Truthful("LLEN", k, Int64(Len(Items(k))))
    BY <2>3 DEF Truthful, Int64
  <2> QED
    BY <2>1, <2>4, LookFits, OfTypeDone
<1>2. ASSUME NEW start \in Bounds, NEW stop \in Bounds, redisLRange(k, start, stop)  PROVE Did(k)
  <2>1. PICK reply : OfType("LRANGE", k, "list", S(k), reply)
    BY <1>2 DEF redisLRange
  <2>2. Silent("LRANGE")
    BY DEF Silent
  <2> QED
    BY <2>1, <2>2, ReadDone
<1> QED
  BY <1>1, <1>2

LEMMA ListsDone ==
  ASSUME TypeInv, NEW k \in Keys, Lists(k)
  PROVE  Did(k)
<1>1. ASSUME NEW vs \in Batches,
             \/ redisPushValues("LPUSH", k, vs, TRUE, FALSE)
             \/ redisPushValues("RPUSH", k, vs, FALSE, FALSE)
             \/ redisPushValues("LPUSHX", k, vs, TRUE, TRUE)
             \/ redisPushValues("RPUSHX", k, vs, FALSE, TRUE)
      PROVE  Did(k)
  BY <1>1, PushDone
<1>2. ASSUME NEW start \in Bounds, NEW stop \in Bounds, redisLTrim(k, start, stop)
      PROVE  Did(k)
  <2>1. start \in Int /\ stop \in Int
    BY ConstAssumption, IntFacts
  <2> QED
    BY <1>2, <2>1, LTrimDone
<1>3. ASSUME NEW n \in 0..2, redisPop("LPOP", k, TRUE, n) \/ redisPop("RPOP", k, FALSE, n)
      PROVE  Did(k)
  <2>1. n \in Nat
    OBVIOUS
  <2> QED
    BY <1>3, <2>1, PopDone
<1> QED
  BY <1>1, <1>2, <1>3, ListReads DEF Lists

-----------------------------------------------------------------------------
(* The embedded API.  Put replaces the whole key; the other operations may *)
(* leave records of several types behind.                                  *)

LEMMA EncodedType ==
  ASSUME TypeInv, NEW v \in Payloads, NEW ttl \in TTLs, now + ttl <= MaxInt
  PROVE  Encoded(v, ttl) \in Envelopes
<1>1. v \in Data /\ now \in Nat
  BY PayloadsAreData, IntFacts DEF TypeInv
<1>2. ttl \in Int /\ ttl >= 0
  BY ConstAssumption, IntFacts DEF TTLs
<1>3. (IF ttl > 0 THEN now + ttl ELSE 0) \in 0..MaxInt
  BY <1>1, <1>2, IntFacts
<1> QED
  BY <1>1, <1>3 DEF Encoded, Envelope, Envelopes, Data

LEMMA PutDone ==
  ASSUME TypeInv, NEW k \in Keys, NEW v \in Payloads, NEW ttl \in TTLs, Put(k, v, ttl)
  PROVE  Did(k)
<1> DEFINE e == Encoded(v, ttl)
           w == [EmptyKey EXCEPT !.value = e]
<1>1. Command("DB.Put", k, w, OK) /\ now + ttl <= MaxInt
  BY DEF Put
<1>2. e \in Envelopes
  BY <1>1, EncodedType
<1> HIDE DEF e
<1>3. /\ w \in KeyRecords /\ w.hash = EmptyKey.hash /\ w.set = {} /\ w.list = Absent /\ w.ttl = 0
  BY <1>2, EmptyIsClean DEF KeyRecords, Cells, EmptyKey
<1> HIDE DEF w
<1>4. FieldsOf(w) = {}
  BY <1>3, EmptyIsClean DEF FieldsOf
<1>5. Clean(w)
  BY <1>3, <1>4, AbsentIsNoList DEF Clean
<1>6. Plain("DB.Put") /\ Silent("DB.Put") /\ OK.kind # "error"
  BY DEF Plain, Reads, InPlace, Silent, OK
<1>7. Truthful("DB.Put", k, OK)
  BY <1>6, SilentTruthful
<1>8. Fits(Absent, "DB.Put", k, w, OK)
  BY <1>3, <1>5, <1>6, <1>7, WriteFits
<1> QED
  BY <1>1, <1>8, Done DEF Command

LEMMA EmbeddedFits ==
  ASSUME NEW k \in Keys, NEW name \in EmbeddedWrites, NEW w \in KeyRecords
  PROVE  Fits(Absent, name, k, w, OK)
<1>1. Plain(name) /\ Silent(name) /\ OK.kind # "error"
  BY DEF EmbeddedWrites, Plain, Reads, InPlace, Silent, OK
<1> QED
  BY <1>1, SilentTruthful, WriteFits

LEMMA EmbeddedDone ==
  ASSUME TypeInv, NEW k \in Keys, Embedded(k)
  PROVE  Did(k)
<1>1. db[k] \in KeyRecords
  BY KeyFacts
<1>2. ASSUME NEW v \in Payloads, NEW ttl \in TTLs, NEW f \in Fields, HSet(k, f, v, ttl)
      PROVE  Did(k)
  <2> DEFINE e == Encoded(v, ttl)
  <2>1. Command("DB.HSet", k, [db[k] EXCEPT !.hash[f] = e], OK) /\ now + ttl <= MaxInt
    BY <1>2 DEF HSet
  <2>2. e \in Cells
    BY <2>1, EncodedType DEF Cells
  <2> HIDE DEF e
  <2>3. [db[k] EXCEPT !.hash[f] = e] \in KeyRecords
    BY <1>1, <2>2 DEF KeyRecords
  <2>4. "DB.HSet" \in EmbeddedWrites
    BY DEF EmbeddedWrites
  <2> QED
    BY <2>1, <2>3, <2>4, EmbeddedFits, Done DEF Command
<1>3. ASSUME NEW fs \in SUBSET Fields, HDelete(k, fs)
      PROVE  Did(k)
  <2> DEFINE w == [db[k] EXCEPT !.hash = [f \in Fields |-> IF f \in fs THEN Absent ELSE @[f]]]
  <2>1. Command("DB.HDelete", k, w, OK)
    BY <1>3 DEF HDelete
  <2>2. [f \in Fields |-> IF f \in fs THEN Absent ELSE db[k].hash[f]] \in [Fields -> Cells]
    BY <1>1 DEF KeyRecords, Cells
  <2>3. w \in KeyRecords
    BY <1>1, <2>2 DEF KeyRecords
  <2>4. "DB.HDelete" \in EmbeddedWrites
    BY DEF EmbeddedWrites
  <2> QED
    BY <2>1, <2>3, <2>4, EmbeddedFits, Done DEF Command
<1>4. ASSUME NEW ms \in SUBSET Members, SAdd(k, ms) \/ SRemove(k, ms)
      PROVE  Did(k)
  <2>1. [db[k] EXCEPT !.set = @ \cup ms] \in KeyRecords /\ [db[k] EXCEPT !.set = @ \ ms] \in KeyRecords
    BY <1>1 DEF KeyRecords
  <2>2. "DB.SAdd" \in EmbeddedWrites /\ "DB.SRemove" \in EmbeddedWrites
    BY DEF EmbeddedWrites
  <2> QED
    BY <1>4, <2>1, <2>2, EmbeddedFits, Done DEF SAdd, SRemove, Command
<1>5. ASSUME NEW vs \in Batches \cup {<<>>}, RPush(k, vs)
      PROVE  Did(k)
  <2> DEFINE items == (IF db[k].list = Absent THEN <<>> ELSE db[k].list) \o vs
  <2>1. Command("DB.RPush", k, [db[k] EXCEPT !.list = items], OK)
    BY <1>5 DEF RPush
  <2>2. vs \in Seq(Texts) /\ (IF db[k].list = Absent THEN <<>> ELSE db[k].list) \in Seq(Texts)
    <3>1. <<>> \in Seq(Texts) /\ db[k].list \in Seq(Texts) \cup {Absent}
      BY <1>1 DEF KeyRecords
    <3> QED
      BY <3>1, PushedBatch
  <2>3. items \in Seq(Texts)
    BY <2>2
  <2> HIDE DEF items
  <2>4. [db[k] EXCEPT !.list = items] \in KeyRecords
    BY <1>1, <2>3 DEF KeyRecords
  <2>5. "DB.RPush" \in EmbeddedWrites
    BY DEF EmbeddedWrites
  <2> QED
    BY <2>1, <2>4, <2>5, EmbeddedFits, Done DEF Command
<1> QED
  BY <1>2, <1>3, <1>4, <1>5, PutDone DEF Embedded

-----------------------------------------------------------------------------
(* Commands over several keys.                                             *)

Wide == {"MGET", "MSET", "MSETNX", "DEL", "EXISTS", "KEYS", "DBSIZE", "FLUSHDB", "SCAN"}

FitsAll(name, results, reply) ==
  /\ name \in Wide /\ DOMAIN results \subseteq Keys
  /\ \A k \in DOMAIN results :
       results[k] \in KeyRecords /\ (Clean(db[k]) => Clean(results[k]))
  /\ name \in Reads \cup {"SCAN"} \/ reply.kind = "error" =>
       \A k \in DOMAIN results : SameView(k, results[k])
  /\ name = "MSETNX" =>
       \/ \A k \in DOMAIN results : SameView(k, results[k])
       \/ \A k \in DOMAIN results : T(k) = "none" /\ View(results[k], now).type = "string"

Swept ==
  \E name, results, reply :
    Sweep(name, results, reply) /\ name # "SCAN" /\ FitsAll(name, results, reply)

LEMMA SweepDone ==
  ASSUME NEW name, NEW results, NEW reply,
         Sweep(name, results, reply), name # "SCAN", FitsAll(name, results, reply)
  PROVE  Swept
BY DEF Swept

LEMMA LookedFits ==
  ASSUME TypeInv, NEW ks \in SUBSET Keys, NEW name \in Wide, NEW reply
  PROVE  FitsAll(name, Looked(ks), reply)
<1>1. DOMAIN Looked(ks) = ks /\ \A k \in ks : Looked(ks)[k] = S(k)
  BY DEF Looked
<1>2. \A k \in ks : S(k) \in KeyRecords /\ SameView(k, S(k)) /\ (Clean(db[k]) => Clean(S(k)))
  BY KeyFacts
<1> QED
  BY <1>1, <1>2 DEF FitsAll

LEMMA WrittenFits ==
  ASSUME TypeInv, NEW results, DOMAIN results \subseteq Keys, NEW reply, reply.kind # "error",
         NEW name \in {"MSET", "DEL", "FLUSHDB"},
         \A k \in DOMAIN results : results[k] \in KeyRecords /\ Clean(results[k])
  PROVE  FitsAll(name, results, reply)
<1>1. name \in Wide /\ name \notin Reads \cup {"SCAN", "MSETNX"}
  BY DEF Wide, Reads
<1> QED
  BY <1>1 DEF FitsAll

LEMMA NamedKeys ==
  ASSUME NEW ks \in KeyLists
  PROVE  Named(ks) \subseteq Keys /\ \A bad : Until(ks, bad) \subseteq Keys
<1>1. PICK n \in 1..2 : ks \in [1..n -> Keys]
  BY DEF KeyLists
<1>2. \A i \in DOMAIN ks : ks[i] \in Keys
  BY <1>1
<1> QED
  BY <1>2 DEF Named, Until

LEMMA MSetNXDone ==
  ASSUME TypeInv, NEW ks \in KeyLists, NEW v \in Payloads, redisMSetNX(ks, v)
  PROVE  Swept
<1> DEFINE existing == {k \in Named(ks) : T(k) # "none"}
           results == [k \in Named(ks) |-> redisWriteString(S(k), v, 0, now)]
<1>1. \/ Sweep("MSETNX", Looked(Until(ks, existing)), Int64(0))
      \/ existing = {} /\ Sweep("MSETNX", results, Int64(1))
  BY DEF redisMSetNX
<1>2. "MSETNX" \in Wide /\ "MSETNX" \notin Reads \cup {"SCAN"} /\ Named(ks) \subseteq Keys
      /\ Until(ks, existing) \subseteq Keys
  BY NamedKeys DEF Wide, Reads
<1>3. CASE Sweep("MSETNX", Looked(Until(ks, existing)), Int64(0))
  BY <1>2, <1>3, LookedFits, SweepDone
<1>4. CASE existing = {} /\ Sweep("MSETNX", results, Int64(1))
  <2>1. DOMAIN results = Named(ks) /\ \A k \in Named(ks) : results[k] = redisWriteString(S(k), v, 0, now)
    OBVIOUS
  <2>2. ASSUME NEW k \in Named(ks)
        PROVE  /\ T(k) = "none" /\ results[k] \in KeyRecords /\ (Clean(db[k]) => Clean(results[k]))
               /\ View(results[k], now).type = "string"
    <3>1. T(k) = "none" /\ k \in Keys
      BY <1>2, <1>4
    <3>2. now \in Nat /\ S(k) \in KeyRecords /\ (Clean(db[k]) => Bare(S(k)))
      BY <3>1, KeyFacts
    <3>3. v \in Data /\ 0 \in MinInt..MaxInt /\ 0 <= 0
      BY PayloadsAreData, IntFacts
    <3> DEFINE w == redisWriteString(S(k), v, 0, now)
    <3>4. w \in KeyRecords /\ (Clean(db[k]) => Clean(w)) /\ View(w, now) = Seen("string", v, 0)
      BY <3>2, <3>3, WrittenString
    <3>5. results[k] = w
      BY <2>1
    <3> HIDE DEF w, results
    <3>6. View(w, now).type = "string"
      BY <3>4 DEF Seen
    <3> QED
      BY <3>1, <3>4, <3>5, <3>6
  <2>3. Int64(1).kind # "error"
    BY DEF Int64
  <2> HIDE DEF results
  <2>4. FitsAll("MSETNX", results, Int64(1))
    BY <1>2, <2>1, <2>2, <2>3 DEF FitsAll
  <2> QED
    BY <1>4, <2>4, SweepDone
<1> QED
  BY <1>1, <1>3, <1>4

LEMMA ManyKeysDone ==
  ASSUME TypeInv, ManyKeys
  PROVE  Swept
<1>1. ASSUME NEW ks \in SUBSET Keys, NEW name \in Wide \ {"SCAN"}, NEW reply,
             Sweep(name, Looked(ks), reply)
      PROVE  Swept
  BY <1>1, LookedFits, SweepDone
<1>2. ASSUME NEW ks \in SUBSET Keys, NEW name \in {"DEL", "FLUSHDB"}, NEW reply,
             reply.kind # "error", Sweep(name, Cleared(ks), reply)
      PROVE  Swept
  <2>1. DOMAIN Cleared(ks) = ks /\ \A k \in ks : Cleared(ks)[k] = EmptyKey
    BY DEF Cleared
  <2>2. FitsAll(name, Cleared(ks), reply)
    BY <1>2, <2>1, EmptyIsClean, WrittenFits
  <2> QED
    BY <1>2, <2>2, SweepDone
<1>3. {"MGET", "EXISTS", "KEYS", "DBSIZE"} \subseteq Wide \ {"SCAN"}
  BY DEF Wide
<1>4. ASSUME NEW ks \in KeyLists, redisMGet(ks) \/ redisDelete(ks) \/ redisExists(ks)
      PROVE  Swept
  <2>1. Named(ks) \subseteq Keys /\ \A bad : Until(ks, bad) \subseteq Keys
    BY NamedKeys
  <2>2. CASE redisMGet(ks)
    <3>1. PICK bad, reply : Sweep("MGET", Looked(Until(ks, bad)), reply)
      BY <2>2 DEF redisMGet
    <3> QED
      BY <1>1, <1>3, <2>1, <3>1
  <2>3. CASE redisDelete(ks)
    <3>1. PICK n : Sweep("DEL", Cleared(Named(ks)), Int64(n))
      BY <2>3 DEF redisDelete
    <3>2. Int64(n).kind # "error"
      BY DEF Int64
    <3> QED
      BY <1>2, <2>1, <3>1, <3>2
  <2>4. CASE redisExists(ks)
    <3>1. PICK reply : Sweep("EXISTS", Looked(Named(ks)), reply)
      BY <2>4 DEF redisExists
    <3> QED
      BY <1>1, <1>3, <2>1, <3>1
  <2> QED
    BY <1>4, <2>2, <2>3, <2>4
<1>5. ASSUME NEW ks \in KeyLists, NEW v \in Payloads, redisMSet(ks, v)
      PROVE  Swept
  <2> DEFINE results == [k \in Named(ks) |-> redisWriteString(EmptyKey, v, 0, now)]
  <2>1. Sweep("MSET", results, OK)
    BY <1>5 DEF redisMSet
  <2>2. v \in Data /\ 0 \in MinInt..MaxInt /\ OK.kind # "error"
    BY PayloadsAreData, IntFacts DEF OK
  <2>3. DOMAIN results \subseteq Keys
        /\ \A k \in DOMAIN results : results[k] \in KeyRecords /\ Clean(results[k])
    BY <2>2, NamedKeys, WrittenAfresh
  <2> HIDE DEF results
  <2>4. FitsAll("MSET", results, OK)
    BY <2>2, <2>3, WrittenFits
  <2> QED
    BY <2>1, <2>4, SweepDone
<1>6. ASSUME redisKeysCommand \/ redisDBSize \/ redisFlush  PROVE Swept
  <2>1. CASE redisKeysCommand
    BY <1>1, <1>3, <2>1 DEF redisKeysCommand
  <2>2. CASE redisDBSize
    BY <1>1, <1>3, <2>2 DEF redisDBSize
  <2>3. CASE redisFlush
    <3>1. OK.kind # "error"
      BY DEF OK
    <3> QED
      BY <1>2, <2>3, <3>1 DEF redisFlush
  <2> QED
    BY <1>6, <2>1, <2>2, <2>3
<1> QED
  BY <1>4, <1>5, <1>6, MSetNXDone DEF ManyKeys

-----------------------------------------------------------------------------
(* What every step does: the properties of RedisKeyspace as one formula.   *)

Right ==
  /\ TypeInv'
  /\ last'.cmd \in Workload \cup {"none"}
  /\ last'.cmd \notin EmbeddedWrites /\ CleanKeys => CleanKeys'
  /\ last'.cmd \in Reads \/ last'.reply.kind = "error" =>
       Unseen \/ (last'.cmd \in Late /\ ~CleanKeys)
  /\ last'.cmd \in InPlace /\ CleanKeys =>
       LET before == View(db[last'.key], now)
           after == View(db'[last'.key], now)
       IN  after.type # "none" => after.expiry = before.expiry
  /\ last'.cmd = "EXPIRE" /\ ~last'.arg.at /\ last'.arg.amount > 0 =>
       LET before == View(db[last'.key], now)
           after == View(db'[last'.key], now)
       IN  after = before \/ (after.content = before.content /\ after.expiry > now)
  /\ last'.cmd = "MSETNX" =>
       \/ Unseen
       \/ \A k \in last'.keys : T(k) = "none" /\ View(db'[k], now).type = "string"
  /\ /\ last'.cmd \in {"GET", "GETSET", "GETDEL", "GETEX"} /\ last'.reply.kind = "bulk" =>
          Alive(db[last'.key].value.exp)
     /\ last'.cmd = "HGETALL" /\ last'.reply.kind = "array" =>
          \A f \in DOMAIN last'.reply.items :
             Alive(db[last'.key].hash[f].exp) /\ Alive(db[last'.key].ttl)
     /\ last'.cmd \in {"SCARD", "LLEN"} /\ last'.reply.kind = "integer" =>
          last'.reply.value = 0 \/ Alive(db[last'.key].ttl)

LEMMA CleanKeysOne == CleanKeys <=> \A k \in Keys : Clean(db[k])
BY DEF CleanKeys, Clean

LEMMA CleanKeysNext == CleanKeys' <=> \A k \in Keys : Clean(db'[k])
BY DEF CleanKeys, Clean, FieldsOf

LEMMA DidRight ==
  ASSUME TypeInv, NEW k \in Keys, Did(k)
  PROVE  Right
<1>1. PICK arg, name, r, reply : CommandWith(arg, name, k, r, reply) /\ Fits(arg, name, k, r, reply)
  BY DEF Did
<1>2. /\ name \in Workload /\ db' = [db EXCEPT ![k] = r] /\ now' = now
      /\ last' = [cmd |-> name, key |-> k, arg |-> arg, reply |-> reply]
  BY <1>1 DEF CommandWith
<1>3. last'.cmd = name /\ last'.key = k /\ last'.arg = arg /\ last'.reply = reply
  BY <1>2
<1>4. /\ r \in KeyRecords
      /\ name \notin EmbeddedWrites /\ Clean(db[k]) => Clean(r)
      /\ name \notin {"SCAN", "MSETNX"}
      /\ name \in Reads => SameView(k, r)
      /\ reply.kind = "error" => SameView(k, r) \/ (name \in Late /\ ~Clean(db[k]))
      /\ name \in InPlace /\ Clean(db[k]) => KeepsExpiry(k, r)
      /\ name = "EXPIRE" => Postpones(arg, k, r)
  BY <1>1 DEF Fits
<1>5. Truthful(name, k, reply)
  BY <1>1 DEF Fits
<1>6. db'[k] = r /\ \A j \in Keys \ {k} : db'[j] = db[j]
  BY <1>2 DEF TypeInv
<1>7. TypeInv'
  BY <1>2, <1>4 DEF TypeInv
<1>8. last'.cmd \notin EmbeddedWrites /\ CleanKeys => CleanKeys'
  BY <1>3, <1>4, <1>6, CleanKeysOne, CleanKeysNext
<1>9. SameView(k, r) => Unseen
  BY <1>6 DEF SameView, Unseen
<1>10. last'.cmd \in Reads \/ last'.reply.kind = "error" => Unseen \/ (last'.cmd \in Late /\ ~CleanKeys)
  BY <1>3, <1>4, <1>9, CleanKeysOne
<1>11. last'.cmd \in InPlace /\ CleanKeys =>
         (View(db'[last'.key], now).type # "none" =>
            View(db'[last'.key], now).expiry = View(db[last'.key], now).expiry)
  BY <1>3, <1>4, <1>6, CleanKeysOne DEF KeepsExpiry
<1>12. last'.cmd = "EXPIRE" /\ ~last'.arg.at /\ last'.arg.amount > 0 =>
         \/ View(db'[last'.key], now) = View(db[last'.key], now)
         \/ /\ View(db'[last'.key], now).content = View(db[last'.key], now).content
            /\ View(db'[last'.key], now).expiry > now
  BY <1>3, <1>4, <1>6 DEF Postpones, SameView
<1>13. last'.cmd \in Workload \cup {"none"} /\ last'.cmd # "MSETNX"
  BY <1>2, <1>3, <1>4
<1> QED
  BY <1>3, <1>5, <1>7, <1>8, <1>10, <1>11, <1>12, <1>13 DEF Right, Truthful

LEMMA OnKeysRight ==
  ASSUME TypeInv, NEW name, NEW results, NEW reply,
         OnKeys(name, results, reply), FitsAll(name, results, reply)
  PROVE  Right
<1>1. /\ name \in Workload /\ now' = now
      /\ db' = [k \in Keys |-> IF k \in DOMAIN results THEN results[k] ELSE db[k]]
      /\ last' = [cmd |-> name, keys |-> DOMAIN results, reply |-> reply]
  BY DEF OnKeys
<1>2. last'.cmd = name /\ last'.keys = DOMAIN results /\ last'.reply = reply
  BY <1>1
<1>3. /\ name \in Wide /\ DOMAIN results \subseteq Keys
      /\ \A k \in DOMAIN results :
           results[k] \in KeyRecords /\ (Clean(db[k]) => Clean(results[k]))
      /\ name \in Reads \cup {"SCAN"} \/ reply.kind = "error" =>
           \A k \in DOMAIN results : SameView(k, results[k])
      /\ name = "MSETNX" =>
           \/ \A k \in DOMAIN results : SameView(k, results[k])
           \/ \A k \in DOMAIN results : T(k) = "none" /\ View(results[k], now).type = "string"
  BY DEF FitsAll
<1>4. /\ \A k \in DOMAIN results : db'[k] = results[k]
      /\ \A k \in Keys \ DOMAIN results : db'[k] = db[k]
  BY <1>1, <1>3
<1>5. TypeInv'
  BY <1>1, <1>3 DEF TypeInv
<1>6. CleanKeys => CleanKeys'
  BY <1>3, <1>4, CleanKeysOne, CleanKeysNext
<1>7. (\A k \in DOMAIN results : SameView(k, results[k])) => Unseen
  BY <1>3, <1>4 DEF SameView, Unseen
<1>8. name \notin InPlace \cup {"EXPIRE", "GET", "GETSET", "GETDEL", "GETEX", "HGETALL", "SCARD", "LLEN"}
  BY <1>3 DEF Wide, InPlace
<1>9. last'.cmd = "MSETNX" =>
        \/ Unseen
        \/ \A k \in last'.keys : T(k) = "none" /\ View(db'[k], now).type = "string"
  BY <1>2, <1>3, <1>4, <1>7
<1>10. last'.cmd \in Reads \/ last'.reply.kind = "error" => Unseen
  BY <1>2, <1>3, <1>7
<1> QED
  BY <1>1, <1>2, <1>5, <1>6, <1>8, <1>9, <1>10 DEF Right

LEMMA TickRight ==
  ASSUME TypeInv, Tick
  PROVE  Right
<1>1. now < MaxTime /\ now' = now + 1 /\ db' = db /\ last' = NoCommand
  BY DEF Tick
<1>2. TypeInv'
  BY <1>1, IntFacts DEF TypeInv
<1>3. CleanKeys => CleanKeys'
  BY <1>1, CleanKeysOne, CleanKeysNext
<1>4. last'.cmd = "none" /\ last'.reply.kind = "nil"
  BY <1>1 DEF NoCommand, Nil
<1>5. "none" \notin Reads \cup InPlace
  BY DEF Reads, InPlace
<1> QED
  BY <1>2, <1>3, <1>4, <1>5 DEF Right
=============================================================================
