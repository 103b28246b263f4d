------------------------------ MODULE ByteFields -----------------------------
(* Length fields of the storage formats: binary.BigEndian over uint32,     *)
(* with Width bytes of Base values.                                        *)
EXTENDS Integers, Sequences

CONSTANTS Base,        \* values of a byte: 256 in the code
          Width,       \* bytes of a length field: 4 in the code
          Bytes        \* the bytes that keys, members, items and data are made of

ASSUME BytesAssumption ==
  Base \in Nat \ {0, 1} /\ Width \in Nat \ {0} /\ Bytes \subseteq 0..(Base - 1)

(* binary.BigEndian.PutUint32 and Uint32.                                  *)
BigEndian(n) == [i \in 1..Width |-> (n \div Base ^ (Width - i)) % Base]

Uint(bytes) ==
  LET value[i \in 0..Len(bytes)] == IF i = 0 THEN 0 ELSE value[i - 1] * Base + bytes[i]
  IN  value[Len(bytes)]
=============================================================================
