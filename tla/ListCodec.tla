------------------------------ MODULE ListCodec ------------------------------
(***************************************************************************)
(* The record of a list (collections.go): a count, then every item behind  *)
(* its length; and the range that LRange cuts out of it.  The HTTP client  *)
(* has the same codec (extensions/http/http.go).                           *)
(*                                                                         *)
(* Two inputs grow: a list, item by item and byte by byte, and raw data    *)
(* that need not be an encoding at all.                                    *)
(***************************************************************************)
EXTENDS ByteFields, FiniteSetsExt, SequencesExt

CONSTANTS MaxItems,    \* bound: items of a list
          MaxPayload,  \* bound: bytes of all items together
          MaxData,     \* bound: length of raw data
          Bounds       \* range arguments

ASSUME CodecAssumption ==
  /\ MaxItems \in Nat /\ MaxPayload \in Nat /\ MaxData \in Nat
  /\ MaxItems < Base ^ Width /\ MaxPayload < Base ^ Width
  /\ Bounds \subseteq Int

VARIABLES items, data

codec == <<items, data>>

encodeList(list) ==
  BigEndian(Len(list)) \o
  FlattenSeq([i \in 1..Len(list) |-> BigEndian(Len(list[i])) \o list[i]])

Refused == [ok |-> FALSE, items |-> <<>>, offset |-> 0]

(* The decoder after n items: the next one needs a length field and as     *)
(* many bytes as it says.                                                  *)
DecodeItem(bytes, before) ==
  LET start == before.offset + Width
      length == Uint(SubSeq(bytes, before.offset + 1, start))
  IN  IF ~before.ok \/ start > Len(bytes) THEN Refused
      ELSE IF start + length > Len(bytes) THEN Refused
      ELSE [ok |-> TRUE, offset |-> start + length,
            items |-> Append(before.items, SubSeq(bytes, start + 1, start + length))]

DecodeKeepsTrailing(bytes) ==
  LET count == Uint(SubSeq(bytes, 1, Width))
      decoded[n \in 0..count] ==
        IF n = 0 THEN [ok |-> TRUE, items |-> <<>>, offset |-> Width]
        ELSE DecodeItem(bytes, decoded[n - 1])
  IN  IF Len(bytes) < Width THEN Refused ELSE decoded[count]

decodeList(bytes) ==
  LET count == Uint(SubSeq(bytes, 1, Width))
      decoded[n \in 0..count] ==
        IF n = 0 THEN [ok |-> TRUE, items |-> <<>>, offset |-> Width]
        ELSE DecodeItem(bytes, decoded[n - 1])
  IN  IF Len(bytes) < Width \/ count > (Len(bytes) - Width) \div Width THEN Refused
      ELSE IF decoded[count].offset # Len(bytes) THEN Refused
      ELSE decoded[count]

StartUnclamped(length, start, stop) ==
  LET from == IF start < 0 THEN length + start ELSE start
      to == IF stop < 0 THEN length + stop ELSE stop
  IN  [start |-> from, stop |-> IF to >= length THEN length - 1 ELSE to,
       ok |-> length > 0 /\ from >= 0 /\ from < length /\ to >= from]

normalizeRange(length, start, stop) ==
  LET from == IF start < 0 THEN length + start ELSE start
      to == IF stop < 0 THEN length + stop ELSE stop
      first == IF from < 0 THEN 0 ELSE from
      last == IF to >= length THEN length - 1 ELSE to
  IN  [start |-> first, stop |-> last, ok |-> length > 0 /\ first < length /\ last >= first]

(* LRange: items[start : stop+1] of Go, whose indices start at 0.          *)
LRange(list, start, stop) ==
  LET range == normalizeRange(Len(list), start, stop)
  IN  IF range.ok THEN SubSeq(list, range.start + 1, range.stop + 1) ELSE <<>>

-----------------------------------------------------------------------------
CodecInit == items = <<>> /\ data = <<>>

AddItem ==
  /\ data = <<>> /\ Len(items) < MaxItems
  /\ items' = Append(items, <<>>)
  /\ UNCHANGED data

GrowItem(b) ==
  /\ data = <<>> /\ items # <<>> /\ Len(FlattenSeq(items)) < MaxPayload
  /\ items' = [items EXCEPT ![Len(items)] = Append(@, b)]
  /\ UNCHANGED data

GrowData(b) ==
  /\ items = <<>> /\ Len(data) < MaxData
  /\ data' = Append(data, b)
  /\ UNCHANGED items

GrowBytes == AddItem \/ \E b \in Bytes : GrowItem(b) \/ GrowData(b)

-----------------------------------------------------------------------------
(* collections.go:297-340: decodeList is the inverse of encodeList.  What  *)
(* writeList stores, readList reads back, and everything that encodeList   *)
(* did not write is refused: truncated or trailing data, a count or a      *)
(* length that the data cannot hold.                                       *)
ListCodecIsExact ==
  /\ LET read == decodeList(encodeList(items)) IN read.ok /\ read.items = items
  /\ decodeList(data).ok => encodeList(decodeList(data).items) = data

(* collections.go:240-283: LRange returns the items whose index lies       *)
(* between the two bounds, both included, a negative bound counted from    *)
(* the end, for any two bounds.                                            *)
RangeIsInclusive ==
  \A start, stop \in Bounds :
    LET Index(b) == IF b < 0 THEN Len(items) + b ELSE b
        wanted == {i \in 1..Len(items) : Index(start) <= i - 1 /\ i - 1 <= Index(stop)}
    IN  LRange(items, start, stop) =
          IF wanted = {} THEN <<>> ELSE SubSeq(items, Min(wanted), Max(wanted))
=============================================================================
