------------------------------ MODULE RespCodec ------------------------------
(***************************************************************************)
(* The wire format of the Redis server (extensions/redis/resp.go): what    *)
(* readRESP makes of the bytes of a connection, and writeRESP of a reply.  *)
(*                                                                         *)
(* A byte is a one-character string, or "CR", or "LF".  A reply is chosen, *)
(* and the bytes that follow it on the connection grow.                    *)
(***************************************************************************)
EXTENDS Integers, Sequences, FiniteSetsExt, SequencesExt

CONSTANTS maxRESPLine, maxRESPBulk, maxRESPArgs,   \* 1 << 20, 64 << 20 and 1024
          Replies,      \* replies and requests
          Following,    \* bytes of what comes behind
          MaxTail       \* bound: how many of them

VARIABLES reply, tail

wire == <<reply, tail>>

CRLF == <<"CR", "LF">>
Breaks == {"CR", "LF"}
Blanks == {" ", "CR", "LF"}
Marks == {"+", "-", ":", "$", "*", "%"}

(* respValue.                                                              *)
Value(kind) == [kind |-> kind, data |-> <<>>, value |-> 0, items |-> <<>>, null |-> FALSE]
respText(kind, data) == [Value(kind) EXCEPT !.data = data]
respBulkBytes(data) == respText("$", data)
respIntegerValue(n) == [Value(":") EXCEPT !.value = n]
respNil == [Value("$") EXCEPT !.null = TRUE]
respItems(kind, items) == [Value(kind) EXCEPT !.items = items]

-----------------------------------------------------------------------------
(* strconv and strings.                                                    *)

Digits == <<"0", "1", "2", "3", "4", "5", "6", "7", "8", "9">>

RECURSIVE Decimal(_)
Decimal(n) ==
  IF n < 0 THEN <<"-">> \o Decimal(-n)
  ELSE IF n < 10 THEN <<Digits[n + 1]>>
  ELSE Append(Decimal(n \div 10), Digits[(n % 10) + 1])

ParseInt(line) ==
  LET signed == line # <<>> /\ line[1] \in {"+", "-"}
      digits == IF signed THEN Tail(line) ELSE line
      value[i \in 0..Len(digits)] ==
        IF i = 0 THEN 0
        ELSE value[i - 1] * 10 + (CHOOSE d \in 0..9 : Digits[d + 1] = digits[i])
  IN  IF digits = <<>> \/ ~(ToSet(digits) \subseteq ToSet(Digits)) THEN [ok |-> FALSE, value |-> 0]
      ELSE [ok |-> TRUE,
            value |-> IF signed /\ line[1] = "-" THEN -value[Len(digits)] ELSE value[Len(digits)]]

Fields(line) ==
  LET blank(i) == line[i] \in Blanks
      starts == {i \in DOMAIN line : ~blank(i) /\ (i = 1 \/ blank(i - 1))}
      end(i) == Max({j \in i..Len(line) : \A k \in i..j : ~blank(k)})
      from == SetToSortSeq(starts, LAMBDA i, j : i < j)
  IN  [n \in DOMAIN from |-> SubSeq(line, from[n], end(from[n]))]

-----------------------------------------------------------------------------
(* Reading.  A failed read closes the connection, so that what is left of  *)
(* the bytes matters only after one that succeeds.                         *)

Read(value, rest) == [ok |-> TRUE, value |-> value, rest |-> rest]
Failed == [ok |-> FALSE, value |-> respNil, rest |-> <<>>]

readRESPLine(bytes) ==
  LET ends == {i \in DOMAIN bytes : bytes[i] = "LF"}
      last == Min(ends)
  IN  IF ends = {} THEN Failed
      ELSE IF last < 2 \/ bytes[Max({1, last - 1})] # "CR" \/ last - 2 > maxRESPLine THEN Failed
      ELSE Read(SubSeq(bytes, 1, last - 2), SubSeq(bytes, last + 1, Len(bytes)))

readRESPInt(bytes) ==
  LET line == readRESPLine(bytes)
      parsed == ParseInt(line.value)
  IN  IF ~line.ok THEN Failed
      ELSE IF ~parsed.ok THEN Failed ELSE Read(parsed.value, line.rest)

readBulk(bytes) ==
  LET length == readRESPInt(bytes)
      end == length.value + 2
      rest == length.rest
  IN  IF ~length.ok THEN Failed
      ELSE IF length.value = -1 THEN Read(respNil, rest)
      ELSE IF length.value < 0 \/ length.value > maxRESPBulk \/ Len(rest) < end THEN Failed
      ELSE IF SubSeq(rest, end - 1, end) # CRLF THEN Failed
      ELSE Read(respBulkBytes(SubSeq(rest, 1, end - 2)), SubSeq(rest, end + 1, Len(rest)))

readText(prefix, bytes) ==
  LET line == readRESPLine(bytes)
  IN  IF line.ok THEN Read(respText(prefix, line.value), line.rest) ELSE Failed

readInteger(bytes) ==
  LET number == readRESPInt(bytes)
  IN  IF number.ok THEN Read(respIntegerValue(number.value), number.rest) ELSE Failed

(* A command line that is typed: its first byte has been read as a prefix. *)
readInline(prefix, bytes) ==
  LET line == readRESPLine(bytes)
      parts == Fields(<<prefix>> \o line.value)
  IN  IF ~line.ok THEN Failed
      ELSE IF parts = <<>> \/ Len(parts) > maxRESPArgs THEN Failed
      ELSE Read(respItems("*", [i \in DOMAIN parts |-> respBulkBytes(parts[i])]), line.rest)

RECURSIVE readRESP(_), readItems(_, _, _)
readItems(n, items, bytes) ==
  LET item == readRESP(bytes)
  IN  IF n = 0 THEN Read(items, bytes)
      ELSE IF ~item.ok THEN Failed
      ELSE IF item.value.null THEN Failed
      ELSE readItems(n - 1, Append(items, item.value), item.rest)

readRESP(bytes) ==
  LET prefix == Head(bytes)
      count == readRESPInt(Tail(bytes))
      read == readItems(IF prefix = "%" THEN 2 * count.value ELSE count.value, <<>>, count.rest)
  IN  CASE bytes = <<>> -> Failed
        [] bytes # <<>> /\ prefix \in {"*", "%"} ->
             IF ~count.ok THEN Failed
             ELSE IF count.value \notin 0..maxRESPArgs THEN Failed
             ELSE IF read.ok THEN Read(respItems(prefix, read.value), read.rest) ELSE Failed
        [] bytes # <<>> /\ prefix = "$" -> readBulk(Tail(bytes))
        [] bytes # <<>> /\ prefix = ":" -> readInteger(Tail(bytes))
        [] bytes # <<>> /\ prefix \in {"+", "-"} -> readText(prefix, Tail(bytes))
        [] OTHER -> readInline(prefix, Tail(bytes))

-----------------------------------------------------------------------------
(* Writing.                                                                *)

WriteVerbatim(kind, data) == <<kind>> \o data \o CRLF

writeText(kind, data) ==
  LET kept(b) == b \notin Breaks IN <<kind>> \o SelectSeq(data, kept) \o CRLF

RECURSIVE writeRESP(_)
writeRESP(v) ==
  CASE v.kind \in {"+", "-"} -> writeText(v.kind, v.data)
    [] v.kind = ":" -> <<":">> \o Decimal(v.value) \o CRLF
    [] v.null -> <<v.kind, "-", "1">> \o CRLF
    [] v.kind = "$" /\ ~v.null -> <<"$">> \o Decimal(Len(v.data)) \o CRLF \o v.data \o CRLF
    [] v.kind \in {"*", "%"} /\ ~v.null ->
         <<v.kind>>
         \o Decimal(IF v.kind = "%" THEN Len(v.items) \div 2 ELSE Len(v.items)) \o CRLF
         \o FlattenSeq([i \in DOMAIN v.items |-> writeRESP(v.items[i])])

-----------------------------------------------------------------------------
RespInit == reply = respNil /\ tail = <<>>

Send(v) ==
  /\ reply' = v
  /\ UNCHANGED tail

Follow(b) ==
  /\ Len(tail) < MaxTail
  /\ tail' = Append(tail, b)
  /\ UNCHANGED reply

GrowWire ==
  \/ reply = respNil /\ \E v \in Replies : Send(v)
  \/ reply # respNil /\ \E b \in Following : Follow(b)

-----------------------------------------------------------------------------
(* A value as its receiver is meant to get it: text without line breaks.   *)
RECURSIVE Stripped(_)
Stripped(v) ==
  [v EXCEPT !.data = IF v.kind \in {"+", "-"} THEN SelectSeq(@, LAMBDA b : b \notin Breaks) ELSE @,
            !.items = [i \in DOMAIN @ |-> Stripped(@[i])]]

(* What readRESP accepts; it reads requests, where nothing is null.        *)
RECURSIVE Readable(_)
Readable(v) ==
  /\ ~v.null /\ Len(v.items) <= maxRESPArgs
  /\ Len(v.data) <= IF v.kind = "$" THEN maxRESPBulk ELSE maxRESPLine
  /\ \A i \in DOMAIN v.items : Readable(v.items[i])

(* A command that can be typed, and what is typed; its first byte is not   *)
(* counted as part of the line.                                            *)
Typed(v) ==
  FlattenSeq([i \in DOMAIN v.items |-> (IF i = 1 THEN <<>> ELSE <<" ">>) \o v.items[i].data]) \o CRLF
Typable(v) ==
  /\ v.kind = "*" /\ v.items # <<>>
  /\ \A i \in DOMAIN v.items :
       /\ v.items[i].kind = "$" /\ v.items[i].data # <<>>
       /\ ToSet(v.items[i].data) \cap Blanks = {}
  /\ v.items[1].data[1] \notin Marks
  /\ Len(Typed(v)) - Len(<<"first", "CR", "LF">>) <= maxRESPLine

(* resp.go:35-176,178-242: a value that is written is read back alone and  *)
(* whole, and the bytes behind it are left for the next read, whatever     *)
(* bytes a payload holds and whatever text an error quotes; a typed        *)
(* command is read as the array a client library sends for it.             *)
StreamStaysFramed ==
  /\ Readable(reply) => readRESP(writeRESP(reply) \o tail) = Read(Stripped(reply), tail)
  /\ Readable(reply) /\ Typable(reply) => readRESP(Typed(reply) \o tail) = Read(reply, tail)
=============================================================================
