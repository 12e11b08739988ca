---------------------------- MODULE RespFraming ----------------------------
(***************************************************************************)
(* How the proxies read and write RESP (readResp, encodeArray and          *)
(* encodeBulk in proxy/go/proxy.go and proxy/python/proxy.py).  A stream   *)
(* is a sequence of symbols: the heads, line ends, numbers and bytes.  A   *)
(* number counts for one symbol; a payload is any sequence of symbols,     *)
(* line ends and heads included.                                           *)
(***************************************************************************)
EXTENDS Integers, Sequences, FiniteSets

LOCAL INSTANCE SequencesExt

CONSTANTS
    Star, Dollar, Plus, Minus, Colon,  \* heads
    Crlf, Byte                         \* a line end; any other byte

Symbols == {Star, Dollar, Plus, Minus, Colon, Crlf, Byte}
Streams == Seq(Symbols \cup Int)

ASSUME FramingAssumption ==
    LET all == <<Star, Dollar, Plus, Minus, Colon, Crlf, Byte>> IN
    /\ \A i, j \in 1..7 : all[i] = all[j] => i = j
    /\ \A symbol \in Symbols : symbol \notin Int

\* What readResp gives for a value: a byte slice, an integer, an array, nil.
Bytes(s) == [bytes |-> s]
Number(n) == [int |-> n]
Array(vs) == [items |-> vs]
Null == [nil |-> TRUE]

\* An error; what was read is lost.
Failed == [error |-> TRUE]

\* The stream s after a value has been read from it.
Read(value, rest) == [value |-> value, rest |-> rest]
Fails == Read(Failed, <<>>)

IsNumber(symbols) == Len(symbols) = 1 /\ symbols[1] \notin Symbols

-----------------------------------------------------------------------------
(* readResp.                                                               *)

\* ReadBytes('\n'): the length of the first line, 0 if there is none.
LineEnd(s) ==
    LET ends == {i \in DOMAIN s : s[i] = Crlf} IN
    IF ends = {} THEN 0 ELSE CHOOSE i \in ends : \A j \in ends : i <= j

\* Mutants of ReadBulk: the line end stays; a short read is taken for all.
ReadBulkKeepsCrlf(n, s) ==
    IF n < 0 THEN Read(Null, s)
    ELSE IF Len(s) < n + 1 THEN Fails
    ELSE Read(Bytes(SubSeq(s, 1, n)), SubSeq(s, n + 1, Len(s)))
ReadBulkShort(n, s) ==
    IF n < 0 THEN Read(Null, s)
    ELSE Read(Bytes(SubSeq(s, 1, IF n < Len(s) THEN n ELSE Len(s))),
              SubSeq(s, n + 2, Len(s)))

\* io.ReadFull of the payload, then of two bytes, whatever they are.
ReadBulk(n, s) ==
    IF n < 0 THEN Read(Null, s)
    ELSE IF Len(s) < n + 1 THEN Fails
    ELSE Read(Bytes(SubSeq(s, 1, n)), SubSeq(s, n + 2, Len(s)))

\* n items of an array, one after the other, as nested reads each of them;
\* one that fails is the array's failure.
ReadItems(nested, n, s) ==
    LET upto[i \in 0..n] ==
            IF i = 0 THEN Read(Array(<<>>), s)
            ELSE LET before == upto[i - 1]
                     item == nested[before.rest]
                 IN IF before.value = Failed \/ item.value = Failed THEN Fails
                    ELSE Read(Array(Append(before.value.items, item.value)), item.rest)
    IN upto[n]

\* One call of readResp; nested is what its calls of itself give.
ReadOne(nested, s) ==
    LET end == LineEnd(s)
        head == s[1]
        body == SubSeq(s, 2, end - 1)
        rest == SubSeq(s, end + 1, Len(s))
    IN CASE end = 0 -> Fails
         [] end > 0 /\ head \in {Star, Dollar, Colon} /\ ~IsNumber(body) -> Fails
         [] end > 0 /\ head = Star /\ IsNumber(body) ->
              IF body[1] < 0 THEN Read(Null, rest) ELSE ReadItems(nested, body[1], rest)
         [] end > 0 /\ head = Dollar /\ IsNumber(body) -> ReadBulk(body[1], rest)
         [] end > 0 /\ head = Colon /\ IsNumber(body) -> Read(Number(body[1]), rest)
         [] end > 0 /\ head \in {Plus, Minus} -> Read(Bytes(body), rest)
         \* An inline command, here of one word.
         [] end > 0 /\ head \notin {Star, Dollar, Colon, Plus, Minus} ->
              Read(Array(IF end = 1 THEN <<>> ELSE <<Bytes(SubSeq(s, 1, end - 1))>>), rest)

\* What readResp gives for each stream, where it calls itself to a depth.
Reader(depth) ==
    LET reader[d \in 0..depth] ==
            IF d = 0 THEN [s \in Streams |-> Fails]
            ELSE [s \in Streams |-> ReadOne(reader[d - 1], s)]
    IN reader[depth]

\* Every call takes a line off the stream: it has no more levels than symbols.
ReadResp(s) == Reader(Len(s))[s]

-----------------------------------------------------------------------------
EncodeBulk(value) ==
    IF value = Null THEN <<Dollar, -1, Crlf>>
    ELSE <<Dollar, Len(value.bytes), Crlf>> \o value.bytes \o <<Crlf>>

\* Mutant of EncodeArray: the first item is sent without its length.
EncodeArrayBare(items) ==
    <<Star, Len(items), Crlf>> \o FlattenSeq(
        [i \in DOMAIN items |-> IF i = 1 THEN <<Plus>> \o items[i] \o <<Crlf>>
                                ELSE EncodeBulk(Bytes(items[i]))])

EncodeArray(items) ==
    <<Star, Len(items), Crlf>>
        \o FlattenSeq([i \in DOMAIN items |-> EncodeBulk(Bytes(items[i]))])

\* argvFromParsed: ok only for an array, not empty, of byte slices.
IsArgv(value) ==
    /\ "items" \in DOMAIN value /\ value.items # <<>>
    /\ \A i \in DOMAIN value.items : "bytes" \in DOMAIN value.items[i]
ArgvFromParsed(value) == [i \in DOMAIN value.items |-> value.items[i].bytes]
=============================================================================
