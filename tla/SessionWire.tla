---------------------------- MODULE SessionWire ----------------------------
(***************************************************************************)
(* AppSession's replies and commands as RespFraming reads and writes them: *)
(* whatever bytes the values have.                                         *)
(***************************************************************************)
EXTENDS AppSession, RespFraming

LOCAL INSTANCE SequencesExt

CONSTANT Payloads   \* the bytes a value may have

\* Where a value stands in a command.
ValueArgs(argv) ==
    {i \in 3..Len(argv) : \/ argv[1] = "SET" /\ i = 3
                          \/ argv[1] = "MSET" /\ i % 2 = 1}

ASSUME WireAssumption ==
    /\ Payloads \subseteq Streams /\ PeerVals \subseteq Vals
    /\ \A c \in Conns : \A argv \in Argvs[c] : \A i \in ValueArgs(argv) : argv[i] \in Vals

Frame(value, wire) == [value |-> value, wire |-> wire]

\* The frames a Redis may send for a reply that is not an array,
ScalarFrames(reply) ==
    IF reply = Nil THEN {Frame(Null, <<h, -1, Crlf>>) : h \in {Star, Dollar}}
    ELSE IF reply \in {Ok, Queued} THEN {Frame(Bytes(<<Byte>>), <<Plus, Byte, Crlf>>)}
    ELSE IF reply = Error THEN {Frame(Bytes(<<Byte>>), <<Minus, Byte, Crlf>>)}
    ELSE IF reply \in Vals
         THEN {Frame(Bytes(p), <<Dollar, Len(p), Crlf>> \o p \o <<Crlf>>) : p \in Payloads}
    ELSE {Frame(Number(reply.int), <<Colon, reply.int, Crlf>>)}

\* an array of frames, one of each set,
ArrayFrames(sets) ==
    {Frame(Array([i \in DOMAIN f |-> f[i].value]),
           <<Star, Len(sets), Crlf>> \o FlattenSeq([i \in DOMAIN f |-> f[i].wire])) :
        f \in {g \in [DOMAIN sets -> UNION Range(sets)] : \A i \in DOMAIN g : g[i] \in sets[i]}}

IsArray(reply) ==
    reply \notin {Nil, Ok, Queued, Error} \cup Vals /\ "items" \in DOMAIN reply

\* for the reply to one command,
AnswerFrames(reply) ==
    IF IsArray(reply)
    THEN ArrayFrames([i \in DOMAIN reply.items |-> ScalarFrames(reply.items[i])])
    ELSE ScalarFrames(reply)

\* and for the reply to an EXEC, which has those of its commands.
FramesOf(reply) ==
    IF IsArray(reply)
    THEN ArrayFrames([i \in DOMAIN reply.items |-> AnswerFrames(reply.items[i])])
    ELSE ScalarFrames(reply)

\* The next reply to be read.
NextReplies == {Head(replies[c]).val : c \in {d \in Conns : replies[d] # <<>>}}

\* readResp takes one frame off the stream and nothing else, so that the
\* n-th one is the n-th command's (handleAppConn, proxy.go:601-608).
FramesAreReadBack ==
    \A reply \in NextReplies : \A f \in FramesOf(reply) :
        ReadResp(f.wire \o <<Plus>>) = Read(f.value, <<Plus>>)

\* A frame that has not all arrived when the connection ends is an error,
\* and nothing of it a reply (proxy.go:203-208).
CutFramesFail ==
    \A reply \in NextReplies : \A f \in FramesOf(reply) : \A n \in 1..(Len(f.wire) - 1) :
        ReadResp(SubSeq(f.wire, 1, n)) = Fails

\* The commands in hand, with any bytes for one of their words.
Words ==
    UNION {{[j \in DOMAIN handler[c].argv |-> IF j = i THEN p ELSE <<Byte>>] :
               i \in DOMAIN handler[c].argv, p \in Payloads}
           : c \in {d \in Conns : handler[d].st = "reply"}}

\* A command reaches the Redis, which reads it like this, as it was
\* written; its words are never taken for framing (proxy.go:596).
CommandsAreReadBack ==
    \A argv \in Words :
        LET read == ReadResp(EncodeArray(argv) \o <<Star>>) IN
        /\ read.rest = <<Star>> /\ IsArgv(read.value)
        /\ ArgvFromParsed(read.value) = argv
=============================================================================
