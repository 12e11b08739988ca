---------------------------- MODULE AppSession ----------------------------
(***************************************************************************)
(* The connections of one application to its Redis, through the sidecar    *)
(* proxy (handleAppConn, proxy/go/proxy.go; handle_app_connection in       *)
(* proxy/python/proxy.py).  A handler reads a command, sends it on         *)
(* rewritten, and takes the next reply of its upstream connection for the  *)
(* answer.  Next to the Redis stands plain: the same commands, in the same *)
(* order, on a Redis the application has for itself and without a proxy.   *)
(***************************************************************************)
EXTENDS CommandRewrite, FiniteSets

CONSTANTS
    Conns, Vals,
    PeerVals,                 \* the values a sibling may have
    Nil, Ok, Error, Queued,   \* replies
    Argvs,                    \* Argvs[c]: the commands sent on c
    MaxRequests               \* bound: commands read

\* handleAppConn: len(argv) > 0.  What stands where the proxy expects a key
\* is one of Keys.
ASSUME SessionAssumption ==
    \A c \in Conns : \A argv \in Argvs[c] :
        /\ Len(argv) \in Nat \ {0} /\ DOMAIN argv = 1..Len(argv)
        /\ \A i \in KeyArgs(argv) : argv[i] \in Keys

VARIABLES
    redis, plain,
    replies,      \* replies[c]: upstream replies of c that were not read
    handler,      \* the handler of each connection
    indexed,      \* keys registerWrite was called with
    got,          \* the replies c's application got: to which of its commands,
                  \*   what they say, and what plain says in their place
    sent,         \* the commands read on c
    wrote,        \* history: keys that were ever written in redis,
    fetched,      \*   was a value fetched from a sibling,
    dropped       \*   and was a transaction dropped?

vars == <<redis, plain, replies, handler, indexed, got, sent, wrote, fetched, dropped>>

Redis == INSTANCE RedisServer WITH Names <- RedisKeys

Idle == [st |-> "idle", argv |-> <<>>, reply |-> Nil]

Init ==
    /\ redis = Redis!Started /\ plain = Redis!Started
    /\ replies = [c \in Conns |-> <<>>] /\ handler = [c \in Conns |-> Idle]
    /\ indexed = {} /\ got = [c \in Conns |-> <<>>] /\ sent = [c \in Conns |-> <<>>]
    /\ wrote = {} /\ fetched = FALSE /\ dropped = FALSE

\* What was read so far.
Requests == {r \in Conns \X (1..MaxRequests) : r[2] <= Len(sent[r[1]])}

\* The upstream connection is written to, and the Redis executes it.
Upstream(c, argv) ==
    LET served == Redis!Serve(redis, c, argv)
        writes == Redis!Run(redis.db, Redis!SetOff(redis, c, argv)).wrote
    IN /\ redis' = served.srv
       /\ wrote' = wrote \cup writes

\* The application's next command, of several it may have sent, is read,
\* rewritten and written upstream.
Request(c, argv) ==
    LET served == Redis!Serve(redis, c, Rewritten(argv)).out
        expected == Redis!Serve(plain, c, argv)
        n == Len(sent[c]) + 1
    IN /\ handler[c].st = "idle"
       /\ Cardinality(Requests) < MaxRequests
       /\ handler' = [handler EXCEPT ![c] = [Idle EXCEPT !.st = "reply", !.argv = argv]]
       /\ sent' = [sent EXCEPT ![c] = Append(@, argv)]
       /\ Upstream(c, Rewritten(argv)) /\ plain' = expected.srv
       /\ replies' = [replies EXCEPT ![c] = @ \o
              [i \in DOMAIN served |->
                  [of |-> n, val |-> served[i], plain |-> expected.out[i]]]]
       /\ dropped' = (\/ dropped
                      \/ argv[1] = "DISCARD"
                      \/ argv[1] = "EXEC" /\ (redis.dirty[c] \/ redis.aborted[c]))
       /\ UNCHANGED <<indexed, got, fetched>>

\* Mutant of Deliver: the handler waits for another reply.
DeliverAndWait(c, reply) ==
    /\ got' = [got EXCEPT ![c] = Append(@, reply)]
    /\ handler' = [handler EXCEPT ![c].st = "reply"]

\* A reply is written to the application.
Deliver(c, reply) ==
    /\ got' = [got EXCEPT ![c] = Append(@, reply)]
    /\ handler' = [handler EXCEPT ![c] = Idle]

\* Mutant of Receive: error replies are registered, too.
ReceiveAny(c) ==
    LET argv == handler[c].argv
        reply == Head(replies[c])
        keyed == Len(argv) >= 2
    IN /\ handler[c].st = "reply" /\ replies[c] # <<>>
       /\ replies' = [replies EXCEPT ![c] = Tail(@)]
       /\ indexed' = IF keyed /\ argv[1] \in WriteRegister
                     THEN indexed \cup {argv[2]} ELSE indexed
       /\ IF keyed /\ argv[1] \in ReadMiss /\ reply.val = Nil
          THEN /\ handler' = [handler EXCEPT ![c].st = "peers", ![c].reply = reply]
               /\ UNCHANGED got
          ELSE Deliver(c, reply)
       /\ UNCHANGED <<redis, plain, sent, wrote, fetched, dropped>>

\* One reply is read, whichever command it answers: a write that has not
\* failed is registered, and a null reply to a read sends for a sibling.
Receive(c) ==
    LET argv == handler[c].argv
        reply == Head(replies[c])
        keyed == Len(argv) >= 2
    IN /\ handler[c].st = "reply" /\ replies[c] # <<>>
       /\ replies' = [replies EXCEPT ![c] = Tail(@)]
       /\ indexed' = IF keyed /\ argv[1] \in WriteRegister /\ reply.val # Error
                     THEN indexed \cup {argv[2]} ELSE indexed
       /\ IF keyed /\ argv[1] \in ReadMiss /\ reply.val = Nil
          THEN /\ handler' = [handler EXCEPT ![c].st = "peers", ![c].reply = reply]
               /\ UNCHANGED got
          ELSE Deliver(c, reply)
       /\ UNCHANGED <<redis, plain, sent, wrote, fetched, dropped>>

\* peerFetchValue (see SidecarProxy) finds nothing,
FetchNone(c) ==
    /\ handler[c].st = "peers" /\ Deliver(c, handler[c].reply)
    /\ UNCHANGED <<redis, plain, replies, indexed, sent, wrote, fetched, dropped>>

\* or a value; it is written back.
Fetch(c) ==
    /\ handler[c].st = "peers"
    /\ \E v \in PeerVals :
         LET set == <<"SET", VersionPrefix(handler[c].argv[2]), v>>
             served == Redis!Serve(redis, c, set).out
         IN /\ Upstream(c, set)
            /\ replies' = [replies EXCEPT ![c] = @ \o
                   [i \in DOMAIN served |->
                       [of |-> 0, val |-> served[i], plain |-> served[i]]]]
            /\ handler' = [handler EXCEPT ![c].st = "writeback", ![c].reply.val = v]
    /\ fetched' = TRUE
    /\ UNCHANGED <<plain, indexed, got, sent, dropped>>

\* Mutant of EndWriteBack: the reply to the SET is not read.
EndWriteBackUnread(c) ==
    /\ handler[c].st = "writeback"
    /\ indexed' = indexed \cup {handler[c].argv[2]}
    /\ Deliver(c, handler[c].reply)
    /\ UNCHANGED <<redis, plain, replies, sent, wrote, fetched, dropped>>

\* The reply to the SET is read, the key registered, and the value is the
\* answer.
EndWriteBack(c) ==
    /\ handler[c].st = "writeback" /\ replies[c] # <<>>
    /\ replies' = [replies EXCEPT ![c] = Tail(@)]
    /\ indexed' = indexed \cup {handler[c].argv[2]}
    /\ Deliver(c, handler[c].reply)
    /\ UNCHANGED <<redis, plain, sent, wrote, fetched, dropped>>

-----------------------------------------------------------------------------
Handle(c) == Receive(c) \/ FetchNone(c) \/ Fetch(c) \/ EndWriteBack(c)

Next == \E c \in Conns : Handle(c) \/ \E argv \in Argvs[c] : Request(c, argv)

Spec == Init /\ [][Next]_vars

\* A handler runs when it can.
FairSpec == Spec /\ \A c \in Conns : WF_vars(Handle(c))

-----------------------------------------------------------------------------
Sent(cmds) == {c \in Conns : \E i \in DOMAIN sent[c] : sent[c][i][1] \in cmds}

\* Commands whose keys the proxy passes on as they are.
Unprefixed == {"WATCH", "PFCOUNT"}

\* proxy.go:601-608: reply n of a connection answers its command n, until a
\* command that has several replies, or none.
RepliesInOrder ==
    \A c \in Conns \ Sent({"SUBSCRIBE"}) : \A i \in DOMAIN got[c] : got[c][i].of = i

\* proxy.py:17-18, proxy.go:7-8: with one version and no sibling, the
\* application sees its own Redis: the proxy is not noticed.
Transparent ==
    ~fetched /\ Sent(Unprefixed) = {}
    => /\ \A k \in Keys : redis.db[VersionPrefix(k)] = plain.db[k]
       /\ \A c \in Conns : \A i \in DOMAIN got[c] : got[c][i].val = got[c][i].plain

\* proxy.go:610-615: what is registered was written here, or is queued in a
\* transaction; except in a transaction that was dropped.
IndexedWasWritten ==
    ~dropped /\ Sent({"SUBSCRIBE"}) = {}
    => \A k \in indexed :
         \/ VersionPrefix(k) \in wrote
         \/ \E c \in Conns : \E i \in DOMAIN redis.queue[c] :
              VersionPrefix(k) \in Redis!KeysOf(redis.queue[c][i])

\* Every command is answered, except after CLIENT REPLY OFF: the handler
\* waits for a reply that does not come.
CommandsAreAnswered ==
    \A c \in Conns :
        handler[c].st # "idle" ~> handler[c].st = "idle" \/ redis.silent[c]
=============================================================================
