------------------------- MODULE AppSessionProofs -------------------------
(***************************************************************************)
(* Proofs about AppSession: replies stay paired with commands, what is     *)
(* registered was written, and the proxy is transparent.                   *)
(***************************************************************************)
EXTENDS AppSession, SequenceTheorems, FiniteSetTheorems, NaturalsInduction,
        WellFoundedInduction, TLAPS

\* Replies and handlers are records; what the replies say may be anything.
IsReply(r) == r = [of |-> r.of, val |-> r.val, plain |-> r.plain]
Logs(S) ==
    /\ \A r \in S : IsReply(r)
    /\ replies \in [Conns -> Seq(S)] /\ got \in [Conns -> Seq(S)]

IsHandler(h) ==
    /\ h = [st |-> h.st, argv |-> h.argv, reply |-> h.reply]
    /\ h.st \in {"peers", "writeback"} => IsReply(h.reply)
Handlers ==
    /\ DOMAIN handler = Conns /\ \A c \in Conns : IsHandler(handler[c])
    /\ handler = [c \in Conns |-> handler[c]]

AllArgvs == UNION {Argvs[c] : c \in Conns}
Types == (\E S : Logs(S)) /\ Handlers /\ sent \in [Conns -> Seq(AllArgvs)]

\* The application of c has not subscribed.
Quiet(c) == \A i \in DOMAIN sent[c] : sent[c][i][1] # "SUBSCRIBE"

\* The commands of c are answered but for the one in hand; the reply that
\* is read, or was, is its own, and no other is left behind.
Paired(c) ==
    /\ Len(sent[c]) = IF handler[c].st = "idle" THEN Len(got[c]) ELSE Len(got[c]) + 1
    /\ \A i \in DOMAIN got[c] : got[c][i].of = i
    /\ Len(replies[c]) <= 1
    /\ handler[c].st \in {"idle", "peers"} => replies[c] = <<>>
    /\ handler[c].st = "reply" => \A i \in DOMAIN replies[c] : replies[c][i].of = Len(sent[c])
    /\ handler[c].st \in {"peers", "writeback"} => handler[c].reply.of = Len(sent[c])

PairInv == Types /\ \A c \in Conns : Quiet(c) => Paired(c)

-----------------------------------------------------------------------------
LEMMA OneAnswerEach ==
    ASSUME NEW db, NEW commands
    PROVE  DOMAIN Redis!Run(db, commands).answers = DOMAIN commands
  BY DEF Redis!Run

\* Only SUBSCRIBE has several replies.
LEMMA OneReply ==
    ASSUME NEW s, NEW c, NEW argv, argv[1] # "SUBSCRIBE"
    PROVE  DOMAIN Redis!Serve(s, c, argv).out \in {1..0, 1..1}
  <1> DEFINE run == Redis!Run(s.db, Redis!SetOff(s, c, argv))
             out == Redis!Serve(s, c, argv).out
  <1>1. \/ argv[1] = "EXEC" /\ s.multi[c]
        \/ Redis!SetOff(s, c, argv) = <<>>
        \/ Redis!SetOff(s, c, argv) = <<argv>>
    BY DEF Redis!SetOff
  <1>2. (argv[1] = "EXEC" /\ s.multi[c]) \/ DOMAIN run.answers \in {1..0, 1..1}
    BY <1>1, OneAnswerEach
  <1> HIDE DEF run
  <1>3. \/ DOMAIN out \in {1..0, 1..1}
        \/ out = run.answers /\ ~(argv[1] = "EXEC" /\ s.multi[c])
    BY DEF run, Redis!Serve
  <1> QED
    BY <1>2, <1>3

\* A sequence with one more item, in a larger set.
LEMMA Appending ==
    ASSUME NEW S, NEW f \in [Conns -> Seq(S)], NEW c \in Conns, NEW e, NEW T, S \subseteq T,
           e \in T
    PROVE  /\ [f EXCEPT ![c] = Append(@, e)] \in [Conns -> Seq(T)]
           /\ f \in [Conns -> Seq(T)]
           /\ Len(Append(f[c], e)) = Len(f[c]) + 1 /\ Len(f[c]) \in Nat
           /\ DOMAIN Append(f[c], e) = 1..(Len(f[c]) + 1)
           /\ DOMAIN f[c] = 1..Len(f[c])
           /\ \A i \in 1..(Len(f[c]) + 1) :
                Append(f[c], e)[i] = IF i = Len(f[c]) + 1 THEN e ELSE f[c][i]
  <1>1. \A d \in Conns : f[d] \in Seq(T) /\ f[d] \in Seq(S)
    OBVIOUS
  <1>2. Append(f[c], e) \in Seq(T)
    BY <1>1
  <1>3. f \in [Conns -> Seq(T)] /\ [f EXCEPT ![c] = Append(@, e)] \in [Conns -> Seq(T)]
    BY <1>1, <1>2
  <1>4. Len(Append(f[c], e)) = Len(f[c]) + 1 /\ Len(f[c]) \in Nat
    BY <1>1
  <1>5. DOMAIN Append(f[c], e) = 1..(Len(f[c]) + 1) /\ DOMAIN f[c] = 1..Len(f[c])
    BY <1>1, <1>2, <1>4
  <1>6. \A i \in 1..(Len(f[c]) + 1) :
          Append(f[c], e)[i] = IF i = Len(f[c]) + 1 THEN e ELSE f[c][i]
    BY <1>1
  <1> QED
    BY <1>3, <1>4, <1>5, <1>6

\* A connection's step leaves the others alone.
LEMMA Locally ==
    ASSUME PairInv, NEW c \in Conns, Types',
           \A d \in Conns \ {c} :
              /\ sent'[d] = sent[d] /\ got'[d] = got[d]
              /\ replies'[d] = replies[d] /\ handler'[d] = handler[d],
           Quiet(c)' => Paired(c)'
    PROVE  PairInv'
  <1> SUFFICES ASSUME NEW d \in Conns, d # c, Quiet(d)' PROVE Paired(d)'
    BY DEF PairInv
  <1>1. Quiet(d)
    BY DEF Quiet
  <1>2. Paired(d)
    BY <1>1 DEF PairInv
  <1> QED
    BY <1>2 DEF Paired

LEMMA InitPairs == Init => PairInv
  <1> SUFFICES ASSUME Init PROVE PairInv
    OBVIOUS
  <1>1. Logs({})
    BY DEF Init, Logs
  <1>2. Handlers /\ sent \in [Conns -> Seq(AllArgvs)]
    BY DEF Init, Handlers, IsHandler, Idle
  <1>3. \A c \in Conns : Paired(c)
    BY DEF Init, Paired, Idle
  <1> QED
    BY <1>1, <1>2, <1>3 DEF PairInv, Types

\* The handler delivers the reply to the last command, and is idle.
LEMMA Delivering ==
    ASSUME PairInv, NEW c \in Conns, NEW r, IsReply(r), Deliver(c, r),
           handler[c].st # "idle",
           sent' = sent, NEW S, Logs(S), replies' \in [Conns -> Seq(S)],
           \A d \in Conns \ {c} : replies'[d] = replies[d],
           Quiet(c) => r.of = Len(sent[c]) /\ replies'[c] = <<>>
    PROVE  PairInv'
  <1> DEFINE T == S \cup {r}
  <1>1. Logs(S) /\ got \in [Conns -> Seq(S)]
    BY DEF Logs
  <1>2. /\ got' \in [Conns -> Seq(T)] /\ replies' \in [Conns -> Seq(T)]
        /\ Len(got'[c]) = Len(got[c]) + 1 /\ Len(got[c]) \in Nat
        /\ DOMAIN got'[c] = 1..(Len(got[c]) + 1) /\ DOMAIN got[c] = 1..Len(got[c])
        /\ \A i \in 1..(Len(got[c]) + 1) :
             got'[c][i] = IF i = Len(got[c]) + 1 THEN r ELSE got[c][i]
    <2>1. got' = [got EXCEPT ![c] = Append(@, r)]
      BY DEF Deliver
    <2>2. got'[c] = Append(got[c], r)
      BY <1>1, <2>1
    <2> QED
      BY <1>1, <2>1, <2>2, Appending
  <1>3. Logs(T)'
    BY <1>1, <1>2 DEF Logs
  <1>4. /\ Handlers' /\ handler'[c] = Idle
        /\ \A d \in Conns \ {c} : handler'[d] = handler[d] /\ got'[d] = got[d]
    BY <1>1 DEF Deliver, Handlers, IsHandler, Idle, PairInv, Types
  <1>5. Types'
    BY <1>3, <1>4 DEF PairInv, Types
  <1>6. Quiet(c)' => Paired(c)'
    <2> SUFFICES ASSUME Quiet(c) PROVE Paired(c)'
      BY DEF Quiet
    <2>1. Paired(c)
      BY DEF PairInv
    <2>2. Len(sent[c]) = Len(got[c]) + 1
      BY <2>1 DEF Paired
    <2>3. \A i \in DOMAIN got'[c] : got'[c][i].of = i
      <3> SUFFICES ASSUME NEW i \in 1..(Len(got[c]) + 1) PROVE got'[c][i].of = i
        BY <1>2
      <3>1. CASE i = Len(got[c]) + 1
        <4>1. got'[c][i] = r /\ r.of = Len(sent[c])
          BY <1>2, <3>1
        <4> QED
          BY <2>2, <3>1, <4>1
      <3>2. CASE i # Len(got[c]) + 1
        <4>1. i \in DOMAIN got[c] /\ got'[c][i] = got[c][i]
          BY <1>2, <3>2
        <4> QED
          BY <2>1, <4>1 DEF Paired
      <3> QED
        BY <3>1, <3>2
    <2>4. handler'[c].st = "idle" /\ Len(replies'[c]) = 0 /\ replies'[c] = <<>>
      BY <1>4 DEF Idle
    <2> QED
      BY <1>2, <2>2, <2>3, <2>4 DEF Paired
  <1> QED
    BY <1>4, <1>5, <1>6, Locally

\* What the Redis sends for a command of the application, or a SET.
LEMMA Served ==
    ASSUME NEW s, NEW c, NEW argv, NEW n \in Nat \ {0}, DOMAIN argv = 1..n, Len(argv) = n
    PROVE  \E m \in Nat : /\ DOMAIN Redis!Serve(s, c, argv).out = 1..m
                          /\ argv[1] # "SUBSCRIBE" => m <= 1
  <1>1. CASE argv[1] # "SUBSCRIBE"
    <2> DEFINE D == DOMAIN Redis!Serve(s, c, argv).out
    <2>1. D = 1..0 \/ D = 1..1
      BY <1>1, OneReply
    <2> HIDE DEF D
    <2>2. \E m \in Nat : D = 1..m /\ m <= 1
      <3>1. CASE D = 1..0
        <4> WITNESS 0 \in Nat
        <4> QED
          BY <3>1
      <3>2. CASE D = 1..1
        <4> WITNESS 1 \in Nat
        <4> QED
          BY <3>2
      <3> QED
        BY <2>1, <3>1, <3>2
    <2> QED
      BY <1>1, <2>2 DEF D
  <1>2. CASE argv[1] = "SUBSCRIBE"
    <2> DEFINE out == Redis!Serve(s, c, argv).out
               run == Redis!Run(s.db, Redis!SetOff(s, c, argv))
    <2>1. argv[1] # "EXEC" /\ (Redis!SetOff(s, c, argv) = <<>> \/ Redis!SetOff(s, c, argv) = <<argv>>)
      BY <1>2 DEF Redis!SetOff
    <2>2. DOMAIN run.answers \in {1..0, 1..1}
      BY <2>1, OneAnswerEach
    <2> HIDE DEF run
    <2>3. \/ DOMAIN out = 1..(n - 1) \/ DOMAIN out = 1..1 \/ DOMAIN out = 1..0
          \/ out = run.answers
      BY <1>2 DEF run, Redis!Serve
    <2>4. DOMAIN out = 1..(n - 1) \/ DOMAIN out = 1..1 \/ DOMAIN out = 1..0
      BY <2>2, <2>3
    <2>5. n - 1 \in Nat /\ 1 \in Nat /\ 0 \in Nat
      OBVIOUS
    <2> HIDE DEF out
    <2>6. \E m \in Nat : DOMAIN out = 1..m
      BY <2>4, <2>5
    <2> QED
      BY <1>2, <2>6 DEF out
  <1> QED
    BY <1>1, <1>2

\* Rewriting keeps the command and the number of its words.
LEMMA Rewriting ==
    ASSUME NEW c \in Conns, NEW argv \in Argvs[c]
    PROVE  /\ Len(argv) \in Nat \ {0} /\ DOMAIN Rewritten(argv) = 1..Len(argv)
           /\ Len(Rewritten(argv)) = Len(argv) /\ Rewritten(argv)[1] = argv[1]
  <1> DEFINE new == Rewritten(argv)
  <1>1. Len(argv) \in Nat \ {0} /\ DOMAIN argv = 1..Len(argv)
    BY SessionAssumption
  <1>2. /\ new = [i \in 1..Len(argv) |-> new[i]] /\ DOMAIN new = 1..Len(argv)
        /\ new[1] = argv[1]
    BY <1>1 DEF Rewritten, KeyArgs
  <1> HIDE DEF new
  <1> DEFINE W == {new[i] : i \in 1..Len(argv)}
  <1>3. \A i \in 1..Len(argv) : new[i] \in W
    OBVIOUS
  <1> HIDE DEF W
  <1>4. new \in Seq(W)
    BY <1>1, <1>2, <1>3
  <1>5. Len(new) = Len(argv)
    BY <1>1, <1>2, <1>4
  <1> QED
    BY <1>1, <1>2, <1>5 DEF new

\* Replies as a sequence,
LEMMA Listed ==
    ASSUME NEW m \in Nat, NEW T, NEW new \in [1..m -> T]
    PROVE  new \in Seq(T) /\ Len(new) = m /\ <<>> \o new = new
  <1>1. new \in Seq(T)
    OBVIOUS
  <1>2. Len(new) = m
    BY <1>1
  <1>3. <<>> \o new = new
    BY <1>1
  <1> QED
    BY <1>1, <1>2, <1>3

\* that follows those that have not been read.
LEMMA Following ==
    ASSUME NEW S, NEW f \in [Conns -> Seq(S)], NEW c \in Conns,
           NEW T, S \subseteq T, NEW new \in Seq(T)
    PROVE  [f EXCEPT ![c] = @ \o new] \in [Conns -> Seq(T)]
  <1>1. \A d \in Conns : f[d] \in Seq(T)
    <2> SUFFICES ASSUME NEW d \in Conns PROVE f[d] \in Seq(T)
      OBVIOUS
    <2>1. f[d] \in Seq(S)
      OBVIOUS
    <2> QED
      BY <2>1
  <1>2. f[c] \o new \in Seq(T)
    BY <1>1
  <1> QED
    BY <1>1, <1>2

-----------------------------------------------------------------------------
\* One action at a time.
LEMMA RequestInv ==
    ASSUME PairInv, NEW c \in Conns, NEW argv \in Argvs[c], Request(c, argv)
    PROVE  PairInv'
  <1> DEFINE n == Len(sent[c]) + 1
             served == Redis!Serve(redis, c, Rewritten(argv)).out
             expected == Redis!Serve(plain, c, argv)
             sends == [i \in DOMAIN served |->
                         [of |-> n, val |-> served[i], plain |-> expected.out[i]]]
  <1>1. PICK m \in Nat : /\ DOMAIN served = 1..m
                         /\ argv[1] # "SUBSCRIBE" => m <= 1
    BY Rewriting, Served
  <1>a. PICK new : new = sends
    OBVIOUS
  <1>2. /\ DOMAIN new = 1..m /\ new = [i \in 1..m |-> new[i]]
        /\ \A i \in 1..m : IsReply(new[i]) /\ new[i].of = n
    <2> HIDE DEF served, expected
    <2> QED
      BY <1>a, <1>1 DEF IsReply
  <1>3. replies' = [replies EXCEPT ![c] = @ \o new]
    BY <1>a DEF Request
  <1>4. /\ handler[c].st = "idle" /\ sent' = [sent EXCEPT ![c] = Append(@, argv)]
        /\ handler' = [handler EXCEPT ![c] = [Idle EXCEPT !.st = "reply", !.argv = argv]]
        /\ got' = got
    BY DEF Request
  <1>5. PICK S : Logs(S)
    BY DEF PairInv, Types
  <1> HIDE DEF sends, served, expected
  <1>t. PICK T : T = S \cup {new[i] : i \in 1..m}
    OBVIOUS
  <1>6. /\ replies' \in [Conns -> Seq(T)] /\ \A d \in Conns \ {c} : replies'[d] = replies[d]
        /\ Len(new) = m /\ (replies[c] = <<>> => replies'[c] = new)
    <2>1. S \subseteq T /\ \A i \in 1..m : new[i] \in T
      BY <1>t
    <2>2. replies \in [Conns -> Seq(S)]
      BY <1>5 DEF Logs
    <2>3. new \in [1..m -> T]
      BY <1>2, <2>1
    <2>4. new \in Seq(T) /\ Len(new) = m /\ <<>> \o new = new
      BY <1>1, <2>3, Listed
    <2>5. [replies EXCEPT ![c] = @ \o new] \in [Conns -> Seq(T)]
      BY <2>1, <2>2, <2>4, Following
    <2> QED
      BY <1>3, <2>2, <2>4, <2>5
  <1>7. Logs(T)'
    <2>1. \A r \in T : IsReply(r)
      BY <1>2, <1>5, <1>t DEF Logs
    <2>2. S \subseteq T
      BY <1>t
    <2>3. \A d \in Conns : got[d] \in Seq(T)
      <3> SUFFICES ASSUME NEW d \in Conns PROVE got[d] \in Seq(T)
        OBVIOUS
      <3> QED
        BY <1>5, <2>2 DEF Logs
    <2>4. got' \in [Conns -> Seq(T)]
      BY <1>4, <1>5, <2>3 DEF Logs
    <2> QED
      BY <1>6, <2>1, <2>4 DEF Logs
  <1>8. /\ sent' \in [Conns -> Seq(AllArgvs)] /\ \A d \in Conns \ {c} : sent'[d] = sent[d]
        /\ sent'[c] = Append(sent[c], argv) /\ Len(sent[c]) \in Nat
        /\ Len(sent'[c]) = Len(sent[c]) + 1
        /\ DOMAIN sent'[c] = 1..n /\ DOMAIN sent[c] = 1..Len(sent[c])
        /\ \A i \in 1..n : sent'[c][i] = IF i = n THEN argv ELSE sent[c][i]
    <2>1. argv \in AllArgvs /\ sent \in [Conns -> Seq(AllArgvs)]
      BY DEF AllArgvs, PairInv, Types
    <2> HIDE DEF n
    <2>2. sent'[c] = Append(sent[c], argv) /\ \A d \in Conns \ {c} : sent'[d] = sent[d]
      BY <1>4, <2>1
    <2> QED
      BY <1>4, <2>1, <2>2, Appending DEF n
  <1>9. /\ Handlers' /\ handler'[c].st = "reply"
        /\ \A d \in Conns \ {c} : handler'[d] = handler[d]
    BY <1>4 DEF PairInv, Types, Handlers, IsHandler, Idle
  <1>10. Types'
    BY <1>7, <1>8, <1>9 DEF Types
  <1>11. Quiet(c)' => Paired(c)'
    <2> SUFFICES ASSUME Quiet(c)' PROVE Paired(c)'
      OBVIOUS
    <2>1. argv[1] # "SUBSCRIBE"
      <3>1. n \in 1..n /\ sent'[c][n] = argv
        BY <1>8
      <3> QED
        BY <1>8, <3>1 DEF Quiet
    <2>2. Quiet(c)
      <3> SUFFICES ASSUME NEW i \in 1..Len(sent[c]) PROVE sent[c][i][1] # "SUBSCRIBE"
        BY <1>8 DEF Quiet
      <3>1. i \in 1..n /\ sent'[c][i] = sent[c][i]
        BY <1>8
      <3> QED
        BY <1>8, <3>1 DEF Quiet
    <2>3. Paired(c)
      BY <2>2 DEF PairInv
    <2>4. replies'[c] = new /\ m <= 1
      BY <1>1, <1>4, <1>6, <2>1, <2>3 DEF Paired
    <2>5. Len(sent'[c]) = Len(got[c]) + 1 /\ Len(sent'[c]) = n
      BY <1>4, <1>8, <2>3 DEF Paired
    <2>6. \A i \in DOMAIN got[c] : got[c][i].of = i
      BY <2>3 DEF Paired
    <2> QED
      BY <1>2, <1>4, <1>6, <1>9, <2>4, <2>5, <2>6 DEF Paired
  <1> QED
    BY <1>4, <1>6, <1>8, <1>9, <1>10, <1>11, Locally

\* The next reply is taken off a connection.
LEMMA Taking ==
    ASSUME NEW S, NEW f \in [Conns -> Seq(S)], NEW c \in Conns, f[c] # <<>>
    PROVE  /\ [f EXCEPT ![c] = Tail(@)] \in [Conns -> Seq(S)]
           /\ Head(f[c]) \in S /\ Head(f[c]) = f[c][1] /\ 1 \in DOMAIN f[c]
           /\ Len(f[c]) <= 1 => Tail(f[c]) = <<>>
  <1>1. f[c] \in Seq(S)
    OBVIOUS
  <1>2. Tail(f[c]) \in Seq(S) /\ Len(f[c]) \in Nat \ {0}
    BY <1>1
  <1>3. [f EXCEPT ![c] = Tail(@)] \in [Conns -> Seq(S)]
    BY <1>2
  <1>4. Head(f[c]) \in S /\ Head(f[c]) = f[c][1] /\ 1 \in DOMAIN f[c]
    BY <1>1, <1>2
  <1>5. Len(f[c]) <= 1 => Tail(f[c]) = <<>>
    BY <1>1, <1>2
  <1> QED
    BY <1>3, <1>4, <1>5

\* A handler goes on, with a reply in hand.
LEMMA InHand ==
    ASSUME NEW h, NEW st, NEW argv, NEW reply, IsReply(reply),
           h = [st |-> st, argv |-> argv, reply |-> reply]
    PROVE  IsHandler(h) /\ h.st = st /\ h.reply = reply
  BY DEF IsHandler

LEMMA Handling ==
    ASSUME Handlers, NEW c \in Conns, NEW st \in {"peers", "writeback"},
           NEW reply, IsReply(reply),
           handler' = [handler EXCEPT ![c].st = st, ![c].reply = reply]
    PROVE  /\ handler'[c].st = st /\ handler'[c].reply = reply /\ Handlers'
           /\ \A d \in Conns \ {c} : handler'[d] = handler[d]
  <1>1. DOMAIN handler = Conns /\ handler[c] = [st |-> handler[c].st, argv |-> handler[c].argv,
                                               reply |-> handler[c].reply]
    BY DEF Handlers, IsHandler
  <1>2. handler'[c] = [st |-> st, argv |-> handler[c].argv, reply |-> reply]
    BY <1>1
  <1>3. \A d \in Conns \ {c} : handler'[d] = handler[d]
    BY <1>1
  <1>4. DOMAIN handler' = Conns /\ handler' = [d \in Conns |-> handler'[d]]
    BY <1>1
  <1>5. IsHandler(handler'[c]) /\ handler'[c].st = st /\ handler'[c].reply = reply
    BY <1>2, InHand, Zenon
  <1>6. \A d \in Conns \ {c} : IsHandler(handler'[d])
    BY <1>3 DEF Handlers
  <1>7. Handlers'
    BY <1>4, <1>5, <1>6 DEF Handlers
  <1> QED
    BY <1>3, <1>5, <1>7, Zenon

LEMMA ReceiveInv ==
    ASSUME PairInv, NEW c \in Conns, Receive(c)
    PROVE  PairInv'
  <1>1. PICK S : Logs(S)
    BY DEF PairInv, Types
  <1>2. PICK reply : reply = Head(replies[c])
    OBVIOUS
  <1>3. /\ handler[c].st = "reply" /\ sent' = sent
        /\ replies' = [replies EXCEPT ![c] = Tail(@)] /\ replies[c] # <<>>
    BY DEF Receive
  <1>4. /\ replies' \in [Conns -> Seq(S)] /\ \A d \in Conns \ {c} : replies'[d] = replies[d]
        /\ replies'[c] = Tail(replies[c])
        /\ reply \in S /\ reply = replies[c][1] /\ 1 \in DOMAIN replies[c]
        /\ Len(replies[c]) <= 1 => Tail(replies[c]) = <<>>
    <2>1. replies \in [Conns -> Seq(S)]
      BY <1>1 DEF Logs
    <2>2. /\ [replies EXCEPT ![c] = Tail(@)] \in [Conns -> Seq(S)]
          /\ Head(replies[c]) \in S /\ Head(replies[c]) = replies[c][1]
          /\ 1 \in DOMAIN replies[c]
          /\ Len(replies[c]) <= 1 => Tail(replies[c]) = <<>>
      BY <1>3, <2>1, Taking
    <2> QED
      BY <1>2, <1>3, <2>1, <2>2
  <1>5. IsReply(reply)
    BY <1>1, <1>4 DEF Logs
  <1>6. Quiet(c) => reply.of = Len(sent[c]) /\ replies'[c] = <<>>
    BY <1>3, <1>4 DEF PairInv, Paired
  <1>7. CASE Deliver(c, reply)
    BY <1>1, <1>3, <1>4, <1>5, <1>6, <1>7, Delivering
  <1>8. CASE /\ handler' = [handler EXCEPT ![c].st = "peers", ![c].reply = reply]
             /\ got' = got
    <2>1. /\ handler'[c].st = "peers" /\ handler'[c].reply = reply /\ Handlers'
          /\ \A d \in Conns \ {c} : handler'[d] = handler[d]
      BY <1>5, <1>8, Handling DEF PairInv, Types
    <2>2. Logs(S)'
      BY <1>1, <1>4, <1>8 DEF Logs
    <2>3. Types'
      BY <1>3, <2>1, <2>2 DEF Types, PairInv
    <2>4. Quiet(c)' => Paired(c)'
      <3> SUFFICES ASSUME Quiet(c) PROVE Paired(c)'
        BY <1>3 DEF Quiet
      <3>1. Paired(c) /\ replies'[c] = <<>> /\ Len(replies'[c]) = 0 /\ reply.of = Len(sent[c])
        BY <1>6 DEF PairInv
      <3> QED
        BY <1>3, <1>8, <2>1, <3>1 DEF Paired
    <2> QED
      BY <1>3, <1>4, <1>8, <2>1, <2>3, <2>4, Locally
  <1> QED
    BY <1>2, <1>7, <1>8 DEF Receive

LEMMA FetchNoneInv ==
    ASSUME PairInv, NEW c \in Conns, FetchNone(c)
    PROVE  PairInv'
  <1>1. PICK S : Logs(S)
    BY DEF PairInv, Types
  <1>2. PICK reply : reply = handler[c].reply
    OBVIOUS
  <1>3. /\ handler[c].st = "peers" /\ Deliver(c, reply) /\ sent' = sent /\ replies' = replies
    BY <1>2 DEF FetchNone
  <1>4. IsReply(reply)
    BY <1>2, <1>3 DEF PairInv, Types, Handlers, IsHandler
  <1>5. Quiet(c) => reply.of = Len(sent[c]) /\ replies'[c] = <<>>
    BY <1>2, <1>3 DEF PairInv, Paired
  <1>6. replies' \in [Conns -> Seq(S)]
    BY <1>1, <1>3 DEF Logs
  <1> QED
    BY <1>1, <1>3, <1>4, <1>5, <1>6, Delivering

LEMMA EndWriteBackInv ==
    ASSUME PairInv, NEW c \in Conns, EndWriteBack(c)
    PROVE  PairInv'
  <1>1. PICK S : Logs(S)
    BY DEF PairInv, Types
  <1>2. PICK reply : reply = handler[c].reply
    OBVIOUS
  <1>3. /\ handler[c].st = "writeback" /\ Deliver(c, reply) /\ sent' = sent
        /\ replies' = [replies EXCEPT ![c] = Tail(@)] /\ replies[c] # <<>>
    BY <1>2 DEF EndWriteBack
  <1>4. /\ replies' \in [Conns -> Seq(S)] /\ \A d \in Conns \ {c} : replies'[d] = replies[d]
        /\ replies'[c] = Tail(replies[c])
        /\ Len(replies[c]) <= 1 => Tail(replies[c]) = <<>>
    <2>1. replies \in [Conns -> Seq(S)]
      BY <1>1 DEF Logs
    <2>2. /\ [replies EXCEPT ![c] = Tail(@)] \in [Conns -> Seq(S)]
          /\ Len(replies[c]) <= 1 => Tail(replies[c]) = <<>>
      BY <1>3, <2>1, Taking
    <2> QED
      BY <1>3, <2>1, <2>2
  <1>5. IsReply(reply)
    BY <1>2, <1>3 DEF PairInv, Types, Handlers, IsHandler
  <1>6. Quiet(c) => reply.of = Len(sent[c]) /\ replies'[c] = <<>>
    BY <1>2, <1>3, <1>4 DEF PairInv, Paired
  <1> QED
    BY <1>1, <1>3, <1>4, <1>5, <1>6, Delivering

LEMMA FetchInv ==
    ASSUME PairInv, NEW c \in Conns, Fetch(c)
    PROVE  PairInv'
  <1>1. PICK v \in PeerVals :
          LET set == <<"SET", VersionPrefix(handler[c].argv[2]), v>>
              served == Redis!Serve(redis, c, set).out
          IN /\ replies' = [replies EXCEPT ![c] = @ \o
                    [i \in DOMAIN served |->
                        [of |-> 0, val |-> served[i], plain |-> served[i]]]]
             /\ handler' = [handler EXCEPT ![c].st = "writeback", ![c].reply.val = v]
    BY DEF Fetch
  <1> DEFINE set == <<"SET", VersionPrefix(handler[c].argv[2]), v>>
             served == Redis!Serve(redis, c, set).out
             sends == [i \in DOMAIN served |->
                         [of |-> 0, val |-> served[i], plain |-> served[i]]]
  <1>2. PICK m \in Nat : DOMAIN served = 1..m /\ m <= 1
    <2>1. DOMAIN set = 1..3 /\ Len(set) = 3 /\ set[1] # "SUBSCRIBE" /\ 3 \in Nat \ {0}
      OBVIOUS
    <2> HIDE DEF set
    <2> QED
      BY <2>1, Served
  <1>3. /\ handler[c].st = "peers" /\ sent' = sent /\ got' = got
    BY DEF Fetch
  <1>4. replies' = [replies EXCEPT ![c] = @ \o sends]
    BY <1>1
  <1>5. handler' = [handler EXCEPT ![c].st = "writeback", ![c].reply.val = v]
    BY <1>1
  <1>6. PICK new : new = sends
    OBVIOUS
  <1>7. /\ DOMAIN new = 1..m /\ new = [i \in 1..m |-> new[i]]
        /\ \A i \in 1..m : IsReply(new[i])
    <2> HIDE DEF served
    <2> QED
      BY <1>2, <1>6 DEF IsReply
  <1> HIDE DEF sends
  <1>8. PICK S : Logs(S)
    BY DEF PairInv, Types
  <1>9. PICK T : T = S \cup {new[i] : i \in 1..m}
    OBVIOUS
  <1>10. S \subseteq T /\ new \in [1..m -> T] /\ \A r \in T : IsReply(r)
    BY <1>7, <1>8, <1>9 DEF Logs
  <1>11. new \in Seq(T) /\ Len(new) = m /\ <<>> \o new = new
    BY <1>2, <1>10, Listed
  <1>12. /\ replies' \in [Conns -> Seq(T)] /\ \A d \in Conns \ {c} : replies'[d] = replies[d]
         /\ (replies[c] = <<>> => replies'[c] = new)
    <2>1. replies \in [Conns -> Seq(S)]
      BY <1>8 DEF Logs
    <2>2. [replies EXCEPT ![c] = @ \o new] \in [Conns -> Seq(T)]
      BY <1>10, <1>11, <2>1, Following
    <2> QED
      BY <1>4, <1>6, <1>11, <2>1, <2>2
  <1>13. Logs(T)'
    <2>1. got \in [Conns -> Seq(S)]
      BY <1>8 DEF Logs
    <2>2. got \in [Conns -> Seq(T)]
      <3>1. \A d \in Conns : got[d] \in Seq(T)
        <4> SUFFICES ASSUME NEW d \in Conns PROVE got[d] \in Seq(T)
          OBVIOUS
        <4> QED
          BY <1>10, <2>1
      <3> QED
        BY <2>1, <3>1
    <2> QED
      BY <1>3, <1>10, <1>12, <2>2 DEF Logs
  <1>14. PICK reply : reply = [of |-> handler[c].reply.of, val |-> v,
                               plain |-> handler[c].reply.plain]
    OBVIOUS
  <1>15. IsReply(reply) /\ reply.of = handler[c].reply.of
    BY <1>14 DEF IsReply
  <1>16. handler' = [handler EXCEPT ![c].st = "writeback", ![c].reply = reply]
    <2>1. handler[c].reply = [of |-> handler[c].reply.of, val |-> handler[c].reply.val,
                              plain |-> handler[c].reply.plain]
      BY <1>3 DEF PairInv, Types, Handlers, IsHandler, IsReply
    <2>2. [handler[c].reply EXCEPT !.val = v] = reply
      BY <1>14, <2>1
    <2>3. handler[c] = [st |-> handler[c].st, argv |-> handler[c].argv,
                        reply |-> handler[c].reply]
      BY DEF PairInv, Types, Handlers, IsHandler
    <2>4. [handler[c] EXCEPT !.st = "writeback", !.reply.val = v]
            = [handler[c] EXCEPT !.st = "writeback", !.reply = reply]
      BY <2>2, <2>3
    <2>5. DOMAIN handler = Conns
      BY DEF PairInv, Types, Handlers
    <2> QED
      BY <1>5, <2>4, <2>5
  <1>17. /\ handler'[c].st = "writeback" /\ handler'[c].reply = reply /\ Handlers'
         /\ \A d \in Conns \ {c} : handler'[d] = handler[d]
    BY <1>15, <1>16, Handling DEF PairInv, Types
  <1>18. Types'
    BY <1>3, <1>13, <1>17 DEF Types, PairInv
  <1>19. Quiet(c)' => Paired(c)'
    <2> SUFFICES ASSUME Quiet(c) PROVE Paired(c)'
      BY <1>3 DEF Quiet
    <2>1. Paired(c)
      BY DEF PairInv
    <2>2. replies[c] = <<>> /\ handler[c].reply.of = Len(sent[c])
      BY <1>3, <2>1 DEF Paired
    <2>3. Len(replies'[c]) <= 1
      BY <1>2, <1>11, <1>12, <2>2
    <2> QED
      BY <1>3, <1>15, <1>17, <2>1, <2>2, <2>3 DEF Paired
  <1> QED
    BY <1>3, <1>12, <1>17, <1>18, <1>19, Locally

-----------------------------------------------------------------------------
LEMMA NextPairs == PairInv /\ [Next]_vars => PairInv'
  <1> SUFFICES ASSUME PairInv, [Next]_vars PROVE PairInv'
    OBVIOUS
  <1>1. CASE Next
    BY <1>1, RequestInv, ReceiveInv, FetchNoneInv, FetchInv, EndWriteBackInv
       DEF Next, Handle
  <1>2. CASE UNCHANGED vars
    BY <1>2 DEF vars, PairInv, Types, Logs, Handlers, Quiet, Paired
  <1> QED
    BY <1>1, <1>2

\* Reply n of a connection that has not subscribed answers its command n,
\* for any connections, commands, keys and values (proxy.go:601-608).
THEOREM RepliesStayPaired == Spec => []RepliesInOrder
  <1>1. PairInv => RepliesInOrder
    <2> SUFFICES ASSUME PairInv, NEW c \in Conns \ Sent({"SUBSCRIBE"})
                 PROVE  \A i \in DOMAIN got[c] : got[c][i].of = i
      BY DEF RepliesInOrder
    <2>1. Quiet(c)
      BY DEF Sent, Quiet
    <2> QED
      BY <2>1 DEF PairInv, Paired
  <1> QED
    BY <1>1, InitPairs, NextPairs, PTL DEF Spec

-----------------------------------------------------------------------------
\* A set of numbers has a least one: induction over the commands of a
\* transaction is done with it.
LEMMA LeastNumber ==
    ASSUME NEW T, T \subseteq Nat, T # {}
    PROVE  \E m \in T : \A k \in T : m <= k
  <1> DEFINE R == {ss \in Nat \X Nat : ss[1] < ss[2]}
  <1>1. IsWellFoundedOn(R, Nat)
    BY NatLessThanWellFounded DEF OpToRel
  <1>2. PICK m \in T : \A k \in T : ~(<<k, m>> \in R)
    <2> HIDE DEF R
    <2> QED
      BY <1>1, WFMin
  <1>3. \A k \in T : ~(k < m)
    BY <1>2
  <1>4. \A k \in T : k \in Nat /\ m \in Nat
    OBVIOUS
  <1>5. \A k \in T : m <= k
    BY <1>3, <1>4
  <1> QED
    BY <1>5

\* f is what the first n commands leave, one after the other.
Steps(f, db, commands, n) ==
    f = [i \in 0..n |-> IF i = 0 THEN db ELSE Redis!Effect(f[i - 1], commands[i])]

LEMMA StepsExtend ==
    ASSUME NEW db, NEW commands, NEW n \in Nat, NEW f, Steps(f, db, commands, n)
    PROVE  \E g : Steps(g, db, commands, n + 1)
  <1> DEFINE g == [i \in 0..(n + 1) |-> IF i = n + 1 THEN Redis!Effect(f[n], commands[n + 1])
                                        ELSE f[i]]
  <1>1. \A i \in 0..(n + 1) :
          g[i] = IF i = 0 THEN db ELSE Redis!Effect(g[i - 1], commands[i])
    <2> SUFFICES ASSUME NEW i \in 0..(n + 1)
                 PROVE  g[i] = IF i = 0 THEN db ELSE Redis!Effect(g[i - 1], commands[i])
      OBVIOUS
    <2>1. CASE i = n + 1
      BY <2>1
    <2>2. CASE i # n + 1
      <3>1. i \in 0..n /\ g[i] = f[i] /\ (i # 0 => i - 1 \in 0..n /\ g[i - 1] = f[i - 1])
        BY <2>2
      <3>2. f[i] = IF i = 0 THEN db ELSE Redis!Effect(f[i - 1], commands[i])
        BY <3>1 DEF Steps
      <3> QED
        BY <3>1, <3>2
    <2> QED
      BY <2>1, <2>2
  <1>2. Steps(g, db, commands, n + 1)
    <2>1. g = [i \in 0..(n + 1) |-> g[i]]
      OBVIOUS
    <2> HIDE DEF g
    <2> QED
      BY <1>1, <2>1 DEF Steps
  <1> QED
    BY <1>2

\* What a list of commands leaves is well defined.
LEMMA StepsExist ==
    ASSUME NEW db, NEW commands, NEW n \in Nat
    PROVE  \E f : Steps(f, db, commands, n)
  <1> DEFINE T == {m \in Nat : ~\E f : Steps(f, db, commands, m)}
  <1>1. CASE T = {}
    BY <1>1
  <1>2. CASE T # {}
    <2> HIDE DEF T
    <2>1. T \subseteq Nat
      BY DEF T
    <2>2. PICK m \in T : \A k \in T : m <= k
      BY <1>2, <2>1, LeastNumber
    <2>3. m # 0
      <3> DEFINE f == [i \in 0..0 |-> db]
      <3>1. Steps(f, db, commands, 0)
        BY DEF Steps
      <3> QED
        BY <3>1 DEF T
    <2>4. m - 1 \in Nat /\ m - 1 \notin T /\ (m - 1) + 1 = m
      BY <2>1, <2>2, <2>3
    <2>5. PICK f : Steps(f, db, commands, m - 1)
      BY <2>4 DEF T
    <2>6. \E g : Steps(g, db, commands, m)
      BY <2>4, <2>5, StepsExtend
    <2> QED
      BY <2>6 DEF T
  <1> QED
    BY <1>1, <1>2

LEMMA AfterSteps ==
    ASSUME NEW db, NEW commands, NEW n \in Nat, Len(commands) = n
    PROVE  Steps(Redis!After(db, commands), db, commands, n)
  <1>1. PICK f : Steps(f, db, commands, n)
    BY StepsExist
  <1> QED
    BY <1>1 DEF Steps, Redis!After

\* The keys of the server stay.
LEMMA EffectKeys ==
    ASSUME NEW db, NEW argv
    PROVE  DOMAIN Redis!Effect(db, argv) = DOMAIN db
  BY DEF Redis!Effect

LEMMA AfterKeys ==
    ASSUME NEW db, NEW commands, NEW n \in Nat, Len(commands) = n
    PROVE  \A i \in 0..n : DOMAIN Redis!After(db, commands)[i] = DOMAIN db
  <1> DEFINE f == Redis!After(db, commands)
             T == {m \in Nat : m <= n /\ DOMAIN f[m] # DOMAIN db}
  <1>1. /\ f[0] = db
        /\ \A i \in 1..n : f[i] = Redis!Effect(f[i - 1], commands[i])
    <2>1. Steps(f, db, commands, n)
      BY AfterSteps
    <2> HIDE DEF f
    <2> QED
      BY <2>1 DEF Steps
  <1> HIDE DEF f, T
  <1>2. CASE T # {}
    <2>1. T \subseteq Nat
      BY DEF T
    <2>2. PICK m \in T : \A k \in T : m <= k
      BY <1>2, <2>1, LeastNumber
    <2>3. m \in 1..n /\ m - 1 \in Nat /\ m - 1 <= n /\ m - 1 \notin T
      BY <1>1, <2>2 DEF T
    <2>4. DOMAIN f[m - 1] = DOMAIN db /\ DOMAIN f[m] # DOMAIN db
      BY <2>2, <2>3 DEF T
    <2> QED
      BY <1>1, <2>3, <2>4, EffectKeys
  <1> QED
    BY <1>2 DEF T, f

-----------------------------------------------------------------------------
\* A SET that is run is counted as a write,
LEMMA SetWrites ==
    ASSUME NEW db, NEW commands, NEW n \in Nat, Len(commands) = n, DOMAIN commands = 1..n,
           NEW i \in 1..n, commands[i][1] = "SET", commands[i][2] \in DOMAIN db
    PROVE  commands[i][2] \in Redis!Run(db, commands).wrote
  <1> DEFINE f == Redis!After(db, commands)
  <1>1. i - 1 \in 0..n /\ DOMAIN f[i - 1] = DOMAIN db
    BY AfterKeys
  <1>2. commands[i][2] \in Redis!KeysOf(commands[i])
    BY DEF Redis!KeysOf
  <1>3. commands[i][2] \in Redis!Writes(f[i - 1], commands[i])
    <2> HIDE DEF f
    <2> QED
      BY <1>1, <1>2 DEF Redis!Writes
  <1> QED
    BY <1>3 DEF Redis!Run

IsQueues(queue) == \E S : queue \in [Conns -> Seq(S)]

\* A server, with its tables.
IsServer(s) ==
    /\ s = [db |-> s.db, watched |-> s.watched, dirty |-> s.dirty, aborted |-> s.aborted,
            multi |-> s.multi, queue |-> s.queue, subscribed |-> s.subscribed,
            silent |-> s.silent]
    /\ DOMAIN s.db = RedisKeys /\ DOMAIN s.watched = Conns /\ DOMAIN s.aborted = Conns
    /\ DOMAIN s.multi = Conns /\ DOMAIN s.subscribed = Conns /\ DOMAIN s.silent = Conns
    /\ DOMAIN s.dirty = Conns
    /\ IsQueues(s.queue)

\* What becomes of the transaction of c: old, new and the commands set off.
Goes(s, c, argv, new) ==
    \/ new = s.queue[c]
    \/ new = Append(s.queue[c], argv)
    \/ new = <<>> /\ \/ argv[1] = "DISCARD"
                     \/ argv[1] = "EXEC" /\ \/ s.dirty[c] \/ s.aborted[c]
                                            \/ Redis!SetOff(s, c, argv) = s.queue[c]

\* What one command sets off, as a sequence.
LEMMA SettingOff ==
    ASSUME NEW s, IsServer(s), NEW c \in Conns, NEW argv
    PROVE  \E n \in Nat : /\ Len(Redis!SetOff(s, c, argv)) = n
                          /\ DOMAIN Redis!SetOff(s, c, argv) = 1..n
  <1>1. \/ Redis!SetOff(s, c, argv) = s.queue[c]
        \/ Redis!SetOff(s, c, argv) = <<>>
        \/ Redis!SetOff(s, c, argv) = <<argv>>
    BY DEF Redis!SetOff
  <1>2. PICK S : s.queue \in [Conns -> Seq(S)]
    BY DEF IsServer, IsQueues
  <1>3. s.queue[c] \in Seq(S)
    BY <1>2
  <1>4. CASE Redis!SetOff(s, c, argv) = s.queue[c]
    BY <1>3, <1>4
  <1>5. CASE Redis!SetOff(s, c, argv) = <<>>
    BY <1>5
  <1>6. CASE Redis!SetOff(s, c, argv) = <<argv>>
    BY <1>6
  <1> QED
    BY <1>1, <1>4, <1>5, <1>6

LEMMA RunKeys ==
    ASSUME NEW s, IsServer(s), NEW c \in Conns, NEW argv
    PROVE  DOMAIN Redis!Run(s.db, Redis!SetOff(s, c, argv)).db = RedisKeys
  <1> DEFINE cmds == Redis!SetOff(s, c, argv)
  <1>1. PICK n \in Nat : Len(cmds) = n
    BY SettingOff
  <1>2. DOMAIN Redis!After(s.db, cmds)[n] = DOMAIN s.db
    BY <1>1, AfterKeys
  <1> QED
    BY <1>1, <1>2 DEF Redis!Run, IsServer

\* A server of which parts are replaced.
LEMMA Replaced ==
    ASSUME NEW db, NEW watched, NEW dirty, NEW aborted, NEW multi, NEW queue,
           NEW subscribed, NEW silent, NEW new,
           new = [db |-> db, watched |-> watched, dirty |-> dirty, aborted |-> aborted,
                  multi |-> multi, queue |-> queue, subscribed |-> subscribed,
                  silent |-> silent],
           DOMAIN db = RedisKeys, DOMAIN watched = Conns, DOMAIN dirty = Conns,
           DOMAIN aborted = Conns, DOMAIN multi = Conns, DOMAIN subscribed = Conns,
           DOMAIN silent = Conns, IsQueues(queue)
    PROVE  IsServer(new)
  BY DEF IsServer

LEMMA Queues ==
    ASSUME NEW s, IsServer(s), NEW c \in Conns, NEW argv, NEW q,
           q = s.queue[c] \/ q = Append(s.queue[c], argv) \/ q = <<>>
    PROVE  /\ IsQueues([s.queue EXCEPT ![c] = q])
           /\ [s.queue EXCEPT ![c] = s.queue[c]] = s.queue
  <1>1. PICK S : s.queue \in [Conns -> Seq(S)]
    BY DEF IsServer, IsQueues
  <1>2. PICK T : T = S \cup {argv}
    OBVIOUS
  <1>3. \A d \in Conns : s.queue[d] \in Seq(T)
    <2> SUFFICES ASSUME NEW d \in Conns PROVE s.queue[d] \in Seq(T)
      OBVIOUS
    <2>1. s.queue[d] \in Seq(S) /\ S \subseteq T
      BY <1>1, <1>2
    <2> QED
      BY <2>1
  <1>4. Append(s.queue[c], argv) \in Seq(T) /\ <<>> \in Seq(T)
    BY <1>2, <1>3
  <1>5. q \in Seq(T)
    BY <1>3, <1>4
  <1> QED
    BY <1>1, <1>3, <1>5 DEF IsQueues

LEMMA Ending ==
    ASSUME NEW s, IsServer(s), NEW c \in Conns, NEW new, new = Redis!EndMulti(s, c)
    PROVE  /\ IsServer(new) /\ new.subscribed = s.subscribed
           /\ new.queue = [s.queue EXCEPT ![c] = <<>>]
  <1>1. IsQueues([s.queue EXCEPT ![c] = <<>>])
    BY Queues
  <1> QED
    BY <1>1 DEF IsServer, Redis!EndMulti

LEMMA Serving ==
    ASSUME NEW s, IsServer(s), NEW c \in Conns, NEW argv, argv[1] # "SUBSCRIBE",
           ~s.subscribed[c], NEW new, new = Redis!Serve(s, c, argv).srv
    PROVE  /\ IsServer(new) /\ new.subscribed = s.subscribed
           /\ \E q : new.queue = [s.queue EXCEPT ![c] = q] /\ Goes(s, c, argv, q)
  <1> DEFINE run == Redis!Run(s.db, Redis!SetOff(s, c, argv))
             ran == [s EXCEPT !.db = run.db,
                       !.dirty = [d \in Conns |-> @[d] \/ s.watched[d] \cap run.wrote # {}]]
  <1>2. DOMAIN run.db = RedisKeys
    BY RunKeys
  <1> HIDE DEF run
  <1>1. \/ new = s
        \/ new = [s EXCEPT !.silent[c] = TRUE]
        \/ new = [s EXCEPT !.multi[c] = TRUE]
        \/ new = [s EXCEPT !.watched[c] = @ \cup Redis!KeysOf(argv)]
        \/ argv[1] = "EXEC" /\ s.multi[c] /\ new = Redis!EndMulti(ran, c)
        \/ argv[1] = "DISCARD" /\ new = Redis!EndMulti(s, c)
        \/ new = [s EXCEPT !.aborted[c] = s.multi[c]]
        \/ new = [s EXCEPT !.queue[c] = Append(@, argv)]
        \/ new = ran
    <2> DEFINE srv == Redis!Serve(s, c, argv).srv
    <2>1. CASE argv[1] = "CLIENT" /\ ~s.multi[c]
      BY <2>1 DEF Redis!Serve
    <2>2. CASE argv[1] = "MULTI" /\ ~s.multi[c]
      BY <2>2 DEF Redis!Serve
    <2>3. CASE argv[1] = "WATCH" /\ ~s.multi[c]
      BY <2>3 DEF Redis!Serve
    <2>4. CASE argv[1] = "EXEC" /\ s.multi[c]
      BY <2>4 DEF run, Redis!Serve
    <2>5. CASE argv[1] = "DISCARD" /\ s.multi[c]
      BY <2>5 DEF Redis!Serve
    <2>6. CASE argv[1] \in {"EXEC", "DISCARD"} /\ ~s.multi[c]
      BY <2>6 DEF Redis!Serve
    <2>7. CASE argv[1] \in {"MULTI", "WATCH"} /\ s.multi[c]
      BY <2>7 DEF Redis!Serve
    <2> QED
      BY <2>1, <2>2, <2>3, <2>4, <2>5, <2>6, <2>7 DEF run, Redis!Serve
  <1>3. PICK dirty : /\ DOMAIN dirty = Conns
                     /\ ran = [s EXCEPT !.db = run.db, !.dirty = dirty]
    BY DEF IsServer
  <1> HIDE DEF ran
  <1>4. /\ Goes(s, c, argv, s.queue[c]) /\ Goes(s, c, argv, Append(s.queue[c], argv))
        /\ argv[1] = "DISCARD" => Goes(s, c, argv, <<>>)
        /\ argv[1] = "EXEC" /\ s.multi[c] => Goes(s, c, argv, <<>>)
    BY DEF Goes, Redis!SetOff, Redis!Control
  <1>5. /\ \A q \in {s.queue[c], Append(s.queue[c], argv), <<>>} :
             IsQueues([s.queue EXCEPT ![c] = q])
        /\ s.queue = [s.queue EXCEPT ![c] = s.queue[c]]
        /\ IsQueues(s.queue)
    <2>1. \A q : q = s.queue[c] \/ q = Append(s.queue[c], argv) \/ q = <<>>
                 => /\ IsQueues([s.queue EXCEPT ![c] = q])
                    /\ [s.queue EXCEPT ![c] = s.queue[c]] = s.queue
      BY Queues
    <2>2. IsQueues(s.queue)
      BY DEF IsServer
    <2> QED
      BY <2>1, <2>2
  <1>6. /\ IsServer(new) /\ new.subscribed = s.subscribed
        /\ \E q : new.queue = [s.queue EXCEPT ![c] = q] /\ Goes(s, c, argv, q)
    <2>1. CASE new = s
      BY <1>4, <1>5, <2>1
    <2>2. CASE new = [s EXCEPT !.silent[c] = TRUE]
      BY <1>4, <1>5, <2>2 DEF IsServer
    <2>3. CASE new = [s EXCEPT !.multi[c] = TRUE]
      BY <1>4, <1>5, <2>3 DEF IsServer
    <2>4. CASE new = [s EXCEPT !.watched[c] = @ \cup Redis!KeysOf(argv)]
      BY <1>4, <1>5, <2>4 DEF IsServer
    <2>5. CASE argv[1] = "EXEC" /\ s.multi[c] /\ new = Redis!EndMulti(ran, c)
      <3>1. PICK t : t = ran
        OBVIOUS
      <3>2. IsServer(t) /\ t.queue = s.queue /\ t.subscribed = s.subscribed
        BY <1>2, <1>3, <3>1 DEF IsServer
      <3>3. /\ IsServer(new) /\ new.subscribed = s.subscribed
            /\ new.queue = [s.queue EXCEPT ![c] = <<>>]
        BY <2>5, <3>1, <3>2, Ending
      <3> QED
        BY <1>4, <2>5, <3>3
    <2>6. CASE argv[1] = "DISCARD" /\ new = Redis!EndMulti(s, c)
      BY <1>4, <1>5, <2>6 DEF IsServer, Redis!EndMulti
    <2>7. CASE new = [s EXCEPT !.aborted[c] = s.multi[c]]
      BY <1>4, <1>5, <2>7 DEF IsServer
    <2>8. CASE new = [s EXCEPT !.queue[c] = Append(@, argv)]
      BY <1>4, <1>5, <2>8 DEF IsServer
    <2>9. CASE new = ran
      BY <1>2, <1>3, <1>4, <1>5, <2>9 DEF IsServer
    <2> QED
      BY <1>1, <2>1, <2>2, <2>3, <2>4, <2>5, <2>6, <2>7, <2>8, <2>9
  <1> QED
    BY <1>6

\* A SET is refused, runs, or waits for its transaction.
LEMMA ServingSet ==
    ASSUME NEW s, IsServer(s), NEW c \in Conns, NEW argv, argv[1] = "SET",
           ~s.subscribed[c]
    PROVE  \/ Redis!Malformed(argv) /\ Redis!Serve(s, c, argv).out = <<Error>>
           \/ ~Redis!Malformed(argv) /\ Redis!SetOff(s, c, argv) = <<argv>>
           \/ /\ ~Redis!Malformed(argv)
              /\ Redis!Serve(s, c, argv).srv.queue[c] = Append(s.queue[c], argv)
  <1>1. CASE Redis!Malformed(argv)
    <2> HIDE DEF Redis!Malformed
    <2> QED
      BY <1>1 DEF Redis!Serve
  <1>2. CASE ~Redis!Malformed(argv) /\ ~s.multi[c]
    <2> HIDE DEF Redis!Malformed
    <2> QED
      BY <1>2 DEF Redis!SetOff, Redis!Control
  <1>3. CASE ~Redis!Malformed(argv) /\ s.multi[c]
    <2>1. Redis!Serve(s, c, argv).srv = [s EXCEPT !.queue[c] = Append(@, argv)]
      BY <1>3 DEF Redis!Serve
    <2>2. DOMAIN s.queue = Conns
      BY DEF IsServer, IsQueues
    <2> QED
      BY <1>3, <2>1, <2>2 DEF IsServer
  <1> QED
    BY <1>1, <1>2, <1>3

-----------------------------------------------------------------------------
\* k was written, or a SET of it is queued.
Sets(argv, k) == argv[1] = "SET" /\ argv[2] = VersionPrefix(k)
Accounted(k) ==
    \/ VersionPrefix(k) \in wrote
    \/ \E c \in Conns : \E i \in DOMAIN redis.queue[c] : Sets(redis.queue[c][i], k)

\* A SET has been done, and its reply was not read.
Pending(c) ==
    /\ handler[c].st = "reply" /\ handler[c].argv[1] = "SET"
    /\ \E i \in DOMAIN replies[c] : replies[c][i].val # Error

\* What is registered or is about to be.
Claimed ==
    indexed \cup {handler[c].argv[2] :
                    c \in {d \in Conns : handler[d].st = "writeback" \/ Pending(d)}}

Reads(c) ==
    /\ handler[c].st # "idle" => handler[c].argv \in Argvs[c]
    /\ handler[c].st \in {"peers", "writeback"} =>
          Len(handler[c].argv) >= 2 /\ handler[c].argv[1] = "GET"

ClaimInv ==
    /\ PairInv
    /\ \A c \in Conns : Reads(c)
    /\ Sent({"SUBSCRIBE"}) = {} =>
          /\ IsServer(redis) /\ \A c \in Conns : ~redis.subscribed[c]
          /\ Claimed \subseteq Keys
          /\ ~dropped => \A k \in Claimed : Accounted(k)

\* Nothing that was accounted for is lost unless a transaction is dropped,
\* and a SET is accounted for.
LEMMA Accounting ==
    ASSUME IsServer(redis), NEW c \in Conns, ~redis.subscribed[c], NEW argv,
           NEW n \in Nat \ {0}, DOMAIN argv = 1..n,
           argv[1] \notin {"SUBSCRIBE", "DISCARD"},
           argv[1] = "EXEC" => ~redis.dirty[c] /\ ~redis.aborted[c],
           Upstream(c, argv), NEW k \in Keys,
           \/ Accounted(k)
           \/ Sets(argv, k) /\ ~Redis!Malformed(argv)
    PROVE  Accounted(k)'
  <1> DEFINE cmds == Redis!SetOff(redis, c, argv)
  <1>1. PICK new : new = Redis!Serve(redis, c, argv).srv /\ new = redis'
    BY DEF Upstream
  <1>2. PICK q : new.queue = [redis.queue EXCEPT ![c] = q] /\ Goes(redis, c, argv, q)
    BY <1>1, Serving
  <1>3. PICK S : redis.queue \in [Conns -> Seq(S)]
    BY DEF IsServer, IsQueues
  <1>4. \A i \in DOMAIN cmds : Sets(cmds[i], k) => VersionPrefix(k) \in wrote'
    <2> SUFFICES ASSUME NEW i \in DOMAIN cmds, Sets(cmds[i], k)
                 PROVE  VersionPrefix(k) \in wrote'
      OBVIOUS
    <2>1. PICK m \in Nat : Len(cmds) = m /\ DOMAIN cmds = 1..m
      BY SettingOff
    <2>2. VersionPrefix(k) \in DOMAIN redis.db
      BY DEF IsServer, RedisKeys
    <2>3. wrote' = wrote \cup Redis!Run(redis.db, cmds).wrote
      BY DEF Upstream
    <2> HIDE DEF cmds
    <2>4. cmds[i][1] = "SET" /\ cmds[i][2] = VersionPrefix(k)
      BY DEF Sets
    <2>5. cmds[i][2] \in Redis!Run(redis.db, cmds).wrote
      BY <2>1, <2>2, <2>4, SetWrites
    <2> QED
      BY <2>3, <2>4, <2>5
  <1>5. CASE VersionPrefix(k) \in wrote
    BY <1>5 DEF Upstream, Accounted
  <1>6. CASE \E d \in Conns : \E i \in DOMAIN redis.queue[d] : Sets(redis.queue[d][i], k)
    <2>1. PICK d \in Conns : \E i \in DOMAIN redis.queue[d] : Sets(redis.queue[d][i], k)
      BY <1>6
    <2>2. PICK i \in DOMAIN redis.queue[d] : Sets(redis.queue[d][i], k)
      BY <2>1
    <2>3. CASE d # c \/ q = redis.queue[c]
      <3>1. redis'.queue[d] = redis.queue[d]
        BY <1>1, <1>2, <1>3, <2>3
      <3> QED
        BY <2>2, <3>1 DEF Accounted
    <2>4. CASE d = c /\ q = Append(redis.queue[c], argv)
      <3>1. redis.queue[c] \in Seq(S) /\ redis'.queue[c] = Append(redis.queue[c], argv)
        BY <1>1, <1>2, <1>3, <2>4
      <3>2. i \in DOMAIN redis'.queue[c] /\ redis'.queue[c][i] = redis.queue[c][i]
        BY <2>2, <2>4, <3>1
      <3> QED
        BY <2>2, <2>4, <3>2 DEF Accounted
    <2>5. CASE d = c /\ cmds = redis.queue[c]
      BY <1>4, <2>2, <2>5 DEF Accounted
    <2> QED
      BY <1>2, <2>3, <2>4, <2>5 DEF Goes
  <1>7. CASE Sets(argv, k) /\ ~Redis!Malformed(argv)
    <2>1. cmds = <<argv>> \/ redis'.queue[c] = Append(redis.queue[c], argv)
      <3>1. argv[1] = "SET" /\ ~Redis!Malformed(argv)
        BY <1>7 DEF Sets
      <3>2. \/ Redis!SetOff(redis, c, argv) = <<argv>>
            \/ Redis!Serve(redis, c, argv).srv.queue[c] = Append(redis.queue[c], argv)
        BY <3>1, ServingSet
      <3> QED
        BY <1>1, <3>2
    <2>2. CASE cmds = <<argv>>
      BY <1>4, <1>7, <2>2 DEF Accounted
    <2>3. CASE redis'.queue[c] = Append(redis.queue[c], argv)
      <3>1. redis.queue[c] \in Seq(S) /\ Len(redis.queue[c]) \in Nat
        BY <1>3
      <3> DEFINE j == Len(redis.queue[c]) + 1
      <3>2. j \in DOMAIN redis'.queue[c] /\ redis'.queue[c][j] = argv
        BY <2>3, <3>1
      <3> QED
        BY <1>7, <3>2 DEF Accounted
    <2> QED
      BY <2>1, <2>2, <2>3
  <1> QED
    BY <1>5, <1>6, <1>7 DEF Accounted

LEMMA Asking ==
    ASSUME Types, NEW c \in Conns, NEW argv \in Argvs[c],
           sent' = [sent EXCEPT ![c] = Append(@, argv)], NEW cmds, Sent(cmds)' = {}
    PROVE  Sent(cmds) = {} /\ argv[1] \notin cmds
  <1>1. sent \in [Conns -> Seq(AllArgvs)] /\ argv \in AllArgvs
    BY DEF Types, AllArgvs
  <1> DEFINE n == Len(sent[c])
  <1>2. /\ n \in Nat /\ DOMAIN sent'[c] = 1..(n + 1) /\ DOMAIN sent[c] = 1..n
        /\ \A i \in 1..(n + 1) : sent'[c][i] = IF i = n + 1 THEN argv ELSE sent[c][i]
    <2>1. sent'[c] = Append(sent[c], argv)
      BY <1>1
    <2> QED
      BY <1>1, <2>1, Appending
  <1>3. \A d \in Conns \ {c} : sent'[d] = sent[d]
    BY <1>1
  <1> HIDE DEF n
  <1>4. \A d \in Conns : \A i \in DOMAIN sent'[d] : sent'[d][i][1] \notin cmds
    BY DEF Sent
  <1>5. \A d \in Conns : \A i \in DOMAIN sent[d] : sent[d][i][1] \notin cmds
    <2> SUFFICES ASSUME NEW d \in Conns, NEW i \in DOMAIN sent[d]
                 PROVE  sent[d][i][1] \notin cmds
      OBVIOUS
    <2>1. CASE d # c
      BY <1>3, <1>4, <2>1
    <2>2. CASE d = c
      <3>1. i \in 1..(n + 1) /\ sent'[c][i] = sent[c][i]
        BY <1>2, <2>2
      <3> QED
        BY <1>2, <1>4, <2>2, <3>1
    <2> QED
      BY <2>1, <2>2
  <1>6. argv[1] \notin cmds
    <2>1. n + 1 \in DOMAIN sent'[c] /\ sent'[c][n + 1] = argv
      BY <1>2
    <2> QED
      BY <1>4, <2>1
  <1> QED
    BY <1>5, <1>6 DEF Sent

\* Steps that leave the server alone, and claim nothing more.
LEMMA Settled ==
    ASSUME ClaimInv, PairInv', UNCHANGED <<redis, sent, wrote, dropped>>,
           \A c \in Conns : Reads(c)', Claimed' \subseteq Claimed
    PROVE  ClaimInv'
  <1>1. Sent({"SUBSCRIBE"})' = Sent({"SUBSCRIBE"})
    BY DEF Sent
  <1>2. \A k : Accounted(k)' = Accounted(k)
    BY DEF Accounted
  <1> HIDE DEF Claimed
  <1> QED
    BY <1>1, <1>2 DEF ClaimInv

LEMMA InitClaims == Init => ClaimInv
  <1> SUFFICES ASSUME Init PROVE ClaimInv
    OBVIOUS
  <1>1. IsServer(redis) /\ \A c \in Conns : ~redis.subscribed[c]
    <2>1. redis.queue \in [Conns -> Seq({})]
      BY DEF Init, Redis!Started
    <2> QED
      BY <2>1 DEF Init, Redis!Started, IsServer, IsQueues
  <1>2. \A c \in Conns : handler[c].st = "idle"
    BY DEF Init, Idle
  <1>3. Claimed = {}
    BY <1>2 DEF Init, Claimed, Pending
  <1> QED
    BY <1>1, <1>2, <1>3, InitPairs DEF ClaimInv, Reads

\* What the handlers claim, after one of them has moved.
LEMMA Claiming ==
    ASSUME NEW c \in Conns, NEW X,
           \A d \in Conns \ {c} : handler'[d] = handler[d] /\ replies'[d] = replies[d],
           indexed' \subseteq Claimed \cup X,
           handler'[c].st = "writeback" \/ Pending(c)' => handler'[c].argv[2] \in Claimed \cup X
    PROVE  Claimed' \subseteq Claimed \cup X
  <1> SUFFICES ASSUME NEW d \in Conns \ {c}, handler'[d].st = "writeback" \/ Pending(d)'
               PROVE  handler'[d].argv[2] \in Claimed
    BY DEF Claimed
  <1>1. handler[d].st = "writeback" \/ Pending(d)
    BY DEF Pending
  <1> QED
    BY <1>1 DEF Claimed

LEMMA Delivered ==
    ASSUME ClaimInv, NEW c \in Conns, NEW r, Deliver(c, r),
           \A d \in Conns \ {c} : replies'[d] = replies[d], indexed' \subseteq Claimed
    PROVE  Claimed' \subseteq Claimed /\ \A d \in Conns : Reads(d)'
  <1>1. /\ \A d \in Conns \ {c} : handler'[d] = handler[d]
        /\ handler'[c] = Idle
    BY DEF ClaimInv, PairInv, Types, Handlers, Deliver
  <1>2. ~(handler'[c].st = "writeback" \/ Pending(c)')
    BY <1>1 DEF Idle, Pending
  <1>3. Claimed' \subseteq Claimed \cup {}
    BY <1>1, <1>2, Claiming
  <1>4. Reads(c)'
    BY <1>1 DEF Idle, Reads
  <1>5. \A d \in Conns \ {c} : Reads(d)'
    BY <1>1 DEF ClaimInv, Reads
  <1> QED
    BY <1>3, <1>4, <1>5

LEMMA FetchNoneClaims ==
    ASSUME ClaimInv, NEW c \in Conns, FetchNone(c)
    PROVE  ClaimInv'
  <1>1. PairInv'
    BY FetchNoneInv DEF ClaimInv
  <1>2. Claimed' \subseteq Claimed /\ \A d \in Conns : Reads(d)'
    <2>1. indexed' \subseteq Claimed
      BY DEF FetchNone, Claimed
    <2>2. Deliver(c, handler[c].reply) /\ replies' = replies
      BY DEF FetchNone
    <2> QED
      BY <2>1, <2>2, Delivered
  <1> QED
    BY <1>1, <1>2, Settled DEF FetchNone

LEMMA EndWriteBackClaims ==
    ASSUME ClaimInv, NEW c \in Conns, EndWriteBack(c)
    PROVE  ClaimInv'
  <1>1. PairInv'
    BY EndWriteBackInv DEF ClaimInv
  <1>2. Claimed' \subseteq Claimed /\ \A d \in Conns : Reads(d)'
    <2>1. indexed' \subseteq Claimed
      BY DEF EndWriteBack, Claimed
    <2>2. Deliver(c, handler[c].reply) /\ \A d \in Conns \ {c} : replies'[d] = replies[d]
      BY DEF EndWriteBack, ClaimInv, PairInv, Types, Logs
    <2> QED
      BY <2>1, <2>2, Delivered
  <1> QED
    BY <1>1, <1>2, Settled DEF EndWriteBack

LEMMA ReceiveClaims ==
    ASSUME ClaimInv, NEW c \in Conns, Receive(c)
    PROVE  ClaimInv'
  <1>1. PairInv'
    BY ReceiveInv DEF ClaimInv
  <1>2. PICK S : Logs(S)
    BY DEF ClaimInv, PairInv, Types
  <1>3. PICK reply : reply = Head(replies[c])
    OBVIOUS
  <1>4. /\ handler[c].st = "reply" /\ replies[c] # <<>>
        /\ replies' = [replies EXCEPT ![c] = Tail(@)]
        /\ \A d \in Conns \ {c} : replies'[d] = replies[d]
        /\ 1 \in DOMAIN replies[c] /\ reply = replies[c][1]
    <2>1. replies \in [Conns -> Seq(S)]
      BY <1>2 DEF Logs
    <2> QED
      BY <1>3, <2>1, Taking DEF Receive
  <1>5. indexed' \subseteq Claimed
    <2>1. handler[c].argv[1] = "SET" /\ reply.val # Error => Pending(c)
      BY <1>4 DEF Pending
    <2>2. Pending(c) => handler[c].argv[2] \in Claimed
      BY DEF Claimed
    <2>3. indexed \subseteq Claimed
      BY DEF Claimed
    <2> QED
      BY <1>3, <2>1, <2>2, <2>3 DEF Receive, WriteRegister
  <1>6. CASE Deliver(c, reply)
    <2>1. Claimed' \subseteq Claimed /\ \A d \in Conns : Reads(d)'
      BY <1>4, <1>5, <1>6, Delivered
    <2> QED
      BY <1>1, <2>1, Settled DEF Receive
  <1>7. CASE /\ handler' = [handler EXCEPT ![c].st = "peers", ![c].reply = reply]
             /\ Len(handler[c].argv) >= 2 /\ handler[c].argv[1] \in ReadMiss
    <2>1. PICK h : h = handler[c]
      OBVIOUS
    <2>2. /\ h = [st |-> h.st, argv |-> h.argv, reply |-> h.reply]
          /\ DOMAIN handler = Conns
      BY <2>1 DEF ClaimInv, PairInv, Types, Handlers, IsHandler
    <2>3. /\ handler'[c].st = "peers" /\ handler'[c].argv = handler[c].argv
          /\ \A d \in Conns \ {c} : handler'[d] = handler[d]
      BY <1>7, <2>1, <2>2
    <2>4. ~(handler'[c].st = "writeback" \/ Pending(c)')
      BY <2>3 DEF Pending
    <2>5. Claimed' \subseteq Claimed \cup {}
      BY <1>4, <1>5, <2>3, <2>4, Claiming
    <2>6. Reads(c)'
      BY <1>4, <1>7, <2>3 DEF ClaimInv, Reads, ReadMiss
    <2>7. \A d \in Conns \ {c} : Reads(d)'
      BY <2>3 DEF ClaimInv, Reads
    <2> QED
      BY <1>1, <2>5, <2>6, <2>7, Settled DEF Receive
  <1> QED
    BY <1>3, <1>6, <1>7 DEF Receive

\* The key that a GET or a SET names.
LEMMA KeyNamed ==
    ASSUME NEW c \in Conns, NEW argv \in Argvs[c], argv[1] \in {"GET", "SET"}, Len(argv) >= 2
    PROVE  /\ 2 \in DOMAIN argv /\ argv[2] \in Keys
           /\ Rewritten(argv)[2] = VersionPrefix(argv[2])
  <1>1. Len(argv) \in Nat /\ DOMAIN argv = 1..Len(argv)
    BY SessionAssumption
  <1>2. 2 \in KeyArgs(argv) /\ 2 \in DOMAIN argv
    BY <1>1 DEF KeyArgs, SingleKey
  <1> QED
    BY <1>2, SessionAssumption DEF Rewritten

LEMMA FetchClaims ==
    ASSUME ClaimInv, NEW c \in Conns, Fetch(c)
    PROVE  ClaimInv'
  <1>1. PairInv'
    BY FetchInv DEF ClaimInv
  <1>2. PICK h : h = handler[c]
    OBVIOUS
  <1>3. /\ h.st = "peers" /\ h.argv \in Argvs[c] /\ Len(h.argv) >= 2 /\ h.argv[1] = "GET"
        /\ h = [st |-> h.st, argv |-> h.argv, reply |-> h.reply] /\ DOMAIN handler = Conns
        /\ sent' = sent /\ indexed' = indexed /\ dropped' = dropped
        /\ h.reply = [of |-> h.reply.of, val |-> h.reply.val, plain |-> h.reply.plain]
    BY <1>2 DEF Fetch, ClaimInv, Reads, PairInv, Types, Handlers, IsHandler, IsReply
  <1>4. PICK k : k = h.argv[2] /\ k \in Keys
    BY <1>3, KeyNamed
  <1>5. PICK v \in PeerVals :
          LET set == <<"SET", VersionPrefix(k), v>>
              served == Redis!Serve(redis, c, set).out
          IN /\ Upstream(c, set)
             /\ replies' = [replies EXCEPT ![c] = @ \o
                    [i \in DOMAIN served |->
                        [of |-> 0, val |-> served[i], plain |-> served[i]]]]
             /\ handler' = [handler EXCEPT ![c].st = "writeback", ![c].reply.val = v]
    BY <1>2, <1>4 DEF Fetch
  <1>6. PICK set : set = <<"SET", VersionPrefix(k), v>>
    OBVIOUS
  <1>7. /\ DOMAIN set = 1..3 /\ Len(set) = 3 /\ 3 \in Nat \ {0} /\ set[1] = "SET"
        /\ Sets(set, k) /\ ~Redis!Malformed(set)
    BY <1>6 DEF Sets, Redis!Malformed
  <1>8. Upstream(c, set)
    BY <1>5, <1>6
  <1>9. /\ handler'[c].st = "writeback" /\ handler'[c].argv = h.argv
        /\ \A d \in Conns \ {c} : handler'[d] = handler[d] /\ replies'[d] = replies[d]
    <2>1. DOMAIN replies = Conns
      BY DEF ClaimInv, PairInv, Types, Logs
    <2> QED
      BY <1>2, <1>3, <1>5, <2>1
  <1>10. \A d \in Conns : Reads(d)'
    BY <1>3, <1>9 DEF ClaimInv, Reads
  <1>11. Claimed' \subseteq Claimed \cup {k}
    <2>1. indexed' \subseteq Claimed \cup {k}
      BY <1>3 DEF Claimed
    <2>2. handler'[c].argv[2] \in Claimed \cup {k}
      BY <1>4, <1>9
    <2> QED
      BY <1>9, <2>1, <2>2, Claiming
  <1>12. ASSUME Sent({"SUBSCRIBE"})' = {}
         PROVE  /\ IsServer(redis)' /\ \A d \in Conns : ~redis'.subscribed[d]
                /\ Claimed' \subseteq Keys
                /\ ~dropped' => \A e \in Claimed' : Accounted(e)'
    <2>1. Sent({"SUBSCRIBE"}) = {}
      BY <1>3, <1>12 DEF Sent
    <2>2. /\ IsServer(redis) /\ \A d \in Conns : ~redis.subscribed[d]
          /\ Claimed \subseteq Keys
          /\ ~dropped => \A e \in Claimed : Accounted(e)
      BY <2>1 DEF ClaimInv
    <2>3. redis' = Redis!Serve(redis, c, set).srv
      BY <1>8 DEF Upstream
    <2>4. IsServer(redis)' /\ redis'.subscribed = redis.subscribed
      BY <1>7, <2>2, <2>3, Serving
    <2>5. ~dropped' => \A e \in Claimed' : Accounted(e)'
      <3> HIDE DEF Claimed
      <3> SUFFICES ASSUME ~dropped', NEW e \in Claimed' PROVE Accounted(e)'
        OBVIOUS
      <3>1. e \in Keys /\ (Accounted(e) \/ Sets(set, e))
        BY <1>3, <1>4, <1>7, <1>11, <2>2
      <3> QED
        BY <1>7, <1>8, <2>2, <3>1, Accounting
    <2> HIDE DEF Claimed
    <2> QED
      BY <1>4, <1>11, <2>2, <2>4, <2>5
  <1> QED
    BY <1>1, <1>10, <1>12 DEF ClaimInv

LEMMA RequestClaims ==
    ASSUME ClaimInv, NEW c \in Conns, NEW argv \in Argvs[c], Request(c, argv)
    PROVE  ClaimInv'
  <1>1. PairInv'
    BY RequestInv DEF ClaimInv
  <1>2. PICK new : new = Rewritten(argv)
    OBVIOUS
  <1>3. /\ Len(argv) \in Nat \ {0} /\ DOMAIN new = 1..Len(argv)
        /\ Len(new) = Len(argv) /\ new[1] = argv[1]
    BY <1>2, Rewriting
  <1>4. /\ Upstream(c, new) /\ handler[c].st = "idle" /\ indexed' = indexed
        /\ handler' = [handler EXCEPT ![c] = [Idle EXCEPT !.st = "reply", !.argv = argv]]
        /\ sent' = [sent EXCEPT ![c] = Append(@, argv)]
        /\ ~dropped' => /\ ~dropped /\ argv[1] # "DISCARD"
                        /\ argv[1] = "EXEC" => ~redis.dirty[c] /\ ~redis.aborted[c]
    BY <1>2 DEF Request
  <1>5. /\ handler'[c].st = "reply" /\ handler'[c].argv = argv
        /\ \A d \in Conns \ {c} : handler'[d] = handler[d]
    BY <1>4 DEF ClaimInv, PairInv, Types, Handlers, Idle
  <1>6. \A d \in Conns : Reads(d)'
    BY <1>5 DEF ClaimInv, Reads
  <1>7. ASSUME Sent({"SUBSCRIBE"})' = {}
        PROVE  /\ IsServer(redis)' /\ \A d \in Conns : ~redis'.subscribed[d]
               /\ Claimed' \subseteq Keys
               /\ ~dropped' => \A e \in Claimed' : Accounted(e)'
    <2>1. Sent({"SUBSCRIBE"}) = {} /\ argv[1] # "SUBSCRIBE"
      BY <1>4, <1>7, Asking DEF ClaimInv, PairInv
    <2>2. /\ IsServer(redis) /\ \A d \in Conns : ~redis.subscribed[d]
          /\ Claimed \subseteq Keys
          /\ ~dropped => \A e \in Claimed : Accounted(e)
      BY <2>1 DEF ClaimInv
    <2>3. redis' = Redis!Serve(redis, c, new).srv
      BY <1>4 DEF Upstream
    <2>4. IsServer(redis)' /\ redis'.subscribed = redis.subscribed
      BY <1>3, <2>1, <2>2, <2>3, Serving
    <2>5. replies[c] = <<>>
      <3>1. Quiet(c)
        BY <2>1 DEF Sent, Quiet
      <3> QED
        BY <1>4, <3>1 DEF ClaimInv, PairInv, Paired
    <2>6. PICK out : out = Redis!Serve(redis, c, new).out
      OBVIOUS
    <2>7. /\ DOMAIN replies'[c] = DOMAIN out
          /\ \A i \in DOMAIN out : replies'[c][i].val = out[i]
          /\ \A d \in Conns \ {c} : replies'[d] = replies[d]
      <3> DEFINE expected == Redis!Serve(plain, c, argv).out
                 sends == [i \in DOMAIN out |-> [of |-> Len(sent[c]) + 1, val |-> out[i],
                                                plain |-> expected[i]]]
      <3>1. replies' = [replies EXCEPT ![c] = @ \o sends] /\ DOMAIN replies = Conns
        BY <1>2, <2>6 DEF Request, ClaimInv, PairInv, Types, Logs
      <3>2. PICK m \in Nat : DOMAIN out = 1..m
        BY <1>3, <2>6, Served
      <3>3. PICK new2 : new2 = sends
        OBVIOUS
      <3>4. DOMAIN new2 = 1..m /\ \A i \in 1..m : new2[i].val = out[i]
        <4> HIDE DEF expected
        <4> QED
          BY <3>2, <3>3
      <3>5. new2 \in [1..m -> {new2[i] : i \in 1..m}]
        <4> HIDE DEF expected
        <4> QED
          BY <3>2, <3>3
      <3>6. <<>> \o new2 = new2
        BY <3>2, <3>5, Listed
      <3> HIDE DEF sends
      <3> QED
        BY <2>5, <3>1, <3>2, <3>3, <3>4, <3>6
    <2>8. Pending(c)' => argv[2] \in Keys /\ Sets(new, argv[2]) /\ ~Redis!Malformed(new)
      <3> SUFFICES ASSUME Pending(c)'
                   PROVE  argv[2] \in Keys /\ Sets(new, argv[2]) /\ ~Redis!Malformed(new)
        OBVIOUS
      <3>1. argv[1] = "SET" /\ \E i \in DOMAIN out : out[i] # Error
        BY <1>5, <2>7 DEF Pending
      <3>2. ~Redis!Malformed(new)
        <4>1. CASE Redis!Malformed(new)
          <5>1. out = <<Error>>
            BY <1>3, <2>2, <2>6, <3>1, <4>1, ServingSet
          <5> QED
            BY <3>1, <5>1
        <4> QED
          BY <4>1
      <3>3. Len(argv) >= 2
        BY <1>3, <3>1, <3>2 DEF Redis!Malformed
      <3> QED
        BY <1>2, <1>3, <3>1, <3>2, <3>3, KeyNamed DEF Sets
    <2> DEFINE X == {k \in Keys : Sets(new, k) /\ ~Redis!Malformed(new)}
    <2>9. Claimed' \subseteq Claimed \cup X
      <3>1. indexed' \subseteq Claimed \cup X
        BY <1>4 DEF Claimed
      <3>2. handler'[c].st = "writeback" \/ Pending(c)'
              => handler'[c].argv[2] \in Claimed \cup X
        BY <1>5, <2>8
      <3> HIDE DEF X
      <3> QED
        BY <1>5, <2>7, <3>1, <3>2, Claiming
    <2> HIDE DEF Claimed
    <2>10. ~dropped' => \A e \in Claimed' : Accounted(e)'
      <3> SUFFICES ASSUME ~dropped', NEW e \in Claimed' PROVE Accounted(e)'
        OBVIOUS
      <3>1. e \in Keys /\ (Accounted(e) \/ (Sets(new, e) /\ ~Redis!Malformed(new)))
        BY <1>4, <2>2, <2>9
      <3> QED
        BY <1>3, <1>4, <2>1, <2>2, <3>1, Accounting
    <2>11. Claimed' \subseteq Keys
      BY <2>2, <2>9
    <2> QED
      BY <2>2, <2>4, <2>10, <2>11
  <1> QED
    BY <1>1, <1>6, <1>7 DEF ClaimInv

LEMMA NextClaims == ClaimInv /\ [Next]_vars => ClaimInv'
  <1> SUFFICES ASSUME ClaimInv, [Next]_vars PROVE ClaimInv'
    OBVIOUS
  <1>1. CASE Next
    BY <1>1, RequestClaims, ReceiveClaims, FetchNoneClaims, FetchClaims, EndWriteBackClaims
       DEF Next, Handle
  <1>2. CASE UNCHANGED vars
    <2>1. PairInv'
      BY <1>2, NextPairs DEF ClaimInv
    <2>2. Claimed' = Claimed /\ \A c \in Conns : Reads(c)'
      BY <1>2 DEF vars, Claimed, Pending, ClaimInv, Reads
    <2> QED
      BY <1>2, <2>1, <2>2, Settled DEF vars
  <1> QED
    BY <1>1, <1>2

\* What the handlers register was written in the Redis, or waits in a
\* transaction, unless one was dropped: for any connections, commands and
\* values, and with write-backs of other connections' values in between
\* (proxy.go:610-615).
THEOREM RegisteredWasWritten == Spec => []IndexedWasWritten
  <1>1. ClaimInv => IndexedWasWritten
    <2> SUFFICES ASSUME ClaimInv, ~dropped, Sent({"SUBSCRIBE"}) = {}, NEW k \in indexed
                 PROVE  \/ VersionPrefix(k) \in wrote
                        \/ \E c \in Conns : \E i \in DOMAIN redis.queue[c] :
                             VersionPrefix(k) \in Redis!KeysOf(redis.queue[c][i])
      BY DEF IndexedWasWritten
    <2>1. Accounted(k)
      BY DEF ClaimInv, Claimed
    <2>2. \A c \in Conns : \A i \in DOMAIN redis.queue[c] :
            Sets(redis.queue[c][i], k)
              => VersionPrefix(k) \in Redis!KeysOf(redis.queue[c][i])
      BY DEF Sets, Redis!KeysOf
    <2> QED
      BY <2>1, <2>2 DEF Accounted
  <1> QED
    BY <1>1, InitClaims, NextClaims, PTL DEF Spec

-----------------------------------------------------------------------------
\* A command that reads and writes keys, as the application sends it.
Ordinary(argv) ==
    /\ Len(argv) \in Nat \ {0} /\ DOMAIN argv = 1..Len(argv)
    /\ argv[1] # "PFCOUNT" /\ ~Redis!Malformed(argv)
    /\ \A i \in KeyArgs(argv) : argv[i] \in Keys

\* The proxied Redis has under the prefixed names what the plain one has.
Alike(r, p) ==
    /\ r = [k \in RedisKeys |-> r[k]] /\ p = [k \in RedisKeys |-> p[k]]
    /\ \A k \in Keys : r[VersionPrefix(k)] = p[k]

LEMMA RewrittenWords ==
    ASSUME NEW argv, Len(argv) \in Nat \ {0}, DOMAIN argv = 1..Len(argv)
    PROVE  /\ DOMAIN Rewritten(argv) = 1..Len(argv) /\ Len(Rewritten(argv)) = Len(argv)
           /\ Rewritten(argv)[1] = argv[1]
           /\ \A i \in 1..Len(argv) :
                Rewritten(argv)[i] = IF i \in KeyArgs(argv) THEN VersionPrefix(argv[i])
                                     ELSE argv[i]
           /\ Redis!Malformed(Rewritten(argv)) = Redis!Malformed(argv)
  <1> DEFINE new == Rewritten(argv)
  <1>1. /\ new = [i \in 1..Len(argv) |-> new[i]] /\ DOMAIN new = 1..Len(argv)
        /\ new[1] = argv[1]
        /\ \A i \in 1..Len(argv) :
             new[i] = IF i \in KeyArgs(argv) THEN VersionPrefix(argv[i]) ELSE argv[i]
    BY DEF Rewritten, KeyArgs
  <1> HIDE DEF new
  <1>2. new \in [1..Len(argv) -> {new[i] : i \in 1..Len(argv)}]
    BY <1>1
  <1>3. Len(new) = Len(argv)
    BY <1>2, Listed
  <1>4. Redis!Malformed(new) = Redis!Malformed(argv)
    BY <1>1, <1>3 DEF Redis!Malformed
  <1> QED
    BY <1>1, <1>3, <1>4 DEF new

LEMMA Prefixing ==
    /\ \A k \in Keys : VersionPrefix(k) \in RedisKeys /\ k \in RedisKeys
    /\ \A k, l : VersionPrefix(k) = VersionPrefix(l) => k = l
  BY DEF VersionPrefix, RedisKeys

\* Which words are keys.
LEMMA KeyWords ==
    ASSUME NEW argv, Ordinary(argv)
    PROVE  LET n == Len(argv) IN
           /\ n \in Nat
           /\ argv[1] \in {"GET", "SET"} => n >= 2 /\ KeyArgs(argv) = {2}
           /\ argv[1] = "OBJECT" => n = 3 /\ KeyArgs(argv) = {3}
           /\ argv[1] \in {"DEL", "MGET"} => n >= 2 /\ KeyArgs(argv) = 2..n
           /\ argv[1] = "MSET" => /\ n >= 3 /\ n % 2 = 1
                                 /\ KeyArgs(argv) = {i \in 2..n : i % 2 = 0}
           /\ argv[1] = "RENAME" => n = 3 /\ KeyArgs(argv) = 2..3
           /\ argv[1] = "SET" => n >= 3
  BY DEF Ordinary, Redis!Malformed, KeyArgs, SingleKey, ObjectLike, MultiKeyAll, MsetStyle,
         PairKey

\* Redis finds the keys where the proxy does.
LEMMA KeysPrefixed ==
    ASSUME NEW argv, Ordinary(argv),
           argv[1] \in {"GET", "SET", "OBJECT", "DEL", "MGET", "MSET"}
    PROVE  /\ Redis!KeysOf(argv) = {argv[i] : i \in KeyArgs(argv)}
           /\ Redis!KeysOf(Rewritten(argv)) = {VersionPrefix(k) : k \in Redis!KeysOf(argv)}
           /\ Redis!KeysOf(argv) \subseteq Keys
  <1> DEFINE new == Rewritten(argv)
  <1>1. /\ Len(argv) \in Nat /\ Len(new) = Len(argv) /\ new[1] = argv[1]
        /\ \A i \in KeyArgs(argv) : new[i] = VersionPrefix(argv[i])
    <2>1. KeyArgs(argv) \subseteq 1..Len(argv)
      BY DEF KeyArgs, Ordinary
    <2> QED
      BY <2>1, RewrittenWords DEF Ordinary
  <1> HIDE DEF new
  <1>2. /\ Redis!KeysOf(argv) = {argv[i] : i \in KeyArgs(argv)}
        /\ Redis!KeysOf(new) = {new[i] : i \in KeyArgs(argv)}
    BY <1>1, KeyWords DEF Redis!KeysOf
  <1>3. Redis!KeysOf(argv) \subseteq Keys
    BY <1>2 DEF Ordinary
  <1>4. Redis!KeysOf(new) = {VersionPrefix(k) : k \in Redis!KeysOf(argv)}
    BY <1>1, <1>2
  <1> QED
    BY <1>2, <1>3, <1>4 DEF new

\* MSET gives a prefixed key the value it gives the key.
LEMMA MsetAlike ==
    ASSUME NEW argv, Ordinary(argv), argv[1] = "MSET", NEW k \in Redis!KeysOf(argv)
    PROVE  Redis!MsetValue(Rewritten(argv), VersionPrefix(k)) = Redis!MsetValue(argv, k)
  <1> DEFINE new == Rewritten(argv)
             n == Len(argv)
             at == {i \in 3..n : i % 2 = 1 /\ argv[i - 1] = k}
             last == CHOOSE i \in at : \A j \in at : j <= i
  <1>1. /\ n \in Nat /\ n % 2 = 1 /\ KeyArgs(argv) = {i \in 2..n : i % 2 = 0}
        /\ Len(new) = n
        /\ \A i \in 1..n : new[i] = IF i \in KeyArgs(argv) THEN VersionPrefix(argv[i])
                                    ELSE argv[i]
    BY KeyWords, RewrittenWords DEF Ordinary
  <1> HIDE DEF new
  <1>2. {i \in 3..n : i % 2 = 1 /\ new[i - 1] = VersionPrefix(k)} = at
    <2> SUFFICES ASSUME NEW i \in 3..n, i % 2 = 1
                 PROVE  new[i - 1] = VersionPrefix(k) <=> argv[i - 1] = k
      OBVIOUS
    <2>1. i - 1 \in KeyArgs(argv) /\ i - 1 \in 1..n
      BY <1>1
    <2>2. new[i - 1] = VersionPrefix(argv[i - 1])
      BY <1>1, <2>1
    <2> QED
      BY <2>2, Prefixing
  <1>3. last \in at
    <2>1. PICK i \in KeyArgs(argv) : argv[i] = k
      BY KeysPrefixed
    <2>2. i + 1 \in at
      <3>1. i \in 2..n /\ i % 2 = 0
        BY <1>1, <2>1
      <3>2. i + 1 \in 3..n /\ (i + 1) % 2 = 1 /\ (i + 1) - 1 = i
        BY <1>1, <3>1
      <3> QED
        BY <2>1, <3>2
    <2> DEFINE T == {n - j : j \in at}
    <2>3. T \subseteq Nat /\ T # {}
      BY <1>1, <2>2
    <2>4. PICK m \in T : \A l \in T : m <= l
      BY <2>3, LeastNumber
    <2>5. PICK j \in at : m = n - j
      BY <2>4
    <2>6. \A l \in at : l <= j
      <3> SUFFICES ASSUME NEW l \in at PROVE l <= j
        OBVIOUS
      <3>1. l \in 3..n /\ j \in 3..n
        OBVIOUS
      <3>a. n - l \in T
        OBVIOUS
      <3> HIDE DEF T, at
      <3>2. n - j <= n - l
        BY <2>4, <2>5, <3>a
      <3> QED
        BY <1>1, <3>1, <3>2
    <2> HIDE DEF at
    <2> QED
      BY <2>5, <2>6
  <1>4. new[last] = argv[last]
    <2>1. last \in 3..n /\ last % 2 = 1
      BY <1>3
    <2> HIDE DEF last
    <2> QED
      BY <1>1, <2>1
  <1>5. Redis!MsetValue(argv, k) = argv[last]
    BY DEF Redis!MsetValue
  <1>6. Redis!MsetValue(new, VersionPrefix(k)) = new[last]
    BY <1>1, <1>2 DEF Redis!MsetValue
  <1> QED
    BY <1>4, <1>5, <1>6 DEF new

\* As many words as there are places, at most.
LEMMA FewWords ==
    ASSUME NEW I, IsFiniteSet(I), NEW argv
    PROVE  IsFiniteSet({argv[i] : i \in I})
  <1> DEFINE K == {argv[i] : i \in I}
             f == [i \in I |-> argv[i]]
  <1>1. f \in Surjection(I, K)
    BY DEF Surjection
  <1> HIDE DEF f, K
  <1>2. IsFiniteSet(K)
    BY <1>1, FS_Surjection
  <1> QED
    BY <1>2 DEF K

LEMMA SameCount == \A S : Redis!Cardinality(S) = Cardinality(S)
  BY DEF Redis!Cardinality, Cardinality

\* As many keys are there under the one names as under the other.
LEMMA CountAlike ==
    ASSUME NEW argv, Ordinary(argv), argv[1] \in {"DEL", "OBJECT"},
           NEW r, NEW p, Alike(r, p)
    PROVE  Cardinality(Redis!Existing(r, Rewritten(argv)))
             = Cardinality(Redis!Existing(p, argv))
  <1> DEFINE K == Redis!KeysOf(argv)
             A == {k \in K : p[k] # Nil}
             B == {k \in Redis!KeysOf(Rewritten(argv)) : r[k] # Nil}
  <1>1. K = {argv[i] : i \in KeyArgs(argv)} /\ K \subseteq Keys
        /\ Redis!KeysOf(Rewritten(argv)) = {VersionPrefix(k) : k \in K}
    BY KeysPrefixed
  <1>2. IsFiniteSet(K)
    <2> DEFINE I == KeyArgs(argv)
    <2>1. IsFiniteSet(I)
      <3>1. I \in SUBSET (2..Len(argv)) /\ 2 \in Int /\ Len(argv) \in Int
        BY DEF KeyArgs, Ordinary
      <3> HIDE DEF I
      <3> QED
        BY <3>1, FS_Interval, FS_Subset
    <2>2. K = {argv[i] : i \in I}
      BY <1>1
    <2> HIDE DEF I, K
    <2> QED
      BY <2>1, <2>2, FewWords
  <1>3. IsFiniteSet(A)
    <2> HIDE DEF K
    <2> QED
      BY <1>2, FS_Subset
  <1>4. B = {VersionPrefix(k) : k \in A}
    <2>1. \A k \in K : r[VersionPrefix(k)] = p[k]
      BY <1>1 DEF Alike
    <2> HIDE DEF K
    <2> QED
      BY <1>1, <2>1
  <1>5. ExistsBijection(A, B)
    <2> DEFINE f == [k \in A |-> VersionPrefix(k)]
    <2>1. f \in [A -> B] /\ \A b \in B : \E a \in A : f[a] = b
      BY <1>4
    <2>2. \A a1, a2 \in A : f[a1] = f[a2] => a1 = a2
      BY Prefixing
    <2> HIDE DEF f, A, B
    <2>3. f \in Surjection(A, B)
      BY <2>1 DEF Surjection
    <2>4. f \in Injection(A, B)
      BY <2>1, <2>2 DEF Injection, IsInjective
    <2> QED
      BY <2>3, <2>4 DEF ExistsBijection, Bijection
  <1> HIDE DEF A, B
  <1>6. Cardinality(B) = Cardinality(A)
    BY <1>3, <1>5, FS_Bijection
  <1> QED
    BY <1>6 DEF A, B, Redis!Existing

\* A rewritten command does to the prefixed names what the command does to
\* the names,
LEMMA EffectAlike ==
    ASSUME NEW argv, Ordinary(argv), NEW r, NEW p, Alike(r, p)
    PROVE  Alike(Redis!Effect(r, Rewritten(argv)), Redis!Effect(p, argv))
  <1> DEFINE new == Rewritten(argv)
             n == Len(argv)
  <1>1. /\ n \in Nat \ {0} /\ Len(new) = n /\ new[1] = argv[1]
        /\ \A i \in 1..n : new[i] = IF i \in KeyArgs(argv) THEN VersionPrefix(argv[i])
                                    ELSE argv[i]
        /\ \A i \in KeyArgs(argv) : argv[i] \in Keys
    BY RewrittenWords DEF Ordinary
  <1>2. /\ \A k \in Keys : VersionPrefix(k) \in RedisKeys /\ k \in RedisKeys
        /\ \A k, l : VersionPrefix(k) = VersionPrefix(l) => k = l
    BY Prefixing
  <1> HIDE DEF new
  <1>3. CASE argv[1] = "SET"
    <2>1. new[2] = VersionPrefix(argv[2]) /\ new[3] = argv[3] /\ argv[2] \in Keys
      <3>1. n >= 3 /\ KeyArgs(argv) = {2}
        BY <1>3, KeyWords
      <3> QED
        BY <1>1, <3>1
    <2>2. /\ Redis!Effect(r, new) = [r EXCEPT ![VersionPrefix(argv[2])] = argv[3]]
          /\ Redis!Effect(p, argv) = [p EXCEPT ![argv[2]] = argv[3]]
      BY <1>1, <1>3, <2>1 DEF Redis!Effect
    <2>3. VersionPrefix(argv[2]) \in RedisKeys /\ argv[2] \in RedisKeys
      BY <1>2, <2>1
    <2>4. /\ Redis!Effect(r, new)
                = [k \in RedisKeys |-> IF k = VersionPrefix(argv[2]) THEN argv[3] ELSE r[k]]
          /\ Redis!Effect(p, argv)
                = [k \in RedisKeys |-> IF k = argv[2] THEN argv[3] ELSE p[k]]
      BY <2>2, <2>3 DEF Alike
    <2> QED
      BY <1>2, <2>4 DEF Alike, new
  <1>4. CASE argv[1] = "MSET"
    <2>1. /\ Redis!KeysOf(new) = {VersionPrefix(k) : k \in Redis!KeysOf(argv)}
          /\ Redis!KeysOf(argv) \subseteq Keys
      BY <1>4, KeysPrefixed DEF new
    <2>2. \A k \in Redis!KeysOf(argv) :
            Redis!MsetValue(new, VersionPrefix(k)) = Redis!MsetValue(argv, k)
      BY <1>4, MsetAlike DEF new
    <2>3. /\ Redis!Effect(r, new) = [k \in RedisKeys |->
                IF k \in Redis!KeysOf(new) THEN Redis!MsetValue(new, k) ELSE r[k]]
          /\ Redis!Effect(p, argv) = [k \in RedisKeys |->
                IF k \in Redis!KeysOf(argv) THEN Redis!MsetValue(argv, k) ELSE p[k]]
      BY <1>1, <1>4 DEF Redis!Effect, Alike
    <2>4. \A k \in Keys : VersionPrefix(k) \in Redis!KeysOf(new) <=> k \in Redis!KeysOf(argv)
      BY <1>2, <2>1
    <2> QED
      BY <1>2, <2>2, <2>3, <2>4 DEF Alike, new
  <1>5. CASE argv[1] = "DEL"
    <2>1. /\ Redis!KeysOf(new) = {VersionPrefix(k) : k \in Redis!KeysOf(argv)}
          /\ Redis!KeysOf(argv) \subseteq Keys
      BY <1>5, KeysPrefixed DEF new
    <2>2. /\ Redis!Effect(r, new) = [k \in RedisKeys |->
                IF k \in Redis!KeysOf(new) THEN Nil ELSE r[k]]
          /\ Redis!Effect(p, argv) = [k \in RedisKeys |->
                IF k \in Redis!KeysOf(argv) THEN Nil ELSE p[k]]
      BY <1>1, <1>5 DEF Redis!Effect, Alike
    <2>3. \A k \in Keys : VersionPrefix(k) \in Redis!KeysOf(new) <=> k \in Redis!KeysOf(argv)
      BY <1>2, <2>1
    <2> QED
      BY <1>2, <2>2, <2>3 DEF Alike, new
  <1>6. CASE argv[1] = "RENAME"
    <2>1. /\ new[2] = VersionPrefix(argv[2]) /\ argv[2] \in Keys
          /\ new[3] = VersionPrefix(argv[3]) /\ argv[3] \in Keys
      <3>1. n = 3 /\ KeyArgs(argv) = 2..3
        BY <1>6, KeyWords
      <3> QED
        BY <1>1, <3>1
    <2>2. r[new[2]] = p[argv[2]]
      BY <2>1 DEF Alike
    <2>3. CASE p[argv[2]] = Nil
      <3>1. Redis!Effect(r, new) = r /\ Redis!Effect(p, argv) = p
        BY <1>1, <1>6, <2>2, <2>3 DEF Redis!Effect
      <3> QED
        BY <3>1 DEF new
    <2>4. CASE p[argv[2]] # Nil
      <3>1. /\ Redis!Effect(r, new)
                = [r EXCEPT ![VersionPrefix(argv[2])] = Nil,
                            ![VersionPrefix(argv[3])] = p[argv[2]]]
            /\ Redis!Effect(p, argv)
                = [p EXCEPT ![argv[2]] = Nil, ![argv[3]] = p[argv[2]]]
        BY <1>1, <1>6, <2>1, <2>2, <2>4 DEF Redis!Effect
      <3>2. /\ Redis!Effect(r, new)
                = [k \in RedisKeys |-> IF k = VersionPrefix(argv[3]) THEN p[argv[2]]
                                       ELSE IF k = VersionPrefix(argv[2]) THEN Nil
                                       ELSE r[k]]
            /\ Redis!Effect(p, argv)
                = [k \in RedisKeys |-> IF k = argv[3] THEN p[argv[2]]
                                       ELSE IF k = argv[2] THEN Nil ELSE p[k]]
        BY <1>2, <2>1, <3>1 DEF Alike
      <3> QED
        BY <1>2, <3>2 DEF Alike, new
    <2> QED
      BY <2>3, <2>4
  <1>7. CASE argv[1] \notin {"SET", "MSET", "DEL", "RENAME"}
    <2>1. Redis!Effect(r, new) = r /\ Redis!Effect(p, argv) = p
      BY <1>1, <1>7 DEF Redis!Effect
    <2> QED
      BY <2>1 DEF new
  <1> QED
    BY <1>3, <1>4, <1>5, <1>6, <1>7

\* and has the same answer.
LEMMA AnswerAlike ==
    ASSUME NEW argv, Ordinary(argv), NEW r, NEW p, Alike(r, p)
    PROVE  Redis!Answer(r, Rewritten(argv)) = Redis!Answer(p, argv)
  <1> DEFINE new == Rewritten(argv)
             n == Len(argv)
  <1>1. /\ n \in Nat \ {0} /\ Len(new) = n /\ new[1] = argv[1]
        /\ \A i \in 1..n : new[i] = IF i \in KeyArgs(argv) THEN VersionPrefix(argv[i])
                                    ELSE argv[i]
        /\ \A i \in KeyArgs(argv) : argv[i] \in Keys
    BY RewrittenWords DEF Ordinary
  <1>2. \A i \in KeyArgs(argv) : i \in 1..n => r[new[i]] = p[argv[i]]
    BY <1>1 DEF Alike
  <1>3. argv[1] # "PFCOUNT"
    BY DEF Ordinary
  <1> HIDE DEF new
  <1>4. CASE argv[1] = "GET"
    <2>1. r[new[2]] = p[argv[2]]
      BY <1>1, <1>2, <1>4, KeyWords
    <2> QED
      BY <1>1, <1>4, <2>1 DEF Redis!Answer, new
  <1>5. CASE argv[1] = "MGET"
    <2>1. KeyArgs(argv) = 2..n
      BY <1>5, KeyWords
    <2>2. [i \in 1..(n - 1) |-> r[new[i + 1]]] = [i \in 1..(n - 1) |-> p[argv[i + 1]]]
      BY <1>1, <1>2, <2>1
    <2> QED
      BY <1>1, <1>5, <2>2 DEF Redis!Answer, new
  <1>6. CASE argv[1] \in {"DEL", "OBJECT"}
    <2>1. Cardinality(Redis!Existing(r, new)) = Cardinality(Redis!Existing(p, argv))
      BY <1>6, CountAlike DEF new
    <2>2. /\ Redis!Answer(r, new) = Redis!Number(Cardinality(Redis!Existing(r, new)))
          /\ Redis!Answer(p, argv) = Redis!Number(Cardinality(Redis!Existing(p, argv)))
      BY <1>1, <1>6, SameCount DEF Redis!Answer
    <2> QED
      BY <2>1, <2>2 DEF new
  <1>7. CASE argv[1] = "RENAME"
    <2>1. r[new[2]] = p[argv[2]]
      BY <1>1, <1>2, <1>7, KeyWords
    <2> QED
      BY <1>1, <1>7, <2>1 DEF Redis!Answer, new
  <1>8. CASE argv[1] \notin {"GET", "MGET", "DEL", "OBJECT", "RENAME"}
    BY <1>1, <1>3, <1>8 DEF Redis!Answer, new
  <1> QED
    BY <1>4, <1>5, <1>6, <1>7, <1>8

\* The transaction of a connection here, qr, and there, qp.
Matched(qr, qp) ==
    LET n == Len(qp) IN
    /\ n \in Nat /\ Len(qr) = n /\ DOMAIN qr = 1..n /\ DOMAIN qp = 1..n
    /\ \A i \in 1..n : Ordinary(qp[i]) /\ qr[i] = Rewritten(qp[i])

\* So do lists of commands.
LEMMA RunAlike ==
    ASSUME NEW qr, NEW qp, Matched(qr, qp), NEW r, NEW p, Alike(r, p)
    PROVE  /\ Alike(Redis!Run(r, qr).db, Redis!Run(p, qp).db)
           /\ Redis!Run(r, qr).answers = Redis!Run(p, qp).answers
  <1> DEFINE f == Redis!After(r, qr)
             g == Redis!After(p, qp)
             n == Len(qp)
             T == {m \in Nat : m <= n /\ ~Alike(f[m], g[m])}
  <1>1. /\ n \in Nat /\ Len(qr) = n /\ DOMAIN qr = 1..n /\ DOMAIN qp = 1..n
        /\ \A i \in 1..n : Ordinary(qp[i]) /\ qr[i] = Rewritten(qp[i])
    BY DEF Matched
  <1> HIDE DEF n
  <1>2. /\ f[0] = r /\ \A i \in 1..n : f[i] = Redis!Effect(f[i - 1], qr[i])
        /\ g[0] = p /\ \A i \in 1..n : g[i] = Redis!Effect(g[i - 1], qp[i])
    <2>1. Steps(f, r, qr, n) /\ Steps(g, p, qp, n)
      BY <1>1, AfterSteps DEF n
    <2> HIDE DEF f, g
    <2> QED
      BY <1>1, <2>1 DEF Steps
  <1> HIDE DEF f, g, T
  <1>3. ASSUME T # {} PROVE FALSE
    <2>1. T \subseteq Nat
      BY DEF T
    <2>2. PICK m \in T : \A k \in T : m <= k
      BY <1>3, <2>1, LeastNumber
    <2>3. m \in 1..n /\ m - 1 \in Nat /\ m - 1 <= n /\ m - 1 \notin T
      BY <1>1, <1>2, <2>2 DEF T
    <2>4. Alike(f[m - 1], g[m - 1]) /\ ~Alike(f[m], g[m])
      BY <2>2, <2>3 DEF T
    <2>5. Alike(Redis!Effect(f[m - 1], qr[m]), Redis!Effect(g[m - 1], qp[m]))
      BY <1>1, <2>3, <2>4, EffectAlike
    <2> QED
      BY <1>2, <2>3, <2>4, <2>5
  <1>4. \A i \in 0..n : Alike(f[i], g[i])
    <2> SUFFICES ASSUME NEW i \in 0..n, ~Alike(f[i], g[i]) PROVE FALSE
      OBVIOUS
    <2>1. i \in T
      BY <1>1 DEF T
    <2> QED
      BY <1>3, <2>1
  <1>5. \A i \in 1..n : Redis!Answer(f[i - 1], qr[i]) = Redis!Answer(g[i - 1], qp[i])
    <2> SUFFICES ASSUME NEW i \in 1..n
                 PROVE  Redis!Answer(f[i - 1], qr[i]) = Redis!Answer(g[i - 1], qp[i])
      OBVIOUS
    <2>1. Alike(f[i - 1], g[i - 1])
      BY <1>1, <1>4
    <2> QED
      BY <1>1, <2>1, AnswerAlike
  <1>6. Redis!Run(r, qr).db = f[n] /\ Redis!Run(p, qp).db = g[n]
    BY <1>1 DEF Redis!Run, f, g, n
  <1>7. /\ Redis!Run(r, qr).answers = [i \in 1..n |-> Redis!Answer(f[i - 1], qr[i])]
        /\ Redis!Run(p, qp).answers = [i \in 1..n |-> Redis!Answer(g[i - 1], qp[i])]
    BY <1>1 DEF Redis!Run, f, g
  <1> QED
    BY <1>1, <1>4, <1>5, <1>6, <1>7

\* The proxied Redis r and the plain one p, while nothing is watched.
Sync(r, p) ==
    /\ IsServer(r) /\ IsServer(p) /\ Alike(r.db, p.db)
    /\ r.watched = [c \in Conns |-> {}] /\ p.watched = r.watched
    /\ r.dirty = [c \in Conns |-> FALSE] /\ p.dirty = r.dirty
    /\ p.aborted = r.aborted /\ p.multi = r.multi /\ p.subscribed = r.subscribed
    /\ p.silent = r.silent
    /\ \A c \in Conns : Matched(r.queue[c], p.queue[c])

\* A command sets off the same in both.
LEMMA SetOffAlike ==
    ASSUME NEW r, NEW p, Sync(r, p), NEW c \in Conns, NEW argv,
           Len(argv) \in Nat \ {0}, DOMAIN argv = 1..Len(argv),
           \A i \in KeyArgs(argv) : argv[i] \in Keys, argv[1] # "PFCOUNT"
    PROVE  Matched(Redis!SetOff(r, c, Rewritten(argv)), Redis!SetOff(p, c, argv))
  <1> DEFINE new == Rewritten(argv)
  <1>1. new[1] = argv[1] /\ Redis!Malformed(new) = Redis!Malformed(argv)
    BY RewrittenWords
  <1>2. Matched(<<>>, <<>>)
    BY DEF Matched
  <1>3. ~Redis!Malformed(argv) => Matched(<<new>>, <<argv>>)
    BY DEF Matched, Ordinary
  <1>4. Matched(r.queue[c], p.queue[c])
    BY DEF Sync
  <1>5. /\ p.multi[c] = r.multi[c] /\ p.subscribed[c] = r.subscribed[c]
        /\ p.dirty[c] = r.dirty[c] /\ p.aborted[c] = r.aborted[c]
    BY DEF Sync
  <1> HIDE DEF new
  <1>6. \/ Redis!SetOff(r, c, new) = r.queue[c] /\ Redis!SetOff(p, c, argv) = p.queue[c]
        \/ Redis!SetOff(r, c, new) = <<>> /\ Redis!SetOff(p, c, argv) = <<>>
        \/ /\ Redis!SetOff(r, c, new) = <<new>> /\ Redis!SetOff(p, c, argv) = <<argv>>
           /\ ~Redis!Malformed(argv)
    BY <1>1, <1>5 DEF Redis!SetOff
  <1> QED
    BY <1>2, <1>3, <1>4, <1>6 DEF new

\* Servers with a table replaced in the same way.
LEMMA QueuesMatch ==
    ASSUME NEW r, NEW p, Sync(r, p), NEW c \in Conns, NEW argv, Ordinary(argv)
    PROVE  Matched(Append(r.queue[c], Rewritten(argv)), Append(p.queue[c], argv))
  <1> DEFINE qr == r.queue[c]
             qp == p.queue[c]
             n == Len(qp)
             new == Rewritten(argv)
  <1>1. /\ n \in Nat /\ Len(qr) = n /\ DOMAIN qr = 1..n /\ DOMAIN qp = 1..n
        /\ \A i \in 1..n : Ordinary(qp[i]) /\ qr[i] = Rewritten(qp[i])
    BY DEF Sync, Matched
  <1>2. PICK S : r.queue \in [Conns -> Seq(S)]
    BY DEF Sync, IsServer, IsQueues
  <1>3. PICK T : p.queue \in [Conns -> Seq(T)]
    BY DEF Sync, IsServer, IsQueues
  <1>4. qr \in Seq(S) /\ qp \in Seq(T)
    BY <1>2, <1>3
  <1> HIDE DEF qr, qp, n, new
  <1>5. /\ Len(Append(qr, new)) = n + 1 /\ DOMAIN Append(qr, new) = 1..(n + 1)
        /\ \A i \in 1..(n + 1) : Append(qr, new)[i] = IF i = n + 1 THEN new ELSE qr[i]
    <2>1. Append(qr, new) \in Seq(S \cup {new})
      BY <1>4
    <2> QED
      BY <1>1, <1>4, <2>1
  <1>6. /\ Len(Append(qp, argv)) = n + 1 /\ DOMAIN Append(qp, argv) = 1..(n + 1)
        /\ \A i \in 1..(n + 1) : Append(qp, argv)[i] = IF i = n + 1 THEN argv ELSE qp[i]
    <2>1. Append(qp, argv) \in Seq(T \cup {argv})
      BY <1>4
    <2> QED
      BY <1>1, <1>4, <2>1 DEF n
  <1>7. \A i \in 1..(n + 1) : /\ Ordinary(Append(qp, argv)[i])
                              /\ Append(qr, new)[i] = Rewritten(Append(qp, argv)[i])
    <2> SUFFICES ASSUME NEW i \in 1..(n + 1)
                 PROVE  /\ Ordinary(Append(qp, argv)[i])
                        /\ Append(qr, new)[i] = Rewritten(Append(qp, argv)[i])
      OBVIOUS
    <2>1. CASE i = n + 1
      BY <1>5, <1>6, <2>1 DEF new
    <2>2. CASE i # n + 1
      <3>1. i \in 1..n
        BY <1>1, <2>2
      <3> QED
        BY <1>1, <1>5, <1>6, <2>2, <3>1
    <2> QED
      BY <2>1, <2>2
  <1>8. Matched(Append(qr, new), Append(qp, argv))
    BY <1>1, <1>5, <1>6, <1>7 DEF Matched
  <1> QED
    BY <1>8 DEF qr, qp, new

\* Two servers of the same tables but for keys and queues.
LEMMA SyncTables ==
    ASSUME NEW r, NEW p, NEW dbr, NEW dbp, NEW queuer, NEW queuep,
           NEW aborted, NEW multi, NEW subscribed, NEW silent,
           r = [db |-> dbr, watched |-> [c \in Conns |-> {}],
                dirty |-> [c \in Conns |-> FALSE], aborted |-> aborted, multi |-> multi,
                queue |-> queuer, subscribed |-> subscribed, silent |-> silent],
           p = [db |-> dbp, watched |-> [c \in Conns |-> {}],
                dirty |-> [c \in Conns |-> FALSE], aborted |-> aborted, multi |-> multi,
                queue |-> queuep, subscribed |-> subscribed, silent |-> silent],
           Alike(dbr, dbp), DOMAIN aborted = Conns, DOMAIN multi = Conns,
           DOMAIN subscribed = Conns, DOMAIN silent = Conns,
           IsQueues(queuer), IsQueues(queuep),
           \A c \in Conns : Matched(queuer[c], queuep[c])
    PROVE  Sync(r, p)
  <1>1. DOMAIN dbr = RedisKeys /\ DOMAIN dbp = RedisKeys
    BY DEF Alike
  <1>2. IsServer(r) /\ IsServer(p)
    BY <1>1 DEF IsServer
  <1> QED
    BY <1>2 DEF Sync

\* Serve, case by case.  A command that reads or writes keys:
Plainly(argv) ==
    argv[1] \notin {"SUBSCRIBE", "CLIENT", "MULTI", "WATCH", "EXEC", "DISCARD"}

\* What s is when it has run what argv sets off.
Ran(s, c, argv) ==
    LET run == Redis!Run(s.db, Redis!SetOff(s, c, argv))
    IN [s EXCEPT !.db = run.db,
                 !.dirty = [d \in Conns |-> @[d] \/ s.watched[d] \cap run.wrote # {}]]
Answers(s, c, argv) == Redis!Run(s.db, Redis!SetOff(s, c, argv)).answers

LEMMA Subscribes ==
    ASSUME NEW s, NEW c, NEW argv,
           argv[1] = "SUBSCRIBE", ~s.multi[c]
    PROVE  Redis!Serve(s, c, argv) =
             [srv |-> [s EXCEPT !.subscribed[c] = TRUE],
               out |-> [i \in 1..(Len(argv) - 1) |-> Ok]]
  BY DEF Redis!Serve, Plainly, Ran, Answers, Redis!Malformed

LEMMA Subscribed ==
    ASSUME NEW s, NEW c, NEW argv,
           argv[1] # "SUBSCRIBE", s.subscribed[c]
    PROVE  Redis!Serve(s, c, argv) =
             [srv |-> s, out |-> <<Error>>]
  BY DEF Redis!Serve, Plainly, Ran, Answers, Redis!Malformed

LEMMA TurnsSilent ==
    ASSUME NEW s, NEW c, NEW argv,
           argv[1] = "CLIENT", ~s.subscribed[c], ~s.multi[c]
    PROVE  Redis!Serve(s, c, argv) =
             [srv |-> [s EXCEPT !.silent[c] = TRUE], out |-> <<>>]
  BY DEF Redis!Serve, Plainly, Ran, Answers, Redis!Malformed

LEMMA Begins ==
    ASSUME NEW s, NEW c, NEW argv,
           argv[1] = "MULTI", ~s.subscribed[c], ~s.multi[c]
    PROVE  Redis!Serve(s, c, argv) =
             [srv |-> [s EXCEPT !.multi[c] = TRUE], out |-> <<Ok>>]
  BY DEF Redis!Serve, Plainly, Ran, Answers, Redis!Malformed

LEMMA Executes ==
    ASSUME NEW s, NEW c, NEW argv,
           argv[1] = "EXEC", ~s.subscribed[c], s.multi[c]
    PROVE  Redis!Serve(s, c, argv) =
             [srv |-> Redis!EndMulti(Ran(s, c, argv), c),
               out |-> <<IF s.aborted[c] THEN Error
                         ELSE IF s.dirty[c] THEN Nil ELSE Redis!Array(Answers(s, c, argv))>>]
  BY DEF Redis!Serve, Plainly, Ran, Answers, Redis!Malformed

LEMMA Discards ==
    ASSUME NEW s, NEW c, NEW argv,
           argv[1] = "DISCARD", ~s.subscribed[c], s.multi[c]
    PROVE  Redis!Serve(s, c, argv) =
             [srv |-> Redis!EndMulti(s, c), out |-> <<Ok>>]
  BY DEF Redis!Serve, Plainly, Ran, Answers, Redis!Malformed

LEMMA EndsNothing ==
    ASSUME NEW s, NEW c, NEW argv,
           argv[1] \in {"EXEC", "DISCARD"}, ~s.subscribed[c], ~s.multi[c]
    PROVE  Redis!Serve(s, c, argv) =
             [srv |-> s, out |-> <<Error>>]
  BY DEF Redis!Serve, Plainly, Ran, Answers, Redis!Malformed

LEMMA Nests ==
    ASSUME NEW s, NEW c, NEW argv,
           argv[1] = "MULTI", ~s.subscribed[c], s.multi[c]
    PROVE  Redis!Serve(s, c, argv) =
             [srv |-> s, out |-> <<Error>>]
  BY DEF Redis!Serve, Plainly, Ran, Answers, Redis!Malformed

LEMMA Refuses ==
    ASSUME NEW s, NEW c, NEW argv,
           Plainly(argv), ~s.subscribed[c], Redis!Malformed(argv)
    PROVE  Redis!Serve(s, c, argv) =
             [srv |-> [s EXCEPT !.aborted[c] = s.multi[c]], out |-> <<Error>>]
  BY DEF Redis!Serve, Plainly, Ran, Answers, Redis!Malformed

LEMMA Enqueues ==
    ASSUME NEW s, NEW c, NEW argv,
           Plainly(argv) \/ argv[1] \in {"SUBSCRIBE", "CLIENT"}, s.multi[c],
           argv[1] = "SUBSCRIBE" \/ ~s.subscribed[c], ~Redis!Malformed(argv)
    PROVE  Redis!Serve(s, c, argv) =
             [srv |-> [s EXCEPT !.queue[c] = Append(s.queue[c], argv)], out |-> <<Queued>>]
  BY DEF Redis!Serve, Plainly, Ran, Answers, Redis!Malformed

LEMMA Runs ==
    ASSUME NEW s, NEW c, NEW argv,
           Plainly(argv), ~s.subscribed[c], ~s.multi[c], ~Redis!Malformed(argv)
    PROVE  Redis!Serve(s, c, argv) =
             [srv |-> Ran(s, c, argv), out |-> Answers(s, c, argv)]
  BY DEF Redis!Serve, Plainly, Ran, Answers, Redis!Malformed

\* While nothing is watched, no transaction is made to fail.
Unwatched(s) ==
    /\ IsServer(s)
    /\ s.watched = [d \in Conns |-> {}] /\ s.dirty = [d \in Conns |-> FALSE]

LEMMA RanUnwatched ==
    ASSUME NEW s, Unwatched(s), NEW c, NEW argv
    PROVE  Ran(s, c, argv) = [s EXCEPT !.db = Redis!Run(s.db, Redis!SetOff(s, c, argv)).db]
  <1>1. PICK run : run = Redis!Run(s.db, Redis!SetOff(s, c, argv))
    OBVIOUS
  <1>2. \A d \in Conns : (s.dirty[d] \/ s.watched[d] \cap run.wrote # {}) = FALSE
    BY DEF Unwatched
  <1>3. [d \in Conns |-> s.dirty[d] \/ s.watched[d] \cap run.wrote # {}]
          = [d \in Conns |-> FALSE]
    BY <1>2, Zenon
  <1>4. Ran(s, c, argv) = [s EXCEPT !.db = run.db,
               !.dirty = [d \in Conns |-> s.dirty[d] \/ s.watched[d] \cap run.wrote # {}]]
    BY <1>1 DEF Ran
  <1>5. Ran(s, c, argv) = [s EXCEPT !.db = run.db, !.dirty = [d \in Conns |-> FALSE]]
    BY <1>3, <1>4
  <1> QED
    BY <1>1, <1>5 DEF IsServer, Unwatched

LEMMA EndsAlike ==
    ASSUME NEW r, NEW p, NEW dbr, NEW dbp, NEW queuer, NEW queuep,
           NEW aborted, NEW multi, NEW subscribed, NEW silent,
           r = [db |-> dbr, watched |-> [d \in Conns |-> {}],
                dirty |-> [d \in Conns |-> FALSE], aborted |-> aborted, multi |-> multi,
                queue |-> queuer, subscribed |-> subscribed, silent |-> silent],
           p = [db |-> dbp, watched |-> [d \in Conns |-> {}],
                dirty |-> [d \in Conns |-> FALSE], aborted |-> aborted, multi |-> multi,
                queue |-> queuep, subscribed |-> subscribed, silent |-> silent],
           Alike(dbr, dbp), DOMAIN aborted = Conns, DOMAIN multi = Conns,
           DOMAIN subscribed = Conns, DOMAIN silent = Conns,
           IsQueues(queuer), IsQueues(queuep),
           \A d \in Conns : Matched(queuer[d], queuep[d]), NEW c \in Conns
    PROVE  Sync(Redis!EndMulti(r, c), Redis!EndMulti(p, c))
  <1>1. Sync(r, p)
    BY SyncTables
  <1>2. PICK nr, np : nr = Redis!EndMulti(r, c) /\ np = Redis!EndMulti(p, c)
    OBVIOUS
  <1>3. IsServer(nr) /\ IsServer(np)
    BY <1>1, <1>2, Ending DEF Sync
  <1>4. /\ nr.queue = [queuer EXCEPT ![c] = <<>>] /\ np.queue = [queuep EXCEPT ![c] = <<>>]
        /\ nr.db = dbr /\ np.db = dbp /\ nr.aborted = np.aborted /\ nr.multi = np.multi
        /\ nr.subscribed = np.subscribed /\ nr.silent = np.silent
    BY <1>2 DEF Redis!EndMulti
  <1>5. /\ nr.watched = [d \in Conns |-> {}] /\ np.watched = [d \in Conns |-> {}]
        /\ nr.dirty = [d \in Conns |-> FALSE] /\ np.dirty = [d \in Conns |-> FALSE]
    BY <1>2 DEF Redis!EndMulti
  <1>6. \A d \in Conns : Matched(nr.queue[d], np.queue[d])
    <2>1. Matched(<<>>, <<>>)
      BY DEF Matched
    <2>2. DOMAIN queuer = Conns /\ DOMAIN queuep = Conns
      BY DEF IsQueues
    <2> QED
      BY <1>4, <2>1, <2>2
  <1> QED
    BY <1>2, <1>3, <1>4, <1>5, <1>6 DEF Sync

\* A rewritten command is served as the command is.
LEMMA ServedAlike ==
    ASSUME NEW r, NEW p, Sync(r, p), NEW c \in Conns, NEW argv,
           Len(argv) \in Nat \ {0}, DOMAIN argv = 1..Len(argv),
           \A i \in KeyArgs(argv) : argv[i] \in Keys, argv[1] \notin {"WATCH", "PFCOUNT"}
    PROVE  /\ Sync(Redis!Serve(r, c, Rewritten(argv)).srv, Redis!Serve(p, c, argv).srv)
           /\ Redis!Serve(r, c, Rewritten(argv)).out = Redis!Serve(p, c, argv).out
  <1>1. PICK new : new = Rewritten(argv)
    OBVIOUS
  <1>2. /\ new[1] = argv[1] /\ Len(new) = Len(argv) /\ (Plainly(new) <=> Plainly(argv))
        /\ Redis!Malformed(new) <=> Redis!Malformed(argv)
    BY <1>1, RewrittenWords DEF Plainly
  <1> DEFINE none == [d \in Conns |-> {}]
             no == [d \in Conns |-> FALSE]
             Server(db, aborted, multi, queue, subscribed, silent) ==
                [db |-> db, watched |-> none, dirty |-> no, aborted |-> aborted,
                 multi |-> multi, queue |-> queue, subscribed |-> subscribed,
                 silent |-> silent]
  <1>3. PICK dbr, dbp, aborted, multi, qr, qp, subscribed, silent :
          /\ r = Server(dbr, aborted, multi, qr, subscribed, silent)
          /\ p = Server(dbp, aborted, multi, qp, subscribed, silent)
    BY DEF Sync, IsServer
  <1>4. /\ DOMAIN aborted = Conns /\ DOMAIN multi = Conns /\ DOMAIN subscribed = Conns
        /\ DOMAIN silent = Conns /\ Alike(dbr, dbp) /\ IsQueues(qr) /\ IsQueues(qp)
        /\ \A d \in Conns : Matched(qr[d], qp[d])
    BY <1>3 DEF Sync, IsServer
  <1>5. /\ r.multi[c] = multi[c] /\ p.multi[c] = multi[c]
        /\ r.subscribed[c] = subscribed[c] /\ p.subscribed[c] = subscribed[c]
        /\ r.aborted[c] = aborted[c] /\ p.aborted[c] = aborted[c]
        /\ r.dirty[c] = FALSE /\ p.dirty[c] = FALSE
    BY <1>3
  <1>6. PICK answers : Answers(r, c, new) = answers /\ Answers(p, c, argv) = answers
    <2>1. Matched(Redis!SetOff(r, c, new), Redis!SetOff(p, c, argv))
      BY <1>1, SetOffAlike
    <2>2. Alike(r.db, p.db)
      BY DEF Sync
    <2> QED
      BY <2>1, <2>2, RunAlike DEF Answers
  <1>a. PICK yes : yes = TRUE
    OBVIOUS
  <1>7. \E er, ep : /\ Ran(r, c, new) = Server(er, aborted, multi, qr, subscribed, silent)
                   /\ Ran(p, c, argv) = Server(ep, aborted, multi, qp, subscribed, silent)
                   /\ Alike(er, ep)
    <2>1. Matched(Redis!SetOff(r, c, new), Redis!SetOff(p, c, argv))
      BY <1>1, SetOffAlike
    <2>2. Alike(r.db, p.db)
      BY DEF Sync
    <2>3. PICK runr, runp : /\ runr = Redis!Run(r.db, Redis!SetOff(r, c, new))
                            /\ runp = Redis!Run(p.db, Redis!SetOff(p, c, argv))
      OBVIOUS
    <2>4. Alike(runr.db, runp.db)
      BY <2>1, <2>2, <2>3, RunAlike
    <2>5. /\ Ran(r, c, new) = [r EXCEPT !.db = runr.db]
          /\ Ran(p, c, argv) = [p EXCEPT !.db = runp.db]
      <3>1. Unwatched(r) /\ Unwatched(p)
        BY DEF Sync, Unwatched
      <3>2. Ran(r, c, new) = [r EXCEPT !.db = runr.db]
        BY <2>3, <3>1, RanUnwatched
      <3>3. Ran(p, c, argv) = [p EXCEPT !.db = runp.db]
        BY <2>3, <3>1, RanUnwatched
      <3> QED
        BY <3>2, <3>3
    <2>6. /\ Ran(r, c, new) = Server(runr.db, aborted, multi, qr, subscribed, silent)
          /\ Ran(p, c, argv) = Server(runp.db, aborted, multi, qp, subscribed, silent)
      BY <1>3, <2>5
    <2> QED
      BY <2>4, <2>5, <2>6
  <1> HIDE DEF Server
  <1>8. \A ar, br, cr, dr, er, fr, gr, hr :
          (/\ Alike(ar, br) /\ DOMAIN cr = Conns /\ DOMAIN dr = Conns /\ DOMAIN er = Conns
           /\ DOMAIN fr = Conns /\ IsQueues(gr) /\ IsQueues(hr)
           /\ \A d \in Conns : Matched(gr[d], hr[d]))
          => Sync(Server(ar, cr, dr, gr, er, fr), Server(br, cr, dr, hr, er, fr))
    BY SyncTables DEF Server
  <1>9. CASE argv[1] = "SUBSCRIBE" /\ ~multi[c]
    <2>1. PICK on : on = [subscribed EXCEPT ![c] = yes]
      OBVIOUS
    <2>2. /\ Redis!Serve(r, c, new) = [srv |-> [r EXCEPT !.subscribed[c] = yes], out |-> [i \in 1..(Len(argv) - 1) |-> Ok]]
          /\ Redis!Serve(p, c, argv) = [srv |-> [p EXCEPT !.subscribed[c] = yes], out |-> [i \in 1..(Len(argv) - 1) |-> Ok]]
      <3>1. Redis!Serve(r, c, new) = [srv |-> [r EXCEPT !.subscribed[c] = TRUE],
                                      out |-> [i \in 1..(Len(new) - 1) |-> Ok]]
        BY <1>2, <1>5, <1>9, Subscribes
      <3>2. Redis!Serve(p, c, argv) = [srv |-> [p EXCEPT !.subscribed[c] = TRUE],
                                       out |-> [i \in 1..(Len(argv) - 1) |-> Ok]]
        BY <1>5, <1>9, Subscribes
      <3>3. Len(new) = Len(argv)
        BY <1>2
      <3> QED
        BY <1>a, <3>1, <3>2, <3>3
    <2>3. /\ [r EXCEPT !.subscribed[c] = yes] = Server(dbr, aborted, multi, qr, on, silent)
          /\ [p EXCEPT !.subscribed[c] = yes] = Server(dbp, aborted, multi, qp, on, silent)
      <3> HIDE DEF none, no
      <3> QED
        BY <1>3, <1>5, <2>1 DEF Server
    <2>4. DOMAIN on = Conns
      BY <1>4, <2>1
    <2>5. Sync(Server(dbr, aborted, multi, qr, on, silent),
               Server(dbp, aborted, multi, qp, on, silent))
      BY <1>4, <1>8, <2>4
    <2> QED
      BY <1>1, <2>2, <2>3, <2>5
  <1>10. CASE argv[1] # "SUBSCRIBE" /\ subscribed[c]
    <2>1. /\ Redis!Serve(r, c, new) = [srv |-> r, out |-> <<Error>>]
          /\ Redis!Serve(p, c, argv) = [srv |-> p, out |-> <<Error>>]
      BY <1>2, <1>5, <1>10, Subscribed
    <2> QED
      BY <1>1, <2>1
  <1>11. CASE argv[1] = "CLIENT" /\ ~subscribed[c] /\ ~multi[c]
    <2>1. PICK on : on = [silent EXCEPT ![c] = yes]
      OBVIOUS
    <2>2. /\ Redis!Serve(r, c, new) = [srv |-> [r EXCEPT !.silent[c] = yes], out |-> <<>>]
          /\ Redis!Serve(p, c, argv) = [srv |-> [p EXCEPT !.silent[c] = yes], out |-> <<>>]
      BY <1>2, <1>5, <1>11, <1>a, TurnsSilent
    <2>3. /\ [r EXCEPT !.silent[c] = yes] = Server(dbr, aborted, multi, qr, subscribed, on)
          /\ [p EXCEPT !.silent[c] = yes] = Server(dbp, aborted, multi, qp, subscribed, on)
      <3> HIDE DEF none, no
      <3> QED
        BY <1>3, <1>5, <2>1 DEF Server
    <2>4. DOMAIN on = Conns
      BY <1>4, <2>1
    <2>5. Sync(Server(dbr, aborted, multi, qr, subscribed, on),
               Server(dbp, aborted, multi, qp, subscribed, on))
      BY <1>4, <1>8, <2>4
    <2> QED
      BY <1>1, <2>2, <2>3, <2>5
  <1>12. CASE argv[1] = "MULTI" /\ ~subscribed[c] /\ ~multi[c]
    <2>1. PICK on : on = [multi EXCEPT ![c] = yes]
      OBVIOUS
    <2>2. /\ Redis!Serve(r, c, new) = [srv |-> [r EXCEPT !.multi[c] = yes], out |-> <<Ok>>]
          /\ Redis!Serve(p, c, argv) = [srv |-> [p EXCEPT !.multi[c] = yes], out |-> <<Ok>>]
      BY <1>2, <1>5, <1>12, <1>a, Begins
    <2>3. /\ [r EXCEPT !.multi[c] = yes] = Server(dbr, aborted, on, qr, subscribed, silent)
          /\ [p EXCEPT !.multi[c] = yes] = Server(dbp, aborted, on, qp, subscribed, silent)
      <3> HIDE DEF none, no
      <3> QED
        BY <1>3, <1>5, <2>1 DEF Server
    <2>4. DOMAIN on = Conns
      BY <1>4, <2>1
    <2>5. Sync(Server(dbr, aborted, on, qr, subscribed, silent),
               Server(dbp, aborted, on, qp, subscribed, silent))
      BY <1>4, <1>8, <2>4
    <2> QED
      BY <1>1, <2>2, <2>3, <2>5
  <1>13. CASE argv[1] \in {"EXEC", "DISCARD"} /\ ~subscribed[c] /\ ~multi[c]
    <2>1. /\ Redis!Serve(r, c, new) = [srv |-> r, out |-> <<Error>>]
          /\ Redis!Serve(p, c, argv) = [srv |-> p, out |-> <<Error>>]
      BY <1>2, <1>5, <1>13, EndsNothing
    <2> QED
      BY <1>1, <2>1
  <1>14. CASE argv[1] = "MULTI" /\ ~subscribed[c] /\ multi[c]
    <2>1. /\ Redis!Serve(r, c, new) = [srv |-> r, out |-> <<Error>>]
          /\ Redis!Serve(p, c, argv) = [srv |-> p, out |-> <<Error>>]
      BY <1>2, <1>5, <1>14, Nests
    <2> QED
      BY <1>1, <2>1
  <1>15. CASE Plainly(argv) /\ ~subscribed[c] /\ Redis!Malformed(argv)
    <2>1. PICK on : on = [aborted EXCEPT ![c] = multi[c]]
      OBVIOUS
    <2>2. /\ Redis!Serve(r, c, new) = [srv |-> [r EXCEPT !.aborted[c] = r.multi[c]], out |-> <<Error>>]
          /\ Redis!Serve(p, c, argv) = [srv |-> [p EXCEPT !.aborted[c] = p.multi[c]], out |-> <<Error>>]
      BY <1>2, <1>5, <1>15, Refuses
    <2>3. /\ [r EXCEPT !.aborted[c] = r.multi[c]] = Server(dbr, on, multi, qr, subscribed, silent)
          /\ [p EXCEPT !.aborted[c] = p.multi[c]] = Server(dbp, on, multi, qp, subscribed, silent)
      <3> HIDE DEF none, no
      <3> QED
        BY <1>3, <1>5, <2>1 DEF Server
    <2>4. DOMAIN on = Conns
      BY <1>4, <2>1
    <2>5. Sync(Server(dbr, on, multi, qr, subscribed, silent),
               Server(dbp, on, multi, qp, subscribed, silent))
      BY <1>4, <1>8, <2>4
    <2> QED
      BY <1>1, <2>2, <2>3, <2>5
  <1>16. CASE Plainly(argv) /\ ~subscribed[c] /\ ~multi[c] /\ ~Redis!Malformed(argv)
    <2>1. /\ Redis!Serve(r, c, new) = [srv |-> Ran(r, c, new), out |-> answers]
          /\ Redis!Serve(p, c, argv) = [srv |-> Ran(p, c, argv), out |-> answers]
      BY <1>2, <1>5, <1>6, <1>16, Runs
    <2> QED
      BY <1>1, <1>4, <1>7, <1>8, <2>1
  <1>17. CASE /\ Plainly(argv) \/ argv[1] \in {"SUBSCRIBE", "CLIENT"}
              /\ multi[c] /\ (argv[1] = "SUBSCRIBE" \/ ~subscribed[c])
              /\ ~Redis!Malformed(argv)
    <2>1. r.queue = qr /\ p.queue = qp
      BY <1>3 DEF Server
    <2>2. PICK ar, ap : ar = Append(qr[c], new) /\ ap = Append(qp[c], argv)
      OBVIOUS
    <2>3. Redis!Serve(r, c, new) = [srv |-> [r EXCEPT !.queue[c] = ar], out |-> <<Queued>>]
      <3>1. /\ Plainly(new) \/ new[1] \in {"SUBSCRIBE", "CLIENT"}
            /\ r.multi[c] /\ ~Redis!Malformed(new)
            /\ new[1] = "SUBSCRIBE" \/ ~r.subscribed[c]
        BY <1>2, <1>5, <1>17
      <3> QED
        BY <2>1, <2>2, <3>1, Enqueues
    <2>4. Redis!Serve(p, c, argv) = [srv |-> [p EXCEPT !.queue[c] = ap], out |-> <<Queued>>]
      <3>1. p.multi[c] /\ (argv[1] = "SUBSCRIBE" \/ ~p.subscribed[c])
        BY <1>5, <1>17
      <3> QED
        BY <1>17, <2>1, <2>2, <3>1, Enqueues
    <2>5. PICK nr, np : nr = [qr EXCEPT ![c] = ar] /\ np = [qp EXCEPT ![c] = ap]
      OBVIOUS
    <2>6. /\ [r EXCEPT !.queue[c] = ar] = Server(dbr, aborted, multi, nr, subscribed, silent)
          /\ [p EXCEPT !.queue[c] = ap] = Server(dbp, aborted, multi, np, subscribed, silent)
      <3> HIDE DEF none, no
      <3> QED
        BY <1>3, <2>5 DEF Server
    <2>7. IsQueues(nr) /\ IsQueues(np)
      BY <2>1, <2>2, <2>5, Queues DEF Sync
    <2>8. \A d \in Conns : Matched(nr[d], np[d])
      <3>1. Ordinary(argv)
        BY <1>17 DEF Ordinary
      <3>2. Matched(ar, ap)
        BY <1>1, <2>1, <2>2, <3>1, QueuesMatch
      <3>3. DOMAIN qr = Conns /\ DOMAIN qp = Conns
        BY <1>4 DEF IsQueues
      <3> QED
        BY <1>4, <2>5, <3>2, <3>3
    <2>9. Sync(Server(dbr, aborted, multi, nr, subscribed, silent),
               Server(dbp, aborted, multi, np, subscribed, silent))
      BY <1>4, <1>8, <2>7, <2>8
    <2> QED
      BY <1>1, <2>3, <2>4, <2>6, <2>9
  <1>18. CASE argv[1] = "EXEC" /\ ~subscribed[c] /\ multi[c]
    <2>1. /\ Redis!Serve(r, c, new)
               = [srv |-> Redis!EndMulti(Ran(r, c, new), c), out |-> <<IF aborted[c] THEN Error ELSE Redis!Array(answers)>>]
          /\ Redis!Serve(p, c, argv)
               = [srv |-> Redis!EndMulti(Ran(p, c, argv), c), out |-> <<IF aborted[c] THEN Error ELSE Redis!Array(answers)>>]
      BY <1>2, <1>5, <1>6, <1>18, Executes
    <2>2. PICK er, ep : /\ Ran(r, c, new) = Server(er, aborted, multi, qr, subscribed, silent)
                        /\ Ran(p, c, argv) = Server(ep, aborted, multi, qp, subscribed, silent)
                        /\ Alike(er, ep)
      BY <1>7
    <2>3. Sync(Redis!EndMulti(Ran(r, c, new), c), Redis!EndMulti(Ran(p, c, argv), c))
      BY <1>4, <2>2, EndsAlike DEF Server
    <2> QED
      BY <1>1, <2>1, <2>3
  <1>19. CASE argv[1] = "DISCARD" /\ ~subscribed[c] /\ multi[c]
    <2>1. /\ Redis!Serve(r, c, new)
               = [srv |-> Redis!EndMulti(r, c), out |-> <<Ok>>]
          /\ Redis!Serve(p, c, argv)
               = [srv |-> Redis!EndMulti(p, c), out |-> <<Ok>>]
      BY <1>2, <1>5, <1>6, <1>19, Discards
    <2>2. PICK er, ep : /\ r = Server(er, aborted, multi, qr, subscribed, silent)
                        /\ p = Server(ep, aborted, multi, qp, subscribed, silent)
                        /\ Alike(er, ep)
      BY <1>3, <1>4 DEF Server
    <2>3. Sync(Redis!EndMulti(r, c), Redis!EndMulti(p, c))
      BY <1>4, <2>2, EndsAlike DEF Server
    <2> QED
      BY <1>1, <2>1, <2>3
  <1>20. argv[1] \in {"SUBSCRIBE", "CLIENT"} => ~Redis!Malformed(argv)
    BY DEF Redis!Malformed
  <1> QED
    BY <1>9, <1>10, <1>11, <1>12, <1>13, <1>14, <1>15, <1>16, <1>17, <1>18, <1>19, <1>20
       DEF Plainly

-----------------------------------------------------------------------------
\* What the replies say is what plain says.
Echoes(S) == Logs(S) /\ \A r \in S : r.val = r.plain

Unnoticed ==
    /\ Sync(redis, plain) /\ \E S : Echoes(S)
    /\ \A c \in Conns :
         /\ handler[c].st # "writeback"
         /\ handler[c].st = "peers" => handler[c].reply.val = handler[c].reply.plain

ClearInv == PairInv /\ (~fetched /\ Sent(Unprefixed) = {} => Unnoticed)

LEMMA InitClear == Init => ClearInv
  <1> SUFFICES ASSUME Init PROVE ClearInv
    OBVIOUS
  <1>1. IsServer(redis) /\ redis = plain
    <2>1. redis.queue \in [Conns -> Seq({})]
      BY DEF Init, Redis!Started
    <2> QED
      BY <2>1 DEF Init, Redis!Started, IsServer, IsQueues
  <1>2. Alike(redis.db, plain.db)
    BY Prefixing DEF Init, Redis!Started, Alike
  <1>3. \A c \in Conns : Matched(redis.queue[c], plain.queue[c])
    <2>1. Matched(<<>>, <<>>)
      BY DEF Matched
    <2> QED
      BY <2>1 DEF Init, Redis!Started
  <1>4. /\ redis.watched = [c \in Conns |-> {}]
        /\ redis.dirty = [c \in Conns |-> FALSE]
    BY DEF Init, Redis!Started
  <1>5. Sync(redis, plain)
    BY <1>1, <1>2, <1>3, <1>4 DEF Sync
  <1>6. Echoes({})
    BY DEF Init, Echoes, Logs
  <1>7. \A c \in Conns : handler[c].st = "idle"
    BY DEF Init, Idle
  <1> QED
    BY <1>5, <1>6, <1>7, InitPairs DEF ClearInv, Unnoticed

LEMMA RequestClear ==
    ASSUME ClearInv, NEW c \in Conns, NEW argv \in Argvs[c], Request(c, argv)
    PROVE  ClearInv'
  <1>1. PairInv'
    BY RequestInv DEF ClearInv
  <1> SUFFICES ASSUME ~fetched', Sent(Unprefixed)' = {} PROVE Unnoticed'
    BY <1>1 DEF ClearInv
  <1>2. /\ sent' = [sent EXCEPT ![c] = Append(@, argv)] /\ ~fetched /\ got' = got
        /\ handler' = [handler EXCEPT ![c] = [Idle EXCEPT !.st = "reply", !.argv = argv]]
        /\ redis' = Redis!Serve(redis, c, Rewritten(argv)).srv
        /\ plain' = Redis!Serve(plain, c, argv).srv
    BY DEF Request, Upstream
  <1>3. Sent(Unprefixed) = {} /\ argv[1] \notin Unprefixed
    BY <1>2, Asking DEF ClearInv, PairInv
  <1>4. Unnoticed
    BY <1>2, <1>3 DEF ClearInv
  <1>5. PICK out : /\ out = Redis!Serve(redis, c, Rewritten(argv)).out
                   /\ out = Redis!Serve(plain, c, argv).out
                   /\ Sync(redis', plain')
    <2>1. /\ Len(argv) \in Nat \ {0} /\ DOMAIN argv = 1..Len(argv)
          /\ \A i \in KeyArgs(argv) : argv[i] \in Keys
      BY SessionAssumption
    <2>2. Sync(redis, plain) /\ argv[1] \notin {"WATCH", "PFCOUNT"}
      BY <1>3, <1>4 DEF Unnoticed, Unprefixed
    <2> QED
      BY <1>2, <2>1, <2>2, ServedAlike
  <1>6. PICK m \in Nat : DOMAIN out = 1..m
    BY <1>5, Rewriting, Served
  <1>7. PICK new : new = [i \in DOMAIN out |->
                            [of |-> Len(sent[c]) + 1, val |-> out[i], plain |-> out[i]]]
    OBVIOUS
  <1>8. replies' = [replies EXCEPT ![c] = @ \o new]
    BY <1>5, <1>7 DEF Request
  <1>9. PICK S : Echoes(S)
    BY <1>4 DEF Unnoticed
  <1>10. PICK T : T = S \cup {new[i] : i \in 1..m}
    OBVIOUS
  <1>11. /\ S \subseteq T /\ new \in [1..m -> T]
         /\ \A r \in T : IsReply(r) /\ r.val = r.plain
    BY <1>6, <1>7, <1>9, <1>10 DEF Echoes, Logs, IsReply
  <1>12. Echoes(T)'
    <2>1. new \in Seq(T)
      BY <1>6, <1>11, Listed
    <2>2. replies \in [Conns -> Seq(S)] /\ got \in [Conns -> Seq(S)]
      BY <1>9 DEF Echoes, Logs
    <2>3. replies' \in [Conns -> Seq(T)]
      BY <1>8, <1>11, <2>1, <2>2, Following
    <2>4. \A d \in Conns : got[d] \in Seq(T)
      <3> SUFFICES ASSUME NEW d \in Conns PROVE got[d] \in Seq(T)
        OBVIOUS
      <3> QED
        BY <1>11, <2>2
    <2>5. got' \in [Conns -> Seq(T)]
      BY <1>2, <2>2, <2>4
    <2> QED
      BY <1>11, <2>3, <2>5 DEF Echoes, Logs
  <1>13. \A d \in Conns :
           /\ handler'[d].st # "writeback"
           /\ handler'[d].st = "peers" => handler'[d].reply.val = handler'[d].reply.plain
    <2>1. DOMAIN handler = Conns
      BY DEF ClearInv, PairInv, Types, Handlers
    <2>2. handler'[c].st = "reply" /\ \A d \in Conns \ {c} : handler'[d] = handler[d]
      BY <1>2, <2>1 DEF Idle
    <2> QED
      BY <1>4, <2>2 DEF Unnoticed
  <1> QED
    BY <1>5, <1>12, <1>13 DEF Unnoticed

\* A reply that echoes plain is delivered.
LEMMA DeliveredClear ==
    ASSUME ClearInv, PairInv', NEW c \in Conns, NEW S, Echoes(S), NEW r, IsReply(r),
           r.val = r.plain, Deliver(c, r), replies' \in [Conns -> Seq(S)], Unnoticed,
           UNCHANGED <<redis, plain, sent, fetched>>
    PROVE  ClearInv'
  <1>1. PICK T : T = S \cup {r}
    OBVIOUS
  <1>2. /\ S \subseteq T /\ r \in T /\ got \in [Conns -> Seq(S)]
        /\ \A e \in T : IsReply(e) /\ e.val = e.plain
    BY <1>1 DEF Echoes, Logs
  <1>3. got' = [got EXCEPT ![c] = Append(@, r)]
    BY DEF Deliver
  <1>4. got' \in [Conns -> Seq(T)]
    BY <1>2, <1>3, Appending
  <1>5. replies' \in [Conns -> Seq(T)]
    <2>1. \A d \in Conns : replies'[d] \in Seq(T)
      <3> SUFFICES ASSUME NEW d \in Conns PROVE replies'[d] \in Seq(T)
        OBVIOUS
      <3> QED
        BY <1>2
    <2> QED
      BY <2>1
  <1>6. Echoes(T)'
    BY <1>2, <1>4, <1>5 DEF Echoes, Logs
  <1>7. /\ \A d \in Conns \ {c} : handler'[d] = handler[d]
        /\ handler'[c].st = "idle"
    BY DEF Deliver, Idle, ClearInv, PairInv, Types, Handlers
  <1> QED
    BY <1>6, <1>7 DEF ClearInv, Unnoticed

LEMMA ReceiveClear ==
    ASSUME ClearInv, NEW c \in Conns, Receive(c)
    PROVE  ClearInv'
  <1>1. PairInv' /\ UNCHANGED <<redis, plain, sent, fetched>>
    BY ReceiveInv DEF ClearInv, Receive
  <1>2. CASE ~(~fetched /\ Sent(Unprefixed) = {})
    BY <1>1, <1>2 DEF ClearInv, Sent
  <1>3. CASE ~fetched /\ Sent(Unprefixed) = {}
    <2>1. Unnoticed
      BY <1>3 DEF ClearInv
    <2>2. PICK S : Echoes(S)
      BY <2>1 DEF Unnoticed
    <2>3. PICK reply : reply = Head(replies[c])
      OBVIOUS
    <2>4. replies \in [Conns -> Seq(S)] /\ got \in [Conns -> Seq(S)]
      BY <2>2 DEF Echoes, Logs
    <2>5. /\ replies' \in [Conns -> Seq(S)] /\ reply \in S /\ IsReply(reply)
          /\ reply.val = reply.plain
      <3>1. replies[c] # <<>> /\ replies' = [replies EXCEPT ![c] = Tail(@)]
        BY DEF Receive
      <3>2. replies' \in [Conns -> Seq(S)] /\ reply \in S
        BY <2>3, <2>4, <3>1, Taking
      <3> QED
        BY <2>2, <3>2 DEF Echoes, Logs
    <2>6. CASE Deliver(c, reply)
      BY <1>1, <2>1, <2>2, <2>5, <2>6, DeliveredClear
    <2>7. CASE /\ handler' = [handler EXCEPT ![c].st = "peers", ![c].reply = reply]
               /\ got' = got
      <3>1. Echoes(S)'
        BY <2>2, <2>4, <2>5, <2>7 DEF Echoes, Logs
      <3>2. /\ handler'[c].st = "peers" /\ handler'[c].reply = reply
            /\ \A d \in Conns \ {c} : handler'[d] = handler[d]
        BY <2>5, <2>7, Handling DEF ClearInv, PairInv, Types
      <3>3. \A d \in Conns :
              /\ handler'[d].st # "writeback"
              /\ handler'[d].st = "peers" => handler'[d].reply.val = handler'[d].reply.plain
        BY <2>1, <2>5, <3>2 DEF Unnoticed
      <3>4. Sync(redis, plain)'
        BY <1>1, <2>1 DEF Unnoticed
      <3> QED
        BY <1>1, <3>1, <3>3, <3>4 DEF ClearInv, Unnoticed
    <2> QED
      BY <2>3, <2>6, <2>7 DEF Receive
  <1> QED
    BY <1>2, <1>3

LEMMA FetchNoneClear ==
    ASSUME ClearInv, NEW c \in Conns, FetchNone(c)
    PROVE  ClearInv'
  <1>1. PairInv' /\ UNCHANGED <<redis, plain, sent, fetched, replies>>
    BY FetchNoneInv DEF ClearInv, FetchNone
  <1>2. CASE ~(~fetched /\ Sent(Unprefixed) = {})
    BY <1>1, <1>2 DEF ClearInv, Sent
  <1>3. CASE ~fetched /\ Sent(Unprefixed) = {}
    <2>1. Unnoticed
      BY <1>3 DEF ClearInv
    <2>2. PICK S : Echoes(S)
      BY <2>1 DEF Unnoticed
    <2>3. PICK reply : reply = handler[c].reply
      OBVIOUS
    <2>4. handler[c].st = "peers" /\ Deliver(c, reply)
      BY <2>3 DEF FetchNone
    <2>5. IsReply(reply) /\ reply.val = reply.plain
      BY <2>1, <2>3, <2>4 DEF Unnoticed, ClearInv, PairInv, Types, Handlers, IsHandler
    <2>6. replies' \in [Conns -> Seq(S)]
      BY <1>1, <2>2 DEF Echoes, Logs
    <2> QED
      BY <1>1, <2>1, <2>2, <2>4, <2>5, <2>6, DeliveredClear
  <1> QED
    BY <1>2, <1>3

LEMMA EndWriteBackClear ==
    ASSUME ClearInv, NEW c \in Conns, EndWriteBack(c)
    PROVE  ClearInv'
  <1>1. PairInv'
    BY EndWriteBackInv DEF ClearInv
  <1>2. handler[c].st = "writeback" /\ sent' = sent /\ fetched' = fetched
    BY DEF EndWriteBack
  <1>3. ~(~fetched /\ Sent(Unprefixed) = {})
    BY <1>2 DEF ClearInv, Unnoticed
  <1>4. Sent(Unprefixed)' = Sent(Unprefixed)
    BY <1>2 DEF Sent
  <1> QED
    BY <1>1, <1>2, <1>3, <1>4 DEF ClearInv

LEMMA NextClear == ClearInv /\ [Next]_vars => ClearInv'
  <1> SUFFICES ASSUME ClearInv, [Next]_vars PROVE ClearInv'
    OBVIOUS
  <1>1. ASSUME NEW c \in Conns, Fetch(c) PROVE ClearInv'
    BY <1>1, FetchInv DEF ClearInv, Fetch
  <1>2. CASE Next
    BY <1>1, <1>2, RequestClear, ReceiveClear, FetchNoneClear, EndWriteBackClear
       DEF Next, Handle
  <1>3. CASE UNCHANGED vars
    <2>1. PairInv'
      BY <1>3, NextPairs DEF ClearInv
    <2>2. Sent(Unprefixed)' = Sent(Unprefixed) /\ fetched' = fetched
      BY <1>3 DEF vars, Sent
    <2>3. Unnoticed => Unnoticed'
      BY <1>3 DEF vars, Unnoticed, Echoes, Logs
    <2> QED
      BY <2>1, <2>2, <2>3 DEF ClearInv
  <1> QED
    BY <1>2, <1>3

\* With one version and no sibling that has the value, the application sees
\* the Redis it would have for itself: every reply says what that Redis
\* says, and the prefixed keys hold what its keys hold, for any commands,
\* transactions and connections, unless one of the commands was sent whose
\* keys the proxy passes on as they are (proxy.py:17-18, proxy.go:7-8).
THEOREM ProxyIsTransparent == Spec => []Transparent
  <1>1. ClearInv => Transparent
    <2> SUFFICES ASSUME ClearInv, ~fetched, Sent(Unprefixed) = {}
                 PROVE  /\ \A k \in Keys : redis.db[VersionPrefix(k)] = plain.db[k]
                        /\ \A c \in Conns : \A i \in DOMAIN got[c] :
                             got[c][i].val = got[c][i].plain
      BY DEF Transparent
    <2>1. Unnoticed
      BY DEF ClearInv
    <2>2. PICK S : Echoes(S)
      BY <2>1 DEF Unnoticed
    <2>3. \A c \in Conns : \A i \in DOMAIN got[c] : got[c][i] \in S
      <3>1. \A c \in Conns : got[c] \in Seq(S)
        BY <2>2 DEF Echoes, Logs
      <3> QED
        BY <3>1
    <2> QED
      BY <2>1, <2>2, <2>3 DEF Unnoticed, Sync, Alike, Echoes
  <1> QED
    BY <1>1, InitClear, NextClear, PTL DEF Spec
=============================================================================
