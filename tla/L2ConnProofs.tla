--------------------------- MODULE L2ConnProofs ---------------------------
(***************************************************************************)
(* Proofs about L2Conn: ConnInv is an invariant, and with it every step of *)
(* L2Client.call is a step of L2Call or changes none of its variables.     *)
(***************************************************************************)
EXTENDS L2Conn, SequenceTheorems, TLAPS

\* The tries of a call bound the executions of its command.
LEMMA TriesBound ==
    ASSUME ConnInv, NEW g \in Callers
    PROVE  /\ runs[g] \in Nat /\ abandoned[g] \in Nat /\ Len(sent) \in Nat
           /\ Attempts \in Nat /\ retry[g] + 1 <= Attempts
           /\ runs[g] + abandoned[g] <= Attempts
           /\ mu = g => runs[g] + abandoned[g] + Len(sent) <= Attempts
           /\ mu = g => command[g] \in Commands
           /\ command[g] \in Commands \/ pc[g] = "idle"
  <1>1. /\ runs[g] \in Nat /\ abandoned[g] \in Nat /\ Len(sent) \in Nat
        /\ Attempts \in Nat /\ retry[g] \in 0..(Attempts - 1)
    BY CallAssumption DEF ConnInv, ConnTypes
  <1>2. OneTurn(g)
    BY DEF ConnInv
  <1>3. /\ runs[g] + abandoned[g] <= Attempts
        /\ mu = g => runs[g] + abandoned[g] + Len(sent) <= Attempts
    BY <1>1, <1>2 DEF OneTurn, Tries
  <1>4. command[g] \in Commands \/ pc[g] = "idle"
    BY <1>2 DEF ConnInv, ConnTypes, OneTurn, Tries
  <1>5. mu = g => pc[g] # "idle"
    BY <1>2 DEF OneTurn, Tries
  <1> QED
    BY <1>1, <1>3, <1>4, <1>5

LEMMA InitInv == CInit => ConnInv
  <1> SUFFICES ASSUME CInit PROVE ConnInv
    OBVIOUS
  <1>1. ConnTypes
    <2>1. value \in Vals \cup {Nil} /\ Nil \in Answers
      BY DEF CInit, Init, Answers
    <2>2. /\ stray \in [Commands -> Nat] /\ runs \in [Callers -> Nat]
          /\ abandoned \in [Callers -> Nat]
          /\ retry \in [Callers -> 0..(Attempts - 1)]
      BY CallAssumption DEF CInit, Init
    <2>3. /\ command \in [Callers -> Commands \cup {NoCommand}]
          /\ answers \in [Callers -> SUBSET Answers]
          /\ result \in [Callers -> Answers \cup {Error}]
      BY <2>1 DEF CInit, Init
    <2>4. /\ mu \in Callers \cup {None} /\ open \in BOOLEAN /\ dropped \in BOOLEAN
          /\ pc \in [Callers -> {"idle", "lock", "conn", "write", "read"}]
      BY DEF CInit
    <2>5. sent \in Seq([by : Callers, cmd : Commands]) /\ replies \in Seq(Answers)
      BY DEF CInit
    <2> QED
      BY <2>1, <2>2, <2>3, <2>4, <2>5 DEF ConnTypes
  <1>2. \A g \in Callers : OneTurn(g)
    <2> SUFFICES ASSUME NEW g \in Callers PROVE OneTurn(g)
      OBVIOUS
    <2>1. pc[g] = "idle" /\ command[g] = NoCommand /\ mu # g
      BY ConnAssumption DEF CInit, Init
    <2>2. runs[g] = 0 /\ abandoned[g] = 0 /\ retry[g] = 0
      BY DEF CInit, Init
    <2> QED
      BY <2>1, <2>2 DEF OneTurn, Tries
  <1>3. OneRoundTrip
    BY DEF CInit, OneRoundTrip
  <1> QED
    BY <1>1, <1>2, <1>3 DEF ConnInv

LEMMA CallInv ==
    ASSUME ConnInv, NEW g \in Callers, Call(g) PROVE ConnInv'
  <1> PICK c \in Commands : Begin(g, c)
    BY DEF Call
  <1>1. ConnTypes'
    BY DEF Call, Begin, Goes, conn, ConnInv, ConnTypes
  <1>2. \A h \in Callers : OneTurn(h)'
    BY CallAssumption DEF Call, Begin, Goes, conn, ConnInv, ConnTypes, OneTurn, Tries
  <1>3. OneRoundTrip'
    <2>1. mu # g \/ mu = None
      BY DEF Call, ConnInv, OneTurn, Tries
    <2> QED
      BY <2>1 DEF Call, Begin, Goes, conn, ConnInv, ConnTypes, OneRoundTrip
  <1> QED
    BY <1>1, <1>2, <1>3 DEF ConnInv

LEMMA LockInv ==
    ASSUME ConnInv, NEW g \in Callers, Lock(g) PROVE ConnInv'
  <1>1. ConnTypes'
    BY DEF Lock, Goes, promise, conn, ConnInv, ConnTypes
  <1>2. sent = <<>> /\ replies = <<>>
    BY DEF Lock, ConnInv, ConnTypes, OneRoundTrip
  <1>3. \A h \in Callers : OneTurn(h)'
    <2> SUFFICES ASSUME NEW h \in Callers PROVE OneTurn(h)'
      OBVIOUS
    <2>1. ConnTypes /\ OneTurn(h) /\ OneTurn(g) /\ pc[g] = "lock" /\ mu = None /\ mu' = g
      BY DEF ConnInv, Lock
    <2>2. /\ command'[h] = command[h] /\ runs'[h] = runs[h] /\ open' = open
          /\ abandoned'[h] = abandoned[h] /\ retry'[h] = retry[h] /\ sent' = sent
          /\ pc'[h] = IF h = g THEN "conn" ELSE pc[h]
      BY <2>1 DEF Lock, Goes, promise, conn, ConnTypes
    <2> QED
      BY <1>2, <2>1, <2>2, ConnAssumption DEF OneTurn, Tries
  <1>4. OneRoundTrip'
    BY <1>2 DEF Lock, conn, OneRoundTrip
  <1> QED
    BY <1>1, <1>3, <1>4 DEF ConnInv

\* A return of the holder, which takes what is on the connection with it.
LEMMA ReturnsInv ==
    ASSUME ConnInv, NEW g \in Callers, mu = g,
           NEW answer \in Answers \cup {Error}, NEW left \in Nat,
           Returns(g, answer, left),
           sent' = <<>>, replies' = <<>>, open' \in BOOLEAN, dropped' \in BOOLEAN
    PROVE  ConnInv'
  <1>1. ConnTypes'
    <2> ConnTypes
      BY DEF ConnInv
    <2>1. /\ value' \in Vals \cup {Nil} /\ mu' \in Callers \cup {None}
          /\ command' \in [Callers -> Commands \cup {NoCommand}]
          /\ answers' \in [Callers -> SUBSET Answers]
          /\ result' \in [Callers -> Answers \cup {Error}]
      BY DEF Returns, Ended, ConnTypes
    <2>2. /\ runs' \in [Callers -> Nat] /\ abandoned' \in [Callers -> Nat]
          /\ retry' \in [Callers -> 0..(Attempts - 1)]
      BY CallAssumption DEF Returns, Ended, ConnTypes
    <2>3. stray' \in [Commands -> Nat]
      <3>1. /\ stray \in [Commands -> Nat]
            /\ stray' = [stray EXCEPT ![command[g]] = @ + left]
        BY DEF Returns, Ended, ConnTypes
      <3>2. ASSUME NEW c \in Commands PROVE stray'[c] \in Nat
        BY <3>1
      <3>3. stray' = [c \in Commands |-> stray'[c]]
        BY <3>1
      <3> QED
        BY <3>2, <3>3
    <2>4. pc' \in [Callers -> {"idle", "lock", "conn", "write", "read"}]
      BY DEF Returns, Goes, ConnTypes
    <2>5. sent' \in Seq([by : Callers, cmd : Commands]) /\ replies' \in Seq(Answers)
      OBVIOUS
    <2> QED
      BY <2>1, <2>2, <2>3, <2>4, <2>5 DEF ConnTypes
  <1>2. OneRoundTrip'
    BY DEF OneRoundTrip
  <1>3. \A h \in Callers : OneTurn(h)'
    <2> SUFFICES ASSUME NEW h \in Callers PROVE OneTurn(h)'
      OBVIOUS
    <2>1. ConnTypes /\ OneTurn(h) /\ OneTurn(g) /\ mu' = None
      BY DEF ConnInv, Returns
    <2>2. CASE h = g
      <3>1. pc'[h] = "idle" /\ command'[h] = NoCommand
        BY <2>1, <2>2 DEF Returns, Ended, Goes, ConnTypes
      <3>2. runs'[h] = 0 /\ abandoned'[h] = 0 /\ retry'[h] = 0
        BY <2>1, <2>2 DEF Returns, Ended, ConnTypes
      <3> QED
        BY <2>1, <3>1, <3>2, ConnAssumption DEF OneTurn, Tries
    <2>3. CASE h # g
      <3>1. /\ pc'[h] = pc[h] /\ command'[h] = command[h] /\ runs'[h] = runs[h]
            /\ abandoned'[h] = abandoned[h] /\ retry'[h] = retry[h]
        BY <2>1, <2>3 DEF Returns, Ended, Goes, ConnTypes
      <3> QED
        BY <2>1, <2>3, <3>1, ConnAssumption DEF OneTurn, Tries
    <2> QED
      BY <2>2, <2>3
  <1> QED
    BY <1>1, <1>2, <1>3 DEF ConnInv

LEMMA AgainInv ==
    ASSUME ConnInv, NEW g \in Callers, mu = g, Again(g) PROVE ConnInv'
  <1>1. CASE retry[g] + 1 < Attempts
    <2>1. /\ Reset(g) /\ Goes(g, "conn") /\ UNCHANGED <<promise, mu>>
          /\ retry' = [retry EXCEPT ![g] = @ + 1]
      BY <1>1 DEF Again
    <2>2. ConnTypes'
      <3> ConnTypes
        BY DEF ConnInv
      <3>1. /\ value' = value /\ stray' = stray /\ command' = command /\ runs' = runs
            /\ answers' = answers /\ result' = result /\ mu' = mu
        BY <2>1 DEF promise
      <3>2. retry' \in [Callers -> 0..(Attempts - 1)]
        BY <1>1, <2>1, CallAssumption DEF ConnTypes
      <3>3. abandoned' \in [Callers -> Nat]
        <4>1. abandoned \in [Callers -> Nat] /\ Len(sent) \in Nat
          BY DEF ConnTypes
        <4> QED
          BY <2>1, <4>1 DEF Reset
      <3>4. pc' \in [Callers -> {"idle", "lock", "conn", "write", "read"}]
        BY <2>1 DEF Goes, ConnTypes
      <3>5. open' \in BOOLEAN /\ dropped' \in BOOLEAN
        BY <2>1 DEF Reset
      <3>6. sent' \in Seq([by : Callers, cmd : Commands]) /\ replies' \in Seq(Answers)
        BY <2>1 DEF Reset
      <3> QED
        BY <3>1, <3>2, <3>3, <3>4, <3>5, <3>6 DEF ConnTypes
    <2>3. OneRoundTrip'
      BY <2>1 DEF Reset, OneRoundTrip
    <2>4. \A h \in Callers : OneTurn(h)'
      BY <2>1, CallAssumption
      DEF Reset, Goes, promise, ConnInv, ConnTypes, OneTurn, Tries
    <2> QED
      BY <2>2, <2>3, <2>4 DEF ConnInv
  <1>2. CASE ~(retry[g] + 1 < Attempts)
    <2>1. /\ Returns(g, Error, abandoned[g] + Len(sent))
          /\ open' = FALSE /\ dropped' = FALSE /\ sent' = <<>> /\ replies' = <<>>
      BY <1>2 DEF Again
    <2>2. abandoned[g] + Len(sent) \in Nat
      BY TriesBound
    <2> QED
      BY <2>1, <2>2, ReturnsInv
  <1> QED
    BY <1>1, <1>2

LEMMA EnsureConnInv ==
    ASSUME ConnInv, NEW g \in Callers, EnsureConn(g) PROVE ConnInv'
  <1>1. mu = g /\ pc[g] = "conn"
    BY DEF EnsureConn, ConnInv, OneTurn, Tries
  <1>2. sent = <<>> /\ replies = <<>>
    BY <1>1 DEF ConnInv, ConnTypes, OneRoundTrip
  <1>3. CASE /\ open' = TRUE /\ Goes(g, "write")
             /\ UNCHANGED <<promise, mu, retry, dropped, sent, replies, abandoned>>
    BY <1>1, <1>2, <1>3, CallAssumption
    DEF Goes, promise, ConnInv, ConnTypes, OneTurn, Tries, OneRoundTrip
  <1>4. CASE Returns(g, Error, abandoned[g]) /\ UNCHANGED conn
    BY <1>1, <1>2, <1>4, TriesBound, ReturnsInv DEF conn, ConnInv, ConnTypes
  <1> QED
    BY <1>3, <1>4 DEF EnsureConn

\* A connection with nothing on it, or with one message.
LEMMA OneMessage ==
    ASSUME NEW M, NEW m \in M
    PROVE  /\ <<>> \in Seq(M) /\ Len(<<>>) = 0
           /\ Append(<<>>, m) \in Seq(M) /\ Len(Append(<<>>, m)) = 1
           /\ Append(<<>>, m)[1] = m
  OBVIOUS

LEMMA ShortSequence ==
    ASSUME NEW M, NEW s \in Seq(M)
    PROVE  /\ <<>> \in Seq(M)
           /\ Len(s) = 0 => s = <<>>
           /\ Len(s) = 1 => Head(s) = s[1] /\ Tail(s) = <<>>
  <1>1. <<>> \in Seq(M)
    OBVIOUS
  <1>2. Len(s) = 0 => s = <<>>
    OBVIOUS
  <1>3. ASSUME Len(s) = 1 PROVE Tail(s) = <<>>
    <2>1. Tail(s) \in Seq(M) /\ Len(Tail(s)) = 0
      <3>1. s # <<>>
        BY <1>3, EmptySeq
      <3> QED
        BY <1>3, <3>1, HeadTailProperties
    <2> QED
      BY <2>1, EmptySeq
  <1> QED
    BY <1>1, <1>2, <1>3

LEMMA WrittenInv ==
    ASSUME ConnInv, NEW g \in Callers, mu = g, pc[g] = "write",
           sent = <<>>, replies = <<>>, command[g] \in Commands,
           Goes(g, "read"), sent' \in Seq([by : Callers, cmd : Commands]),
           Len(sent') <= 1,
           Len(sent') > 0 => sent'[1] = [by |-> g, cmd |-> command[g]],
           UNCHANGED <<promise, mu, retry, open, dropped, replies, abandoned>>
    PROVE  ConnInv'
  <1> ConnTypes
    BY DEF ConnInv
  <1>1. /\ value' = value /\ stray' = stray /\ command' = command /\ runs' = runs
        /\ answers' = answers /\ result' = result
    BY DEF promise
  <1>2. pc' \in [Callers -> {"idle", "lock", "conn", "write", "read"}]
    BY DEF Goes, ConnTypes
  <1>4. ConnTypes'
    BY <1>1, <1>2 DEF ConnTypes
  <1>3. Len(sent') \in Nat
    OBVIOUS
  <1>5. \A h \in Callers : OneTurn(h)'
    <2> SUFFICES ASSUME NEW h \in Callers PROVE OneTurn(h)'
      OBVIOUS
    <2>1. OneTurn(h) /\ OneTurn(g) /\ pc'[h] = IF h = g THEN "read" ELSE pc[h]
      BY DEF ConnInv, ConnTypes, Goes
    <2>2. runs[h] \in Nat /\ abandoned[h] \in Nat /\ retry[h] \in Nat /\ Len(sent') \in Nat
      BY <1>3, CallAssumption DEF ConnTypes
    <2>3. runs'[h] = runs[h] /\ command'[h] = command[h] /\ Len(sent) = 0
      BY <1>1
    <2> QED
      BY <1>3, <2>1, <2>2, <2>3 DEF OneTurn, Tries
  <1>6. OneRoundTrip'
    <2>1. pc'[g] = "read"
      BY DEF Goes, ConnTypes
    <2>2. /\ mu' = g /\ mu' # None /\ Len(replies') = 0 /\ command' = command
      BY <1>1, ConnAssumption
    <2> QED
      BY <2>1, <2>2 DEF OneRoundTrip
  <1> QED
    BY <1>4, <1>5, <1>6 DEF ConnInv

LEMMA WriteInv ==
    ASSUME ConnInv, NEW g \in Callers, Write(g) PROVE ConnInv'
  <1>1. mu = g /\ pc[g] = "write"
    BY DEF Write, ConnInv, OneTurn, Tries
  <1>2. sent = <<>> /\ replies = <<>> /\ command[g] \in Commands
    BY <1>1, TriesBound DEF ConnInv, ConnTypes, OneRoundTrip
  <1>3. CASE /\ sent' = IF dropped THEN sent
                        ELSE Append(sent, [by |-> g, cmd |-> command[g]])
             /\ Goes(g, "read")
             /\ UNCHANGED <<promise, mu, retry, open, dropped, replies, abandoned>>
    <2>1. PICK m \in [by : Callers, cmd : Commands] :
             m = [by |-> g, cmd |-> command[g]]
      BY <1>2
    <2>2. sent' = IF dropped THEN <<>> ELSE Append(<<>>, m)
      BY <1>2, <1>3, <2>1
    <2>3. /\ sent' \in Seq([by : Callers, cmd : Commands]) /\ Len(sent') <= 1
          /\ Len(sent') > 0 => sent'[1] = m
      <3> DEFINE M == [by : Callers, cmd : Commands]
      <3> HIDE DEF M
      <3>1. /\ <<>> \in Seq(M) /\ Len(<<>>) = 0
            /\ Append(<<>>, m) \in Seq(M) /\ Len(Append(<<>>, m)) = 1
            /\ Append(<<>>, m)[1] = m
        BY <2>1, OneMessage DEF M
      <3>2. CASE dropped
        BY <2>2, <3>1, <3>2 DEF M
      <3>3. CASE ~dropped
        BY <2>2, <3>1, <3>3 DEF M
      <3> QED
        BY <3>2, <3>3
    <2> QED
      BY <1>1, <1>2, <1>3, <2>1, <2>3, WrittenInv
  <1>4. CASE Again(g)
    BY <1>1, <1>4, AgainInv
  <1> QED
    BY <1>3, <1>4 DEF Write

LEMMA ReadInv ==
    ASSUME ConnInv, NEW g \in Callers, Read(g) PROVE ConnInv'
  <1>1. mu = g /\ pc[g] = "read"
    BY DEF Read, ConnInv, OneTurn, Tries
  <1>2. CASE /\ replies # <<>> /\ Returns(g, Head(replies), abandoned[g])
             /\ replies' = Tail(replies) /\ UNCHANGED <<open, dropped, sent>>
    <2>1. Head(replies) \in Answers /\ sent = <<>> /\ Tail(replies) = <<>>
      BY <1>2 DEF ConnInv, ConnTypes, OneRoundTrip
    <2> QED
      BY <1>1, <1>2, <2>1, TriesBound, ReturnsInv DEF ConnInv, ConnTypes
  <1>3. CASE Again(g)
    BY <1>1, <1>3, AgainInv
  <1> QED
    BY <1>2, <1>3 DEF Read

\* What an execution does to the variables of the promise.
LEMMA ExecutedTypes ==
    ASSUME ConnTypes, NEW g \in Callers, NEW c \in Commands
    PROVE  /\ Answer(c) \in Answers
           /\ Executed(g, c) =>
                /\ value' \in Vals \cup {Nil} /\ stray' \in [Commands -> Nat]
                /\ command' \in [Callers -> Commands \cup {NoCommand}]
                /\ runs' \in [Callers -> Nat] /\ answers' \in [Callers -> SUBSET Answers]
                /\ result' \in [Callers -> Answers \cup {Error}]
  <1>1. Answer(c) \in Answers /\ Effect(c) \in Vals \cup {Nil}
    BY DEF ConnTypes, Answer, Effect, Answers, Commands
  <1> SUFFICES ASSUME Executed(g, c)
               PROVE  /\ value' \in Vals \cup {Nil} /\ stray' \in [Commands -> Nat]
                      /\ command' \in [Callers -> Commands \cup {NoCommand}]
                      /\ runs' \in [Callers -> Nat]
                      /\ answers' \in [Callers -> SUBSET Answers]
                      /\ result' \in [Callers -> Answers \cup {Error}]
    BY <1>1
  <1>2. value' \in Vals \cup {Nil} /\ stray' = stray /\ command' = command /\ result' = result
    BY <1>1 DEF Executed
  <1>3. runs' \in [Callers -> Nat]
    BY DEF ConnTypes, Executed
  <1>4. answers' \in [Callers -> SUBSET Answers]
    BY <1>1 DEF ConnTypes, Executed
  <1> QED
    BY <1>2, <1>3, <1>4 DEF ConnTypes

\* What L2 executes is the holder's command, alone on the connection.
LEMMA ExecuteOfHolder ==
    ASSUME ConnInv, Execute
    PROVE  /\ mu \in Callers /\ pc[mu] = "read" /\ Len(sent) = 1 /\ replies = <<>>
           /\ Head(sent) = [by |-> mu, cmd |-> command[mu]] /\ Tail(sent) = <<>>
  <1>1. /\ sent \in Seq([by : Callers, cmd : Commands]) /\ replies \in Seq(Answers)
        /\ mu \in Callers \cup {None} /\ sent # <<>>
    BY DEF Execute, ConnInv, ConnTypes
  <1>2. Len(sent) > 0 /\ Len(sent) \in Nat /\ Len(replies) \in Nat
    BY <1>1
  <1>3. Len(sent) = 1 /\ Len(replies) = 0 /\ mu # None /\ pc[mu] = "read"
    <2>1. /\ Len(sent) + Len(replies) <= 1
          /\ Len(sent) + Len(replies) > 0 => mu # None /\ pc[mu] = "read"
      BY DEF ConnInv, OneRoundTrip
    <2> QED
      BY <1>2, <2>1
  <1>4. Head(sent) = sent[1] /\ Tail(sent) = <<>> /\ replies = <<>>
    BY <1>1, <1>3, ShortSequence
  <1>5. sent[1] = [by |-> mu, cmd |-> command[mu]]
    BY <1>2 DEF ConnInv, OneRoundTrip
  <1> QED
    BY <1>1, <1>3, <1>4, <1>5

LEMMA ExecuteInv ==
    ASSUME ConnInv, Execute PROVE ConnInv'
  <1>1. /\ mu \in Callers /\ pc[mu] = "read" /\ Len(sent) = 1 /\ replies = <<>>
        /\ Head(sent) = [by |-> mu, cmd |-> command[mu]] /\ Tail(sent) = <<>>
    BY ExecuteOfHolder
  <1>2. command[mu] \in Commands
    BY <1>1, TriesBound
  <1>3. /\ Executed(mu, command[mu]) /\ sent' = <<>>
        /\ replies' = Append(<<>>, Answer(command[mu]))
        /\ UNCHANGED <<mu, pc, retry, open, dropped, abandoned>>
    BY <1>1 DEF Execute
  <1>4. Answer(command[mu]) \in Answers
    BY <1>1, <1>2, ExecutedTypes DEF ConnInv
  <1>5. /\ replies' \in Seq(Answers) /\ Len(replies') = 1
        /\ replies'[1] = Answer(command[mu])
    BY <1>3, <1>4, OneMessage
  <1>6. ConnTypes'
    <2>1. sent' \in Seq([by : Callers, cmd : Commands])
      BY <1>3, OneMessage
    <2> QED
      BY <1>1, <1>2, <1>3, <1>5, <2>1, ExecutedTypes DEF ConnInv, ConnTypes
  <1>7. \A h \in Callers : OneTurn(h)'
    <2> SUFFICES ASSUME NEW h \in Callers PROVE OneTurn(h)'
      OBVIOUS
    <2>1. /\ ConnTypes /\ OneTurn(h) /\ pc' = pc /\ command' = command /\ retry' = retry
          /\ abandoned' = abandoned /\ mu' = mu /\ open' = open /\ Len(sent') = 0
          /\ runs'[h] = IF h = mu THEN runs[h] + 1 ELSE runs[h]
      BY <1>1, <1>3 DEF ConnInv, ConnTypes, Executed
    <2> QED
      BY <1>1, <2>1, TriesBound DEF OneTurn, Tries
  <1>8. OneRoundTrip'
    <2>1. answers'[mu] = answers[mu] \cup {Answer(command[mu])}
      BY <1>1, <1>3 DEF Executed, ConnInv, ConnTypes
    <2> QED
      BY <1>1, <1>3, <1>5, <2>1, ConnAssumption DEF OneRoundTrip
  <1> QED
    BY <1>6, <1>7, <1>8 DEF ConnInv

LEMMA ExecuteAbandonedInv ==
    ASSUME ConnInv, NEW g \in Callers, ExecuteAbandoned(g) PROVE ConnInv'
  <1>1. /\ Executed(g, command[g]) /\ abandoned' = [abandoned EXCEPT ![g] = @ - 1]
        /\ abandoned[g] \in Nat /\ abandoned[g] > 0
        /\ UNCHANGED <<mu, pc, retry, conn>>
    BY DEF ExecuteAbandoned, ConnInv, ConnTypes
  <1>2. command[g] \in Commands /\ pc[g] \notin {"idle", "lock"}
    BY <1>1, TriesBound DEF ConnInv, OneTurn
  <1>3. abandoned' \in [Callers -> Nat]
    BY <1>1 DEF ConnInv, ConnTypes
  <1>4. ConnTypes'
    BY <1>1, <1>2, <1>3, ExecutedTypes DEF conn, ConnInv, ConnTypes
  <1>5. \A h \in Callers : OneTurn(h)'
    <2> SUFFICES ASSUME NEW h \in Callers PROVE OneTurn(h)'
      OBVIOUS
    <2>1. /\ ConnTypes /\ OneTurn(h) /\ pc' = pc /\ command' = command /\ retry' = retry
          /\ mu' = mu /\ open' = open /\ sent' = sent
          /\ runs'[h] = IF h = g THEN runs[h] + 1 ELSE runs[h]
          /\ abandoned'[h] = IF h = g THEN abandoned[h] - 1 ELSE abandoned[h]
      BY <1>1 DEF conn, ConnInv, ConnTypes, Executed
    <2>2. runs[h] + abandoned[h] = runs'[h] + abandoned'[h]
      BY <2>1, TriesBound
    <2>3. Tries(h)' = Tries(h)
      BY <2>1 DEF Tries
    <2>4. h = g => pc[h] \notin {"idle", "lock"}
      BY <1>2
    <2>5. h # g => runs'[h] = runs[h] /\ abandoned'[h] = abandoned[h]
      BY <2>1
    <2> QED
      BY <2>1, <2>2, <2>3, <2>4, <2>5 DEF OneTurn
  <1>6. OneRoundTrip'
    <2>1. \A h \in Callers : answers[h] \subseteq answers'[h]
      BY <1>1 DEF Executed, ConnInv, ConnTypes
    <2>2. mu' = mu /\ pc' = pc /\ sent' = sent /\ replies' = replies /\ command' = command
      BY <1>1 DEF conn, Executed
    <2>3. mu \in Callers \cup {None}
      BY DEF ConnInv, ConnTypes
    <2> QED
      BY <2>1, <2>2, <2>3 DEF ConnInv, OneRoundTrip
  <1> QED
    BY <1>4, <1>5, <1>6 DEF ConnInv

LEMMA ExecuteStrayInv ==
    ASSUME ConnInv, NEW c \in Commands, ExecuteStray(c) PROVE ConnInv'
  <1>1. /\ value' = Effect(c) /\ stray[c] > 0 /\ stray' = [stray EXCEPT ![c] = @ - 1]
        /\ UNCHANGED <<command, runs, answers, result, mu, pc, retry,
                       open, dropped, sent, replies, abandoned>>
    BY DEF ExecuteStray, StrayRun, conn
  <1>2. value' \in Vals \cup {Nil}
    BY <1>1 DEF Effect, Commands, ConnInv, ConnTypes
  <1>3. stray' \in [Commands -> Nat]
    BY <1>1 DEF ConnInv, ConnTypes
  <1>4. ConnTypes'
    BY <1>1, <1>2, <1>3 DEF ConnInv, ConnTypes
  <1>5. \A h \in Callers : OneTurn(h)'
    BY <1>1 DEF ConnInv, OneTurn, Tries
  <1>6. OneRoundTrip'
    BY <1>1 DEF ConnInv, OneRoundTrip
  <1> QED
    BY <1>4, <1>5, <1>6 DEF ConnInv

LEMMA RestartInv ==
    ASSUME ConnInv, Restart PROVE ConnInv'
  <1>1. /\ value' = Nil /\ stray' = [c \in Commands |-> 0]
        /\ UNCHANGED <<command, runs, answers, result, mu, pc, retry, open>>
        /\ dropped' = open /\ sent' = <<>> /\ replies' \in {<<>>, replies}
        /\ abandoned' = [g \in Callers |-> 0]
    BY DEF Restart, L2Restart
  <1>2. ConnTypes'
    <2>1. replies' \in Seq(Answers) /\ sent' \in Seq([by : Callers, cmd : Commands])
      <3>1. replies \in Seq(Answers)
        BY DEF ConnInv, ConnTypes
      <3> QED
        <4>1. /\ <<>> \in Seq([by : Callers, cmd : Commands])
              /\ <<>> \in Seq(Answers)
          BY EmptySeq
        <4>2. replies' \in Seq(Answers)
          BY <1>1, <3>1, <4>1
        <4>3. sent' \in Seq([by : Callers, cmd : Commands])
          BY <1>1, <4>1
        <4> QED
          BY <4>2, <4>3
    <2>2. abandoned' \in [Callers -> Nat] /\ stray' \in [Commands -> Nat]
      BY <1>1
    <2> QED
      BY <1>1, <2>1, <2>2 DEF ConnInv, ConnTypes
  <1>3. \A h \in Callers : OneTurn(h)'
    <2> SUFFICES ASSUME NEW h \in Callers PROVE OneTurn(h)'
      OBVIOUS
    <2>1. abandoned'[h] = 0 /\ Len(sent') = 0
      BY <1>1
    <2>2. /\ OneTurn(h) /\ pc' = pc /\ command' = command /\ mu' = mu /\ open' = open
          /\ runs' = runs /\ retry' = retry
      BY <1>1 DEF ConnInv
    <2>3. /\ runs[h] \in Nat /\ abandoned[h] \in Nat /\ runs[h] <= Tries(h)
      BY <2>2, TriesBound, CallAssumption DEF ConnInv, ConnTypes, OneTurn, Tries
    <2>4. Tries(h)' = Tries(h)
      BY <2>2 DEF Tries
    <2> QED
      BY <2>1, <2>2, <2>3, <2>4 DEF OneTurn
  <1>4. OneRoundTrip'
    <2>1. Len(sent') = 0 /\ Len(replies') <= Len(replies) /\ Len(replies') \in Nat
      BY <1>1 DEF ConnInv, ConnTypes
    <2>2. Len(replies') > 0 => replies' = replies
      BY <1>1
    <2> QED
      BY <1>1, <2>1, <2>2, TriesBound DEF ConnInv, ConnTypes, OneRoundTrip
  <1> QED
    BY <1>2, <1>3, <1>4 DEF ConnInv

\* One round trip at a time, by the holder of the mutex, with at most
\* Attempts executions of its command.
THEOREM ConnInvariant == CSpec => []ConnInv
  <1>1. ConnInv /\ [CNext]_cvars => ConnInv'
    <2> SUFFICES ASSUME ConnInv, [CNext]_cvars PROVE ConnInv'
      OBVIOUS
    <2>1. CASE UNCHANGED cvars
      BY <2>1 DEF cvars, promise, conn, ConnInv, ConnTypes, OneTurn, Tries, OneRoundTrip
    <2>2. ASSUME NEW g \in Callers, Call(g) \/ Step(g) \/ ExecuteAbandoned(g)
          PROVE  ConnInv'
      BY <2>2, CallInv, LockInv, EnsureConnInv, WriteInv, ReadInv, ExecuteAbandonedInv
      DEF Step
    <2>3. ASSUME NEW c \in Commands, ExecuteStray(c) PROVE ConnInv'
      BY <2>3, ExecuteStrayInv
    <2> QED
      BY <2>1, <2>2, <2>3, ExecuteInv, RestartInv DEF CNext
  <1> QED
    BY <1>1, InitInv, PTL DEF CSpec

-----------------------------------------------------------------------------
(* What a step does to the promise.                                        *)

\* A return of the holder is an End of the promise.
LEMMA ReturnsIsEnd ==
    ASSUME ConnInv, NEW g \in Callers, mu = g,
           NEW answer \in answers[g] \cup {Error}, answer \in Answers \cup {Error},
           NEW left \in {abandoned[g], abandoned[g] + Len(sent)},
           Returns(g, answer, left)
    PROVE  Next
  <1>1. left \in 0..Attempts /\ left + runs[g] <= Attempts
    BY TriesBound
  <1>2. command[g] # NoCommand
    BY TriesBound, CallAssumption
  <1>3. End(g, answer, left)
    BY <1>1, <1>2 DEF Returns, End
  <1> QED
    BY <1>1, <1>3 DEF Next

LEMMA AgainIsStep ==
    ASSUME ConnInv, NEW g \in Callers, mu = g, Again(g)
    PROVE  Next \/ UNCHANGED vars
  <1>1. CASE retry[g] + 1 < Attempts
    BY <1>1 DEF Again, promise, vars
  <1>2. CASE ~(retry[g] + 1 < Attempts)
    BY <1>2, ReturnsIsEnd DEF Again
  <1> QED
    BY <1>1, <1>2

LEMMA StepIsStep ==
    ASSUME ConnInv, NEW g \in Callers, Step(g)
    PROVE  Next \/ UNCHANGED vars
  <1>1. CASE Lock(g)
    BY <1>1 DEF Lock, promise, vars
  <1>2. CASE EnsureConn(g)
    <2>1. mu = g
      BY <1>2 DEF EnsureConn, ConnInv, OneTurn
    <2>2. CASE UNCHANGED promise
      BY <2>2 DEF promise, vars
    <2>3. CASE Returns(g, Error, abandoned[g])
      BY <2>1, <2>3, ReturnsIsEnd
    <2> QED
      BY <1>2, <2>2, <2>3 DEF EnsureConn
  <1>3. CASE Write(g)
    <2>1. mu = g
      BY <1>3 DEF Write, ConnInv, OneTurn
    <2>2. CASE UNCHANGED promise
      BY <2>2 DEF promise, vars
    <2>3. CASE Again(g)
      BY <2>1, <2>3, AgainIsStep
    <2> QED
      BY <1>3, <2>2, <2>3 DEF Write
  <1>4. CASE Read(g)
    <2>1. mu = g
      BY <1>4 DEF Read, ConnInv, OneTurn
    <2>2. CASE replies # <<>> /\ Returns(g, Head(replies), abandoned[g])
      <3>1. replies \in Seq(Answers) /\ OneRoundTrip /\ sent \in Seq([by : Callers, cmd : Commands])
        BY DEF ConnInv, ConnTypes
      <3>2. Len(replies) \in Nat \ {0} /\ Len(sent) \in Nat
        BY <2>2, <3>1, EmptySeq, LenProperties
      <3>3. Len(replies) = 1
        <4>1. Len(sent) + Len(replies) <= 1
          BY <3>1 DEF OneRoundTrip
        <4> DEFINE a == Len(sent)
                   b == Len(replies)
        <4>2. b \in Nat \ {0} /\ a \in Nat /\ a + b <= 1
          BY <3>2, <4>1
        <4> HIDE DEF a, b
        <4>3. b = 1
          BY <4>2
        <4> QED
          BY <4>3 DEF b
      <3>4. Head(replies) = replies[1] /\ Head(replies) \in Answers
        BY <2>2, <3>1, <3>3, ShortSequence, HeadTailProperties
      <3>5. Head(replies) \in answers[g]
        BY <2>1, <3>1, <3>2, <3>4 DEF OneRoundTrip
      <3> QED
        BY <2>1, <2>2, <3>4, <3>5, ReturnsIsEnd
    <2>3. CASE Again(g)
      BY <2>1, <2>3, AgainIsStep
    <2> QED
      BY <1>4, <2>2, <2>3 DEF Read
  <1> QED
    BY <1>1, <1>2, <1>3, <1>4 DEF Step

LEMMA ExecuteIsRun ==
    ASSUME ConnInv, Execute PROVE Next
  <1>1. /\ mu \in Callers /\ Len(sent) = 1 /\ Executed(mu, command[mu])
    BY ExecuteOfHolder DEF Execute
  <1>2. command[mu] # NoCommand /\ runs[mu] < Attempts
    BY <1>1, TriesBound, CallAssumption
  <1> QED
    BY <1>1, <1>2 DEF Run, Next

LEMMA ExecuteAbandonedIsRun ==
    ASSUME ConnInv, NEW g \in Callers, ExecuteAbandoned(g) PROVE Next
  <1>1. Executed(g, command[g]) /\ abandoned[g] > 0
    BY DEF ExecuteAbandoned
  <1>2. pc[g] # "idle"
    BY <1>1 DEF ConnInv, OneTurn
  <1>3. command[g] # NoCommand /\ runs[g] < Attempts
    BY <1>1, <1>2, TriesBound, CallAssumption
  <1> QED
    BY <1>1, <1>3 DEF Run, Next

\* A call returns an answer that an execution of its own command gave since
\* it began, or an error, and each command is executed Attempts times at most
\* (call, under l.mu, with reset after every failure).
THEOREM CallKeepsPromise == CSpec => PromiseKept
  <1>1. CInit => Init
    BY DEF CInit
  <1>2. ConnInv /\ [CNext]_cvars => [Next]_vars
    <2> SUFFICES ASSUME ConnInv, [CNext]_cvars PROVE Next \/ UNCHANGED vars
      OBVIOUS
    <2>1. CASE UNCHANGED cvars
      BY <2>1 DEF cvars, promise, vars
    <2>2. ASSUME NEW g \in Callers, Call(g) PROVE Next
      BY <2>2 DEF Call, Next
    <2>3. ASSUME NEW g \in Callers, Step(g) PROVE Next \/ UNCHANGED vars
      BY <2>3, StepIsStep
    <2>4. ASSUME NEW g \in Callers, ExecuteAbandoned(g) PROVE Next
      BY <2>4, ExecuteAbandonedIsRun
    <2>5. ASSUME NEW c \in Commands, ExecuteStray(c) PROVE Next
      BY <2>5 DEF ExecuteStray, Next
    <2>6. CASE Restart
      BY <2>6 DEF Restart, Next
    <2> QED
      BY <2>1, <2>2, <2>3, <2>4, <2>5, <2>6, ExecuteIsRun DEF CNext
  <1> QED
    BY <1>1, <1>2, ConnInvariant, PTL DEF CSpec, Spec, PromiseKept

-----------------------------------------------------------------------------
(* What a single failure does to the calls.                                *)

\* A connection L2 has closed, and a second try, each take a failure; both
\* at once take two.
Absorbed ==
    /\ faults \in Seq(Faults)
    /\ dropped => Len(faults) > 0
    /\ \A g \in Callers :
         retry[g] > 0 => Len(faults) > 0 /\ (dropped => Len(faults) > 1)

LEMMA FaultCounts ==
    ASSUME faults \in Seq(Faults), NEW kind, Fault(kind)
    PROVE  /\ Len(faults) \in Nat /\ faults' \in Seq(Faults)
           /\ Len(faults') = Len(faults) + 1
           /\ Len(faults) = 0 => faults' = <<kind>>
  <1>1. kind \in Faults /\ faults' = Append(faults, kind)
    BY DEF Fault
  <1>2. Len(faults) \in Nat /\ Len(faults) = 0 => faults = <<>>
    BY EmptySeq, LenProperties
  <1>3. faults' \in Seq(Faults) /\ Len(faults') = Len(faults) + 1
    BY <1>1, AppendProperties
  <1>4. Len(faults) = 0 => faults' = <<kind>>
    <2>1. Append(<<>>, kind) = <<kind>>
      OBVIOUS
    <2> QED
      BY <1>1, <1>2, <2>1
  <1> QED
    BY <1>2, <1>3, <1>4

LEMMA SomeFault ==
    ASSUME Len(faults) \in Nat, Len(faults) > 1 \/ faults = <<"dial">>
    PROVE  Len(faults) > 0
  <1>1. CASE Len(faults) > 1
    BY <1>1
  <1>2. CASE faults = <<"dial">>
    <2>1. Len(<<"dial">>) = 1
      OBVIOUS
    <2> QED
      BY <1>2, <2>1
  <1> QED
    BY <1>1, <1>2

\* A try that failed, because of a new failure or of a connection that an
\* earlier one closed: the last try has at least two failures behind it.
LEMMA AgainAbsorbed ==
    ASSUME Attempts >= 2, ConnInv, Absorbed, OneFailureIsAbsorbed,
           NEW g \in Callers, NEW kind, Again(g),
           Fault(kind) \/ (dropped /\ UNCHANGED faults)
    PROVE  Absorbed' /\ OneFailureIsAbsorbed'
  <1>1. /\ faults \in Seq(Faults) /\ Len(faults) \in Nat
        /\ retry \in [Callers -> 0..(Attempts - 1)] /\ Attempts \in Nat
        /\ result \in [Callers -> Answers \cup {Error}]
    BY CallAssumption, LenProperties DEF Absorbed, ConnInv, ConnTypes
  <1>2. /\ faults' \in Seq(Faults) /\ Len(faults') \in Nat /\ Len(faults') > 0
        /\ Len(faults') >= Len(faults)
        /\ retry[g] > 0 => Len(faults') > 1
        /\ faults' = faults \/ Len(faults') = Len(faults) + 1
    BY <1>1, FaultCounts DEF Absorbed
  <1>3. dropped' = FALSE
    BY DEF Again, Reset
  <1>4. Absorbed'
    BY <1>2, <1>3 DEF Absorbed
  <1>5. OneFailureIsAbsorbed'
    <2> SUFFICES ASSUME NEW h \in Callers, result'[h] = Error
                 PROVE  Len(faults') > 1 \/ faults' = <<"dial">>
      BY DEF OneFailureIsAbsorbed
    <2>1. CASE retry[g] + 1 < Attempts
      <3>1. result' = result
        BY <2>1 DEF Again, promise
      <3>2. Len(faults) > 1 \/ faults = <<"dial">>
        BY <3>1 DEF OneFailureIsAbsorbed
      <3>3. Len(faults) > 0
        BY <1>1, <3>2, SomeFault
      <3> QED
        BY <1>1, <1>2, <3>2, <3>3
    <2>2. CASE ~(retry[g] + 1 < Attempts)
      BY <1>1, <1>2, <2>2
    <2> QED
      BY <2>1, <2>2
  <1> QED
    BY <1>4, <1>5

\* A step that fails nothing: nobody is told of an error.
LEMMA QuietAbsorbed ==
    ASSUME Absorbed, OneFailureIsAbsorbed, UNCHANGED <<faults, dropped>>,
           \A h \in Callers : retry'[h] > 0 => retry[h] > 0,
           \A h \in Callers : result'[h] = Error => result[h] = Error
    PROVE  Absorbed' /\ OneFailureIsAbsorbed'
  BY DEF Absorbed, OneFailureIsAbsorbed

LEMMA AbsorbedStep ==
    ASSUME Attempts >= 2, ConnInv, Absorbed, OneFailureIsAbsorbed, [CNext]_cvars
    PROVE  Absorbed' /\ OneFailureIsAbsorbed'
  <1>1. /\ faults \in Seq(Faults) /\ Len(faults) \in Nat
        /\ retry \in [Callers -> 0..(Attempts - 1)] /\ Attempts \in Nat
        /\ result \in [Callers -> Answers \cup {Error}]
        /\ replies \in Seq(Answers)
    BY CallAssumption, LenProperties DEF Absorbed, ConnInv, ConnTypes
  <1>2. ASSUME NEW g \in Callers, EnsureConn(g) PROVE Absorbed' /\ OneFailureIsAbsorbed'
    <2>1. CASE UNCHANGED <<promise, retry, dropped, faults>>
      BY <2>1, QuietAbsorbed DEF promise
    <2>2. CASE ~open /\ Fault("dial") /\ Returns(g, Error, abandoned[g]) /\ UNCHANGED conn
      <3>1. /\ faults' \in Seq(Faults) /\ Len(faults') = Len(faults) + 1
            /\ Len(faults) = 0 => faults' = <<"dial">>
        BY <1>1, <2>2, FaultCounts
      <3>2. /\ \A h \in Callers : retry'[h] > 0 => retry[h] > 0
            /\ dropped' = dropped
        BY <1>1, <2>2 DEF Returns, conn
      <3>3. Absorbed'
        BY <1>1, <3>1, <3>2 DEF Absorbed
      <3>4. Len(faults') > 1 \/ faults' = <<"dial">>
        BY <1>1, <3>1
      <3> QED
        BY <3>3, <3>4 DEF OneFailureIsAbsorbed
    <2> QED
      BY <1>2, <2>1, <2>2 DEF EnsureConn
  <1>3. ASSUME NEW g \in Callers, Write(g) PROVE Absorbed' /\ OneFailureIsAbsorbed'
    <2>1. CASE UNCHANGED <<promise, retry, dropped, faults>>
      BY <2>1, QuietAbsorbed DEF promise
    <2>2. CASE dropped /\ UNCHANGED faults /\ Again(g)
      BY <2>2, AgainAbsorbed
    <2>3. CASE Fault("write") /\ Again(g)
      BY <2>3, AgainAbsorbed
    <2> QED
      BY <1>3, <2>1, <2>2, <2>3 DEF Write
  <1>4. ASSUME NEW g \in Callers, Read(g) PROVE Absorbed' /\ OneFailureIsAbsorbed'
    <2>1. CASE /\ replies # <<>> /\ Returns(g, Head(replies), abandoned[g])
               /\ UNCHANGED <<dropped, faults>>
      <3>1. Head(replies) # Error
        BY <1>1, <2>1, HeadTailProperties, CallAssumption
      <3>2. /\ \A h \in Callers : retry'[h] > 0 => retry[h] > 0
            /\ \A h \in Callers : result'[h] = Error => result[h] = Error
        BY <1>1, <2>1, <3>1 DEF Returns, Ended
      <3> QED
        BY <2>1, <3>2, QuietAbsorbed
    <2>2. CASE dropped /\ UNCHANGED faults /\ Again(g)
      BY <2>2, AgainAbsorbed
    <2>3. CASE Fault("timeout") /\ Again(g)
      BY <2>3, AgainAbsorbed
    <2> QED
      BY <1>4, <2>1, <2>2, <2>3 DEF Read
  <1>5. CASE Restart
    <2>1. /\ faults' \in Seq(Faults) /\ Len(faults') = Len(faults) + 1
          /\ retry' = retry /\ result' = result
      BY <1>1, <1>5, FaultCounts DEF Restart, L2Restart
    <2>2. Absorbed'
      BY <1>1, <2>1 DEF Absorbed
    <2>3. ASSUME NEW h \in Callers, result[h] = Error PROVE Len(faults') > 1
      <3>1. Len(faults) > 1 \/ faults = <<"dial">>
        BY <2>3 DEF OneFailureIsAbsorbed
      <3>2. Len(faults) > 0
        BY <1>1, <3>1, SomeFault
      <3> QED
        BY <1>1, <2>1, <3>2
    <2> QED
      BY <2>1, <2>2, <2>3 DEF OneFailureIsAbsorbed
  <1>6. CASE \/ \E g \in Callers : Call(g) \/ Lock(g) \/ ExecuteAbandoned(g)
             \/ Execute \/ (\E c \in Commands : ExecuteStray(c)) \/ UNCHANGED cvars
    <2>1. UNCHANGED <<faults, dropped, retry, result>>
      BY <1>6 DEF Call, Begin, Lock, promise, conn, Execute, Executed, ExecuteAbandoned,
                  ExecuteStray, StrayRun, cvars
    <2> QED
      BY <2>1, QuietAbsorbed
  <1> QED
    BY <1>2, <1>3, <1>4, <1>5, <1>6 DEF CNext, Step

\* With two tries or more, as in call, one failure fails no call, unless it
\* is the dial itself.
THEOREM FailureIsAbsorbed ==
    ASSUME Attempts >= 2 PROVE CSpec => []OneFailureIsAbsorbed
  <1>1. CInit => Absorbed /\ OneFailureIsAbsorbed
    <2> SUFFICES ASSUME CInit PROVE Absorbed /\ OneFailureIsAbsorbed
      OBVIOUS
    <2>1. faults = <<>> /\ dropped = FALSE /\ \A g \in Callers : retry[g] = 0
      BY DEF CInit
    <2>2. \A g \in Callers : result[g] # Error
      <3>1. Nil # Error
        BY CallAssumption DEF Answers
      <3>2. result = [g \in Callers |-> Nil]
        BY DEF CInit, Init
      <3> QED
        BY <3>1, <3>2, Zenon
    <2>3. faults \in Seq(Faults)
      BY <2>1, EmptySeq
    <2> QED
      BY <2>1, <2>2, <2>3 DEF Absorbed, OneFailureIsAbsorbed
  <1>2. ConnInv /\ Absorbed /\ OneFailureIsAbsorbed /\ [CNext]_cvars
          => Absorbed' /\ OneFailureIsAbsorbed'
    BY AbsorbedStep
  <1> QED
    BY <1>1, <1>2, ConnInvariant, PTL DEF CSpec
=============================================================================
