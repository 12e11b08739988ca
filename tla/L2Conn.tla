----------------------------- MODULE L2Conn -----------------------------
(***************************************************************************)
(* L2Client (sidecar/proxy/go/proxy.go): the goroutines of a proxy share   *)
(* one connection to L2 under a mutex.  A call has two tries; after any    *)
(* error the connection is thrown away, and what was sent on it may still  *)
(* be executed.  Implements L2Call.                                        *)
(***************************************************************************)
EXTENDS L2Call, Sequences

CONSTANTS
    None,        \* nobody
    MaxCalls,    \* bound: calls begun
    Faults,      \* kinds of failure that may happen,
    MaxFaults    \*   and a bound on how many do

ASSUME ConnAssumption ==
    None \notin Callers /\ MaxCalls \in Nat /\ MaxFaults \in Nat

VARIABLES
    mu,         \* the holder of l.mu
    pc,         \* where a goroutine is in call
    retry,      \* its loop variable
    open,       \* l.conn # nil
    dropped,    \* L2 has closed that connection
    sent,       \* commands on it that L2 has not executed, with their caller
    replies,    \* replies on it that have not been read
    abandoned,  \* abandoned[g]: commands of g's call on connections thrown
                \*   away that L2 has not executed
    calls, faults   \* for the bounds

conn == <<open, dropped, sent, replies>>
promise == <<value, runs, answers, command, result, stray>>
cvars == <<promise, mu, pc, retry, conn, abandoned, calls, faults>>

CInit ==
    /\ Init /\ mu = None /\ pc = [g \in Callers |-> "idle"]
    /\ retry = [g \in Callers |-> 0]
    /\ open = FALSE /\ dropped = FALSE /\ sent = <<>> /\ replies = <<>>
    /\ abandoned = [g \in Callers |-> 0] /\ calls = 0 /\ faults = <<>>

Fault(kind) ==
    /\ kind \in Faults /\ Len(faults) < MaxFaults
    /\ faults' = Append(faults, kind)

Goes(g, where) == pc' = [pc EXCEPT ![g] = where]

\* Mutant of Reset: the connection is kept.
ResetNothing(g) == UNCHANGED <<conn, abandoned>>

\* reset
Reset(g) ==
    /\ open' = FALSE /\ dropped' = FALSE /\ sent' = <<>> /\ replies' = <<>>
    /\ abandoned' = [abandoned EXCEPT ![g] = @ + Len(sent)]

\* Mutant of Returns: the mutex stays locked.
ReturnsLocked(g, answer, left) ==
    /\ Ended(g, answer, left) /\ UNCHANGED mu /\ Goes(g, "idle")
    /\ retry' = [retry EXCEPT ![g] = 0]
    /\ abandoned' = [abandoned EXCEPT ![g] = 0]

\* return, with the deferred Unlock; `left' commands are abandoned.
Returns(g, answer, left) ==
    /\ Ended(g, answer, left) /\ mu' = None /\ Goes(g, "idle")
    /\ retry' = [retry EXCEPT ![g] = 0]
    /\ abandoned' = [abandoned EXCEPT ![g] = 0]

-----------------------------------------------------------------------------
(* call.                                                                   *)

Call(g) ==
    /\ pc[g] = "idle" /\ calls < MaxCalls /\ calls' = calls + 1
    /\ \E c \in Commands : Begin(g, c)
    /\ Goes(g, "lock")
    /\ UNCHANGED <<mu, retry, conn, abandoned, faults>>

Lock(g) ==
    /\ pc[g] = "lock" /\ mu = None
    /\ mu' = g /\ Goes(g, "conn")
    /\ UNCHANGED <<promise, retry, conn, abandoned, calls, faults>>

\* ensureConn: a dial, unless there is a connection.
EnsureConn(g) ==
    /\ pc[g] = "conn"
    /\ \/ /\ open' = TRUE /\ Goes(g, "write")
          /\ UNCHANGED <<promise, mu, retry, dropped, sent, replies, abandoned, faults>>
       \/ /\ ~open /\ Fault("dial") /\ Returns(g, Error, abandoned[g])
          /\ UNCHANGED conn
    /\ UNCHANGED calls

\* Mutant of Again: no second try.
NotAgain(g) ==
    /\ Returns(g, Error, abandoned[g] + Len(sent))
    /\ open' = FALSE /\ dropped' = FALSE /\ sent' = <<>> /\ replies' = <<>>

\* reset and continue; after the last try the call has failed.
Again(g) ==
    IF retry[g] + 1 < Attempts
    THEN /\ Reset(g) /\ Goes(g, "conn")
         /\ retry' = [retry EXCEPT ![g] = @ + 1]
         /\ UNCHANGED <<promise, mu>>
    ELSE /\ Returns(g, Error, abandoned[g] + Len(sent))
         /\ open' = FALSE /\ dropped' = FALSE /\ sent' = <<>> /\ replies' = <<>>

\* l.conn.Write.  What is written to a connection L2 has closed is lost,
\* and the first write to it need not fail.
Write(g) ==
    /\ pc[g] = "write" /\ UNCHANGED calls
    /\ \/ /\ sent' = IF dropped THEN sent ELSE Append(sent, [by |-> g, cmd |-> command[g]])
          /\ Goes(g, "read")
          /\ UNCHANGED <<promise, mu, retry, open, dropped, replies, abandoned, faults>>
       \/ dropped /\ UNCHANGED faults /\ Again(g)
       \/ Fault("write") /\ Again(g)

\* readResp: a reply; the end of the connection; or the deadline.
Read(g) ==
    /\ pc[g] = "read" /\ UNCHANGED calls
    /\ \/ /\ replies # <<>>
          /\ Returns(g, Head(replies), abandoned[g])
          /\ replies' = Tail(replies)
          /\ UNCHANGED <<open, dropped, sent, faults>>
       \/ dropped /\ replies = <<>> /\ UNCHANGED faults /\ Again(g)
       \/ Fault("timeout") /\ Again(g)

-----------------------------------------------------------------------------
(* L2.                                                                     *)

Execute ==
    /\ sent # <<>>
    /\ LET m == Head(sent) IN
         Executed(m.by, m.cmd) /\ replies' = Append(replies, Answer(m.cmd))
    /\ sent' = Tail(sent)
    /\ UNCHANGED <<mu, pc, retry, open, dropped, abandoned, calls, faults>>

\* A command on a connection that was thrown away.
ExecuteAbandoned(g) ==
    /\ abandoned[g] > 0 /\ Executed(g, command[g])
    /\ abandoned' = [abandoned EXCEPT ![g] = @ - 1]
    /\ UNCHANGED <<mu, pc, retry, conn, calls, faults>>

ExecuteStray(c) ==
    /\ StrayRun(c)
    /\ UNCHANGED <<mu, pc, retry, conn, abandoned, calls, faults>>

\* L2 restarts: its connections end, and what was on them is lost, save
\* replies that had arrived.
Restart ==
    /\ Fault("restart") /\ L2Restart
    /\ dropped' = open /\ sent' = <<>> /\ replies' \in {<<>>, replies}
    /\ abandoned' = [g \in Callers |-> 0]
    /\ UNCHANGED <<mu, pc, retry, open, calls>>

-----------------------------------------------------------------------------
Step(g) == Lock(g) \/ EnsureConn(g) \/ Write(g) \/ Read(g)

CNext ==
    \/ \E g \in Callers : Call(g) \/ Step(g) \/ ExecuteAbandoned(g)
    \/ Execute \/ Restart
    \/ \E c \in Commands : ExecuteStray(c)

CSpec == CInit /\ [][CNext]_cvars

\* A locked sync.Mutex is handed to waiting goroutines in turn; every round
\* trip ends, by L2 or by the deadline.
FairSpec ==
    /\ CSpec /\ WF_cvars(Execute)
    /\ \A g \in Callers : SF_cvars(Lock(g)) /\ WF_cvars(Step(g))

-----------------------------------------------------------------------------
\* The types of the variables, as call and L2 leave them.
ConnTypes ==
    /\ value \in Vals \cup {Nil} /\ stray \in [Commands -> Nat]
    /\ command \in [Callers -> Commands \cup {NoCommand}]
    /\ runs \in [Callers -> Nat] /\ answers \in [Callers -> SUBSET Answers]
    /\ result \in [Callers -> Answers \cup {Error}]
    /\ mu \in Callers \cup {None}
    /\ pc \in [Callers -> {"idle", "lock", "conn", "write", "read"}]
    /\ retry \in [Callers -> 0..(Attempts - 1)] /\ abandoned \in [Callers -> Nat]
    /\ open \in BOOLEAN /\ dropped \in BOOLEAN
    /\ sent \in Seq([by : Callers, cmd : Commands]) /\ replies \in Seq(Answers)

\* Writes that g's call has made.
Tries(g) == IF pc[g] = "read" THEN retry[g] + 1 ELSE retry[g]

\* A goroutine at work holds the mutex, a caller that waits has done nothing,
\* and what L2 executed or may yet execute for g was written by g's call.
OneTurn(g) ==
    /\ (pc[g] = "idle") <=> (command[g] = NoCommand)
    /\ (pc[g] \in {"conn", "write", "read"}) <=> (mu = g)
    /\ pc[g] \in {"write", "read"} => open
    /\ pc[g] \in {"idle", "lock"} => runs[g] = 0 /\ abandoned[g] = 0 /\ retry[g] = 0
    /\ runs[g] + abandoned[g] <= Tries(g)
    /\ mu = g => runs[g] + abandoned[g] + Len(sent) <= Tries(g)

\* One command or reply on the connection: the holder's.
OneRoundTrip ==
    /\ Len(sent) + Len(replies) <= 1
    /\ Len(sent) + Len(replies) > 0 => mu # None /\ pc[mu] = "read"
    /\ Len(sent) > 0 => sent[1] = [by |-> mu, cmd |-> command[mu]]
    /\ Len(replies) > 0 => replies[1] \in answers[mu]

\* The connection belongs to the holder of the mutex, at most one command is
\* on it, a reply on it is one the holder's call was answered, and executions
\* still possible are within the number of tries (call, reset).
ConnInv == ConnTypes /\ (\A g \in Callers : OneTurn(g)) /\ OneRoundTrip

\* The refinement: what call does implements L2Call, whose variables are
\* the same: every step is one of its steps or changes none of them.
PromiseKept == Spec

\* proxy.go:360-361: "reconnects on error": a restart of L2, a timeout or a
\* failed write, one of them and once, fails no call.
OneFailureIsAbsorbed ==
    \A g \in Callers :
        result[g] = Error => Len(faults) > 1 \/ faults = <<"dial">>

\* Every call returns, for all goroutines that share the connection.
CallsReturn == \A g \in Callers : pc[g] # "idle" ~> pc[g] = "idle"
=============================================================================
