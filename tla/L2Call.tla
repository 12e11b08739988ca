----------------------------- MODULE L2Call -----------------------------
(***************************************************************************)
(* What L2Client.call (sidecar/proxy/go/proxy.go) promises the goroutines  *)
(* that use it: a call returns either the answer of an execution of its    *)
(* own command, made since the call began, or an error.  A command is      *)
(* executed twice at most; an execution the call did not wait for may come *)
(* later.  L2 is a single field of a hash, which is what every command of  *)
(* the proxy touches.                                                      *)
(***************************************************************************)
EXTENDS Naturals

CONSTANTS
    Callers,     \* goroutines
    Vals,        \* values of the field
    Nil,         \* no value
    Ok,          \* answer to an HSET
    Error,       \* the call failed
    NoCommand,   \* not in a call
    Attempts     \* tries of a call (2 in the code)

Commands == [op : {"HSET"}, val : Vals] \cup [op : {"HGET"}, val : {Nil}]
Answers == Vals \cup {Nil, Ok}

ASSUME CallAssumption ==
    /\ Error \notin Answers /\ Ok \notin Vals \cup {Nil} /\ Nil \notin Vals
    /\ NoCommand \notin Commands /\ Attempts \in Nat \ {0}

VARIABLES
    value,     \* the field in L2
    command,   \* command[g]: what g is calling
    runs,      \* runs[g]: executions of it,
    answers,   \* answers[g]:   and what they answered
    result,    \* result[g]: what g's last call returned
    stray      \* stray[c]: executions of c that may come without a caller

vars == <<value, command, runs, answers, result, stray>>

Effect(c) == IF c.op = "HSET" THEN c.val ELSE value
Answer(c) == IF c.op = "HSET" THEN Ok ELSE value

Init ==
    /\ value = Nil /\ command = [g \in Callers |-> NoCommand]
    /\ runs = [g \in Callers |-> 0] /\ answers = [g \in Callers |-> {}]
    /\ result = [g \in Callers |-> Nil] /\ stray = [c \in Commands |-> 0]

Begin(g, c) ==
    /\ command[g] = NoCommand
    /\ command' = [command EXCEPT ![g] = c]
    /\ UNCHANGED <<value, runs, answers, result, stray>>

\* L2 executes c for g's call.
Executed(g, c) ==
    /\ value' = Effect(c)
    /\ answers' = [answers EXCEPT ![g] = @ \cup {Answer(c)}]
    /\ runs' = [runs EXCEPT ![g] = @ + 1]
    /\ UNCHANGED <<command, result, stray>>

Run(g) ==
    /\ command[g] # NoCommand /\ runs[g] < Attempts
    /\ Executed(g, command[g])

\* g's call returns answer; n executions of it are still to come.
Ended(g, answer, n) ==
    /\ result' = [result EXCEPT ![g] = answer]
    /\ stray' = [stray EXCEPT ![command[g]] = @ + n]
    /\ command' = [command EXCEPT ![g] = NoCommand]
    /\ runs' = [runs EXCEPT ![g] = 0]
    /\ answers' = [answers EXCEPT ![g] = {}]
    /\ UNCHANGED value

End(g, answer, n) ==
    /\ command[g] # NoCommand /\ answer \in answers[g] \cup {Error}
    /\ n + runs[g] <= Attempts
    /\ Ended(g, answer, n)

StrayRun(c) ==
    /\ stray[c] > 0
    /\ value' = Effect(c) /\ stray' = [stray EXCEPT ![c] = @ - 1]
    /\ UNCHANGED <<command, runs, answers, result>>

\* L2 restarts empty.
L2Restart ==
    /\ value' = Nil /\ stray' = [c \in Commands |-> 0]
    /\ UNCHANGED <<command, runs, answers, result>>

Next ==
    \/ \E g \in Callers, c \in Commands : Begin(g, c)
    \/ \E g \in Callers : Run(g)
    \/ \E g \in Callers, answer \in Answers \cup {Error}, n \in 0..Attempts :
         End(g, answer, n)
    \/ \E c \in Commands : StrayRun(c)
    \/ L2Restart

Spec == Init /\ [][Next]_vars
=============================================================================
