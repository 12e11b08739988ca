---------------------------- MODULE RedisServer ----------------------------
(***************************************************************************)
(* A Redis as its connections see it, for the commands CommandRewrite      *)
(* names: keys with values, transactions with WATCH, and commands with no  *)
(* reply or several.  A server is a record, and Serve(s, c, argv) what it  *)
(* is and what it sends on connection c after argv.                        *)
(***************************************************************************)
EXTENDS Naturals, Sequences, FiniteSets

CONSTANTS Conns, Names, Nil, Ok, Error, Queued

\* Integers and arrays among the replies.
Number(n) == [int |-> n]
Array(replies) == [items |-> replies]

Started == [db |-> [k \in Names |-> Nil],
            watched |-> [c \in Conns |-> {}], dirty |-> [c \in Conns |-> FALSE],
            aborted |-> [c \in Conns |-> FALSE],
            multi |-> [c \in Conns |-> FALSE], queue |-> [c \in Conns |-> <<>>],
            subscribed |-> [c \in Conns |-> FALSE], silent |-> [c \in Conns |-> FALSE]]

\* Too few arguments, or too many.
Malformed(argv) ==
    LET n == Len(argv) IN
    \/ argv[1] = "GET" /\ n # 2
    \/ argv[1] \in {"OBJECT", "RENAME"} /\ n # 3
    \/ argv[1] \in {"DEL", "MGET", "PFCOUNT"} /\ n < 2
    \/ argv[1] \in {"SET", "MSET"} /\ n < 3
    \/ argv[1] = "MSET" /\ n % 2 = 0

\* The keys of an argv, where Redis has them.
KeysOf(argv) ==
    LET at == CASE argv[1] \in {"GET", "SET"} -> {2}
                [] argv[1] = "OBJECT" -> {3}
                [] argv[1] \in {"DEL", "MGET", "RENAME", "PFCOUNT", "WATCH"} -> 2..Len(argv)
                [] argv[1] = "MSET" -> {i \in 2..Len(argv) : i % 2 = 0}
                [] OTHER -> {}
    IN {argv[i] : i \in at}

\* The value MSET gives to k, the last if there are several.
MsetValue(argv, k) ==
    LET at == {i \in 3..Len(argv) : i % 2 = 1 /\ argv[i - 1] = k}
    IN argv[CHOOSE i \in at : \A j \in at : j <= i]

\* What a command leaves.
Effect(db, argv) ==
    CASE argv[1] = "SET"  -> [db EXCEPT ![argv[2]] = argv[3]]
      [] argv[1] = "MSET" -> [k \in DOMAIN db |->
            IF k \in KeysOf(argv) THEN MsetValue(argv, k) ELSE db[k]]
      [] argv[1] = "DEL"  -> [k \in DOMAIN db |-> IF k \in KeysOf(argv) THEN Nil ELSE db[k]]
      [] argv[1] = "RENAME" /\ db[argv[2]] # Nil
            -> [db EXCEPT ![argv[2]] = Nil, ![argv[3]] = db[argv[2]]]
      [] OTHER -> db

\* The keys of a command that exist.
Existing(db, argv) == {k \in KeysOf(argv) : db[k] # Nil}

Answer(db, argv) ==
    CASE argv[1] = "GET"  -> db[argv[2]]
      [] argv[1] = "MGET" -> Array([i \in 1..(Len(argv) - 1) |-> db[argv[i + 1]]])
      [] argv[1] \in {"DEL", "PFCOUNT", "OBJECT"}
            -> Number(Cardinality(Existing(db, argv)))
      [] argv[1] = "RENAME" /\ db[argv[2]] = Nil -> Error
      [] OTHER -> Ok

\* The keys a command writes; their watchers' transactions will fail.
Writes(db, argv) ==
    {k \in DOMAIN db : \/ Effect(db, argv)[k] # db[k]
                       \/ argv[1] \in {"SET", "MSET"} /\ k \in KeysOf(argv)}

Control == {"MULTI", "EXEC", "DISCARD", "WATCH", "SUBSCRIBE", "CLIENT"}

\* The commands that argv sets off: a transaction, none, or itself.
SetOff(s, c, argv) ==
    IF s.subscribed[c] THEN <<>>
    ELSE IF argv[1] \in Control
         THEN IF argv[1] = "EXEC" /\ s.multi[c] /\ ~s.dirty[c] /\ ~s.aborted[c]
              THEN s.queue[c] ELSE <<>>
         ELSE IF s.multi[c] \/ Malformed(argv) THEN <<>> ELSE <<argv>>

\* After(db, commands)[i] is what the first i commands leave.
After(db, commands) ==
    LET after[i \in 0..Len(commands)] ==
            IF i = 0 THEN db ELSE Effect(after[i - 1], commands[i])
    IN after

Run(db, commands) ==
    LET after == After(db, commands)
    IN [db |-> after[Len(commands)],
        answers |-> [i \in DOMAIN commands |-> Answer(after[i - 1], commands[i])],
        wrote |-> UNION {Writes(after[i - 1], commands[i]) : i \in DOMAIN commands}]

EndMulti(s, c) ==
    [s EXCEPT !.multi[c] = FALSE, !.queue[c] = <<>>, !.watched[c] = {},
              !.dirty[c] = FALSE, !.aborted[c] = FALSE]

\* Subscribed connections may only subscribe.  Every channel of SUBSCRIBE is
\* answered; CLIENT is CLIENT REPLY OFF, which is not.
Serve(s, c, argv) ==
    LET cmd == argv[1]
        run == Run(s.db, SetOff(s, c, argv))
        ran == [s EXCEPT !.db = run.db,
                         !.dirty = [d \in Conns |-> @[d] \/ s.watched[d] \cap run.wrote # {}]]
    IN CASE cmd = "SUBSCRIBE" /\ ~s.multi[c] ->
              [srv |-> [s EXCEPT !.subscribed[c] = TRUE],
               out |-> [i \in 1..(Len(argv) - 1) |-> Ok]]
         [] cmd # "SUBSCRIBE" /\ s.subscribed[c] -> [srv |-> s, out |-> <<Error>>]
         [] cmd = "CLIENT" /\ ~s.subscribed[c] /\ ~s.multi[c] ->
              [srv |-> [s EXCEPT !.silent[c] = TRUE], out |-> <<>>]
         [] cmd = "MULTI" /\ ~s.subscribed[c] /\ ~s.multi[c] ->
              [srv |-> [s EXCEPT !.multi[c] = TRUE], out |-> <<Ok>>]
         [] cmd = "WATCH" /\ ~s.subscribed[c] /\ ~s.multi[c] ->
              [srv |-> [s EXCEPT !.watched[c] = @ \cup KeysOf(argv)], out |-> <<Ok>>]
         [] cmd = "EXEC" /\ ~s.subscribed[c] /\ s.multi[c] ->
              [srv |-> EndMulti(ran, c),
               out |-> <<IF s.aborted[c] THEN Error
                        ELSE IF s.dirty[c] THEN Nil ELSE Array(run.answers)>>]
         [] cmd = "DISCARD" /\ ~s.subscribed[c] /\ s.multi[c] ->
              [srv |-> EndMulti(s, c), out |-> <<Ok>>]
         [] \/ cmd \in {"EXEC", "DISCARD"} /\ ~s.subscribed[c] /\ ~s.multi[c]
            \/ cmd \in {"MULTI", "WATCH"} /\ ~s.subscribed[c] /\ s.multi[c] ->
              [srv |-> s, out |-> <<Error>>]
         [] Malformed(argv) /\ ~s.subscribed[c] ->
              [srv |-> [s EXCEPT !.aborted[c] = s.multi[c]], out |-> <<Error>>]
         [] /\ s.multi[c] /\ ~Malformed(argv)
            /\ \/ cmd = "SUBSCRIBE"
               \/ ~s.subscribed[c] /\ cmd \notin {"EXEC", "DISCARD", "MULTI", "WATCH"} ->
              [srv |-> [s EXCEPT !.queue[c] = Append(@, argv)], out |-> <<Queued>>]
         [] OTHER -> [srv |-> ran, out |-> run.answers]
=============================================================================
