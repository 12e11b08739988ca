--------------------------- MODULE MCAppSession ---------------------------
(* An instance of SessionWire for TLC.                                     *)
EXTENDS SessionWire

CONSTANTS c1, c2,  \* connections
          x, y,    \* keys
          a, b     \* values

\* On one connection, a command of each table, and those with no reply or
\* with several.
Commands ==
    {<<"GET", x>>, <<"SET", x, a>>, <<"SET", y>>, <<"MSET", x, b, y, a>>, <<"MGET", x, y>>,
     <<"DEL", x, y>>, <<"RENAME", x, y>>, <<"OBJECT", "ENCODING", x>>,
     <<"PFCOUNT", x, y>>, <<"WATCH", x>>, <<"MULTI">>,
     <<"EXEC">>, <<"DISCARD">>, <<"CLIENT">>, <<"SUBSCRIBE", "news", "more">>}

\* The other one reads and writes.
ArgvsAll == [c \in Conns |-> IF c = c1 THEN Commands
                             ELSE {<<"GET", x>>, <<"SET", x, a>>}]

\* Values that could be taken for framing.
PayloadsAll == {<<>>, <<Crlf>>, <<Dollar, 1>>, <<1, Crlf>>}
=============================================================================
