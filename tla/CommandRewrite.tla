-------------------------- MODULE CommandRewrite --------------------------
(***************************************************************************)
(* The command tables of the proxies and rewriteCommand (proxy/go/proxy.go,*)
(* proxy/python/proxy.py), for commands of each table.  An argv is a       *)
(* sequence with the command's name first.                                 *)
(***************************************************************************)
EXTENDS Naturals, Sequences

CONSTANTS Keys, VersionTag

SingleKey == {"GET", "SET"}
ObjectLike == {"OBJECT", "PFCOUNT"}
MultiKeyAll == {"DEL", "MGET"}
MsetStyle == {"MSET"}
PairKey == {"RENAME"}
Passthrough == {"CLIENT", "SUBSCRIBE", "MULTI", "EXEC", "DISCARD", "WATCH"}

WriteRegister == {"SET"}
ReadMiss == {"GET"}

\* Keys come with their version, "tag:key", or without.
VersionPrefix(k) == <<VersionTag, k>>
RedisKeys == Keys \cup {VersionPrefix(k) : k \in Keys}

\* Mutant of KeyArgs: only the first key of MSET gets the prefix.
KeyArgsFirst(argv) ==
    LET n == Len(argv) IN
    {i \in 2..n : \/ argv[1] \in SingleKey \cup MsetStyle /\ i = 2
                  \/ argv[1] \in ObjectLike /\ i = 3
                  \/ argv[1] \in MultiKeyAll
                  \/ argv[1] \in PairKey /\ n > 2 /\ i \in {2, 3}}

\* The positions that get the prefix; none if there are too few arguments,
\* or if the command is in Passthrough or in no table.
KeyArgs(argv) ==
    LET n == Len(argv) IN
    {i \in 2..n : \/ argv[1] \in SingleKey /\ i = 2
                  \/ argv[1] \in ObjectLike /\ i = 3
                  \/ argv[1] \in MultiKeyAll
                  \/ argv[1] \in MsetStyle /\ i % 2 = 0
                  \/ argv[1] \in PairKey /\ n > 2 /\ i \in {2, 3}}

\* rewriteCommand; nil, which forwards the request as it came, included.
Rewritten(argv) ==
    [i \in DOMAIN argv |->
        IF i \in KeyArgs(argv) THEN VersionPrefix(argv[i]) ELSE argv[i]]
=============================================================================
