-------------------------- MODULE SidecarProxy --------------------------
(***************************************************************************)
(* The sidecar proxies (sidecar/proxy/go/proxy.go; the Python prototype    *)
(* has the same steps).  A proxy stands between the application of its pod *)
(* and the pod's Redis: it puts the pod's version tag before every key,    *)
(* registers written keys in the L2 index, and answers a read miss from a  *)
(* sibling the index names.                                                *)
(*                                                                         *)
(* A connection has one request in flight; a step is one round trip of its *)
(* handler, to the local Redis, to L2 or to a peer.                        *)
(***************************************************************************)
EXTENDS Naturals, FiniteSets

CONSTANTS
    Pods, Keys, Vals, Ips, Versions,
    Version,       \* Version[p]: VERSION_TAG of p's proxy
    Clients,       \* application connections
    Home,          \* Home[c]: the pod whose application opened c
    Nil,           \* a null reply; no value
    NoIp,
    ErrorText,     \* what follows the '-' of an error reply
    PeerLimit,     \* peers asked on a miss (3 in the code)
    PeerPortOpen,  \* LISTEN_HOST is not the loopback address
    Ops,           \* commands the applications send
    MaxRequests,   \* bound: requests sent
    Faults,        \* kinds of failure that may happen,
    MaxFaults      \*   and a bound on how many do

Reads == {"GET", "HGET", "HGETALL"}
Writes == {"SET", "MSET", "HSET"}
Commands == Reads \cup Writes \cup {"DEL"}
Contents == [type : {"string", "hash"}, val : Vals \cup {ErrorText}]

ASSUME ProxyAssumption ==
    /\ Version \in [Pods -> Versions] /\ Home \in [Clients -> Pods]
    /\ Nil \notin Contents \cup Vals \cup {ErrorText}
    /\ ErrorText \notin Vals /\ NoIp \notin Ips
    /\ Ops \subseteq Commands /\ PeerPortOpen \in BOOLEAN
    /\ PeerLimit \in Nat \ {0} /\ MaxRequests \in Nat /\ MaxFaults \in Nat

VARIABLES
    status,     \* a pod's proxy: "new", "up", "down" (restarting) or "gone"
    ip,         \* the pod's IP
    l2ok,       \* is the proxy's l2 not nil?
    store,      \* store[p][<<v, k>>]: p's Redis at the key "v:k"
    conn,       \* the handler of each connection
    regs,       \* regs[p][k]: registerWrite goroutines of p for k
    nodemap,    \* L2: nodemap
    sk,         \* L2: fields of replicas:v:k
    written,    \* history: what applications wrote, with tag and key
    owed,       \* history: the siblings that had the key, indexed, when the
                \*   request of a connection was sent
    requests, faults    \* for the bounds

l2    == <<nodemap, sk>>
pod   == <<status, ip, l2ok>>
past  == <<written, owed>>
vars  == <<pod, store, conn, regs, l2, past, requests, faults>>

\* The argument while the request is in hand, the reply once it is known.
Idle == [st |-> "idle", op |-> "none", key |-> Nil, val |-> Nil,
         kind |-> "none", peers |-> {}, asked |-> 0]

Init ==
    /\ status = [p \in Pods |-> "new"] /\ ip = [p \in Pods |-> NoIp]
    /\ l2ok = [p \in Pods |-> FALSE]
    /\ store = [p \in Pods |-> [t \in Versions \X Keys |-> Nil]]
    /\ conn = [c \in Clients |-> Idle]
    /\ regs = [p \in Pods |-> [k \in Keys |-> 0]]
    /\ nodemap = [p \in Pods |-> NoIp] /\ sk = [t \in Versions \X Keys |-> {}]
    /\ written = {} /\ owed = [c \in Clients |-> {}] /\ requests = 0 /\ faults = 0

Up == {p \in Pods : status[p] = "up"}

Fault(kind) ==
    /\ kind \in Faults /\ faults < MaxFaults
    /\ faults' = faults + 1

\* Mutant of VersionPrefix: the tag is left out.
NoPrefix(p, k) == <<CHOOSE v \in Versions : TRUE, k>>

\* versionPrefix: tag, ':', key.  Tags contain no ':', so a pair.
VersionPrefix(p, k) == <<Version[p], k>>

-----------------------------------------------------------------------------
(* The local Redis.                                                        *)

WrongType(op, content) ==
    /\ content # Nil
    /\ \/ op = "GET" /\ content.type = "hash"
       \/ op \in {"HGET", "HGETALL", "HSET"} /\ content.type = "string"

\* What a command leaves under its key.
After(op, content, val) ==
    IF WrongType(op, content) THEN content ELSE
    CASE op = "DEL"              -> Nil
      [] op \in {"SET", "MSET"}  -> [type |-> "string", val |-> val]
      [] op = "HSET"             -> [type |-> "hash", val |-> val]
      [] op \in Reads            -> content

\* The frame of its reply, and the value in it.  A missing key is a null bulk
\* string, but an empty array where the command returns a collection.
ReplyKind(op, content) ==
    IF WrongType(op, content) THEN "error"
    ELSE IF op \in {"GET", "HGET"} THEN "bulk" ELSE "other"

Found(op, content) ==
    IF op \in Reads /\ content # Nil /\ ~WrongType(op, content)
    THEN content.val ELSE Nil

-----------------------------------------------------------------------------
(* Pods.                                                                   *)

\* A pod's first start takes an IP that no live pod has; a container restart
\* keeps it.  main(): PING, then selfRegister, before the ports open.  A
\* failed PING leaves l2 nil for good, a failed HSET is only logged.
Boot(p) ==
    /\ status[p] \in {"new", "down"}
    /\ status' = [status EXCEPT ![p] = "up"]
    /\ \E i \in Ips :
         /\ IF status[p] = "new"
            THEN \A q \in Pods : status[q] \in {"up", "down"} => ip[q] # i
            ELSE i = ip[p]
         /\ ip' = [ip EXCEPT ![p] = i]
         /\ \/ /\ l2ok' = [l2ok EXCEPT ![p] = TRUE]
               /\ nodemap' = [nodemap EXCEPT ![p] = i] /\ UNCHANGED faults
            \/ /\ Fault("l2") /\ UNCHANGED nodemap
               /\ \E ok \in BOOLEAN : l2ok' = [l2ok EXCEPT ![p] = ok]
    /\ UNCHANGED <<store, conn, regs, sk, past, requests>>

\* Mutant of HangUp: the handlers of p go on.
HangUpNone(p) == UNCHANGED <<conn, owed>>

\* Every connection of p's application is closed.
HangUp(p) ==
    /\ conn' = [c \in Clients |-> IF Home[c] = p THEN Idle ELSE conn[c]]
    /\ owed' = [c \in Clients |-> IF Home[c] = p THEN {} ELSE owed[c]]

\* The handlers and the other goroutines of p end with the process.
Stops(p, new) ==
    /\ status' = [status EXCEPT ![p] = new] /\ HangUp(p)
    /\ regs' = [regs EXCEPT ![p] = [k \in Keys |-> 0]]
    /\ UNCHANGED <<ip, l2ok, l2, written, requests>>

\* The proxy's container crashes; the Redis next to it keeps its keys.
Crash(p) ==
    /\ status[p] = "up" /\ Fault("crash")
    /\ Stops(p, "down") /\ UNCHANGED store

\* The Redis of p loses its keys with its container.
Emptied(p) == store' = [store EXCEPT ![p] = [t \in Versions \X Keys |-> Nil]]

\* The pod is deleted.  Nobody tells L2.
PodEnds(p) ==
    /\ status[p] \in {"up", "down"}
    /\ Stops(p, "gone") /\ Emptied(p) /\ UNCHANGED faults

\* The Redis restarts: every handler of p fails at it and returns.
RedisRestart(p) ==
    /\ status[p] = "up" /\ Fault("redis") /\ HangUp(p) /\ Emptied(p)
    /\ UNCHANGED <<pod, regs, l2, written, requests>>

\* The Redis evicts a key.
Evict(p, t) ==
    /\ status[p] \in {"up", "down"} /\ store[p][t] # Nil /\ Fault("evict")
    /\ store' = [store EXCEPT ![p][t] = Nil]
    /\ UNCHANGED <<pod, conn, regs, l2, past, requests>>

\* L2 restarts empty.
L2Restart ==
    /\ Fault("l2restart")
    /\ nodemap' = [p \in Pods |-> NoIp] /\ sk' = [t \in Versions \X Keys |-> {}]
    /\ UNCHANGED <<pod, store, conn, regs, past, requests>>

-----------------------------------------------------------------------------
(* handleAppConn.                                                          *)

WriteRegister == {"SET", "HSET"}
ReadMiss == {"GET", "HGET", "HGETALL"}

Moves(c, rec) == conn' = [conn EXCEPT ![c] = rec]
Tagged(c) == VersionPrefix(Home[c], conn[c].key)

\* The request is settled with a reply, to be written to the application.
Replies(c, kind, val) ==
    Moves(c, [conn[c] EXCEPT !.st = "reply", !.kind = kind, !.val = val,
                             !.peers = {}, !.asked = 0])

\* go l2.registerWrite(cacheKey)
Spawns(p, k) == regs' = [regs EXCEPT ![p][k] = @ + 1]

\* The pods that hold a key and that L2 leads to.
Holders(t) ==
    {q \in Up : store[q][t] # Nil /\ q \in sk[t] /\ nodemap[q] = ip[q]}

\* The application sends a command and waits.
Request(c) ==
    /\ conn[c] = Idle /\ status[Home[c]] = "up" /\ requests < MaxRequests
    /\ requests' = requests + 1
    /\ \E op \in Ops, k \in Keys :
         /\ \E val \in IF op \in Writes THEN Vals ELSE {Nil} :
              Moves(c, [Idle EXCEPT !.st = "sent", !.op = op, !.key = k,
                                    !.val = val])
         /\ owed' = [owed EXCEPT ![c] = Holders(VersionPrefix(Home[c], k)) \ {Home[c]}]
    /\ UNCHANGED <<pod, store, regs, l2, written, faults>>

\* The rewritten command's round trip to the local Redis, the registration
\* of a successful write, and the test for a read miss.
Upstream(c) ==
    /\ conn[c].st = "sent"
    /\ LET p == Home[c]
           req == conn[c]
           content == store[p][Tagged(c)]
           kind == ReplyKind(req.op, content)
           value == Found(req.op, content)
       IN /\ store' = [store EXCEPT ![p][Tagged(c)] =
                           After(req.op, content, req.val)]
          /\ written' = IF req.op \in Writes /\ kind # "error"
                        THEN written \cup {<<Version[p], req.key, req.val>>} ELSE written
          /\ IF l2ok[p] /\ req.op \in WriteRegister /\ kind # "error"
             THEN Spawns(p, req.key) ELSE UNCHANGED regs
          /\ IF l2ok[p] /\ req.op \in ReadMiss /\ kind = "bulk" /\ value = Nil
             THEN Moves(c, [req EXCEPT !.st = "peers"])
             ELSE Replies(c, kind, value)
    /\ UNCHANGED <<pod, l2, owed, requests, faults>>

\* peerFetchValue: HGETALL of the replica set.
GetPeers(c) ==
    /\ conn[c].st = "peers"
    /\ LET peers == sk[Tagged(c)] \ {Home[c]} IN
       \/ /\ peers # {} /\ UNCHANGED faults
          /\ Moves(c, [conn[c] EXCEPT !.st = "ask", !.peers = peers])
       \/ peers = {} /\ UNCHANGED faults /\ Replies(c, "bulk", Nil)
       \/ Fault("l2") /\ Replies(c, "bulk", Nil)
    /\ UNCHANGED <<pod, store, regs, l2, past, requests>>

\* The pod behind the peer-fetch address L2 has for q, if it is up.
Behind(q) == {p \in Up : PeerPortOpen /\ ip[p] = nodemap[q]}

\* A peer's Redis is sent the command with nothing but the key: an error
\* reply, too, is parsed to a byte string.
PeerReply(op, content) ==
    IF op # "GET" \/ WrongType(op, content) THEN ErrorText ELSE Found(op, content)

\* Mutants of NextPeer: the loop forgets to count; it gives up at once.
SamePeer(c, q) == UNCHANGED conn
NoNextPeer(c, q) == Replies(c, "bulk", Nil)

\* continue: the next of the first PeerLimit peers, or a miss.
NextPeer(c, q) ==
    LET rest == conn[c].peers \ {q}
        asked == conn[c].asked + 1
    IN IF rest = {} \/ asked = PeerLimit
       THEN Replies(c, "bulk", Nil)
       ELSE Moves(c, [conn[c] EXCEPT !.peers = rest, !.asked = asked])

\* HGET nodemap q, and the round trip to the peer-fetch port found there.
\* Peers come in any order (a Go map).
AskPeer(c, q) ==
    /\ conn[c].st = "ask" /\ q \in conn[c].peers
    /\ \/ Behind(q) = {} /\ UNCHANGED faults /\ NextPeer(c, q)
       \/ Fault("peer") /\ NextPeer(c, q)
       \/ /\ UNCHANGED faults
          /\ \E p \in Behind(q) :
               LET value == PeerReply(conn[c].op, store[p][Tagged(c)]) IN
               IF value = Nil THEN NextPeer(c, q)
               ELSE Moves(c, [conn[c] EXCEPT !.st = "writeback", !.val = value,
                                             !.peers = {}, !.asked = 0])
    /\ UNCHANGED <<pod, store, regs, l2, past, requests>>

\* Mutant of WriteBack: the fetched key is not registered.
WriteBackOnly(c) ==
    /\ conn[c].st = "writeback"
    /\ store' = [store EXCEPT ![Home[c]][Tagged(c)] =
                    [type |-> "string", val |-> conn[c].val]]
    /\ Replies(c, "bulk", conn[c].val)
    /\ UNCHANGED <<pod, regs, l2, past, requests, faults>>

\* SET of the fetched value, whatever is there by now; then it is the reply.
WriteBack(c) ==
    /\ conn[c].st = "writeback"
    /\ store' = [store EXCEPT ![Home[c]][Tagged(c)] =
                    [type |-> "string", val |-> conn[c].val]]
    /\ Spawns(Home[c], conn[c].key)
    /\ Replies(c, "bulk", conn[c].val)
    /\ UNCHANGED <<pod, l2, past, requests, faults>>

Reply(c) ==
    /\ conn[c].st = "reply" /\ Moves(c, Idle)
    /\ owed' = [owed EXCEPT ![c] = {}]
    /\ UNCHANGED <<pod, store, regs, l2, written, requests, faults>>

-----------------------------------------------------------------------------
(* registerWrite, a goroutine.                                             *)

\* An HSET that fails is logged; it may have been applied.
RegisterWrite(p, k) ==
    LET t == VersionPrefix(p, k)
        added == [sk EXCEPT ![t] = @ \cup {p}]
    IN /\ regs[p][k] > 0
       /\ regs' = [regs EXCEPT ![p][k] = @ - 1]
       /\ \/ sk' = added /\ UNCHANGED faults
          \/ Fault("l2") /\ sk' \in {sk, added}
       /\ UNCHANGED <<pod, store, conn, nodemap, past, requests>>

-----------------------------------------------------------------------------
Handler(c) ==
    \/ Upstream(c) \/ GetPeers(c) \/ WriteBack(c) \/ Reply(c)
    \/ \E q \in Pods : AskPeer(c, q)

Environment ==
    \/ \E p \in Pods : Boot(p) \/ Crash(p) \/ PodEnds(p) \/ RedisRestart(p)
    \/ \E p \in Pods, t \in Versions \X Keys : Evict(p, t)
    \/ L2Restart

Next ==
    \/ \E c \in Clients : Request(c) \/ Handler(c)
    \/ \E p \in Pods, k \in Keys : RegisterWrite(p, k)
    \/ Environment

Spec == Init /\ [][Next]_vars

\* The goroutines run; every call has a deadline.
FairSpec ==
    /\ Spec
    /\ \A c \in Clients : WF_vars(Handler(c))
    /\ \A p \in Pods, k \in Keys : WF_vars(RegisterWrite(p, k))
-----------------------------------------------------------------------------
(* Types.                                                                  *)

Tags == Versions \X Keys
Requests == [st : {"idle", "sent", "peers", "ask", "writeback", "reply"},
             op : Commands \cup {"none"}, key : Keys \cup {Nil},
             val : Vals \cup {Nil, ErrorText},
             kind : {"none", "bulk", "error", "other"},
             peers : SUBSET Pods, asked : Nat]

\* Every variable has the shape the code gives it; a connection of a pod that
\* is not up has no request in hand.
TypeOK ==
    /\ status \in [Pods -> {"new", "up", "down", "gone"}]
    /\ ip \in [Pods -> Ips \cup {NoIp}] /\ l2ok \in [Pods -> BOOLEAN]
    /\ store \in [Pods -> [Tags -> Contents \cup {Nil}]]
    /\ conn \in [Clients -> Requests]
    /\ \A c \in Clients : status[Home[c]] # "up" => conn[c] = Idle
    /\ regs \in [Pods -> [Keys -> Nat]]
    /\ nodemap \in [Pods -> Ips \cup {NoIp}] /\ sk \in [Tags -> SUBSET Pods]
    /\ written \subseteq Versions \X Keys \X Vals /\ owed \in [Clients -> SUBSET Pods]
    /\ requests \in Nat /\ faults \in Nat

-----------------------------------------------------------------------------
(* What applications see.                                                  *)

\* A value in a reply was written by some application of the same version,
\* under the same key: across peers, pods that end, reused IPs, evictions and
\* failing calls (handleAppConn, peerFetchValue).
RepliesAreGenuine ==
    \A c \in Clients :
        conn[c].st = "reply" /\ conn[c].val # Nil =>
            <<Version[Home[c]], conn[c].key, conn[c].val>> \in written

\* proxy.go:10-11: "On read miss we fall back to a peer-fetch through any
\* sibling registered in L2".  A read is answered with a miss only if every
\* sibling that had the key indexed when the read was sent is gone.  For
\* runs without DEL, and without HGETALL, whose miss is no null bulk string.
MissMeansNoHolder ==
    faults = 0 =>
        \A c \in Clients :
            conn[c].st = "reply" /\ conn[c].op \in Reads
                /\ conn[c].kind # "error" /\ conn[c].val = Nil
            => owed[c] \cap Up = {}

\* proxy.go:478: "registerWrite is called as a goroutine after every
\* successful write command": what a running proxy's Redis holds is in the
\* index, or about to be.
HoldersAreIndexed ==
    faults = 0 =>
        \A p \in Up, t \in Tags :
            store[p][t] # Nil => p \in sk[t] \/ regs[p][t[2]] > 0

\* proxy.py:220-224: "L2 is best-effort, the application path must not fail
\* when L2 is down": whatever fails, every request is answered, unless its
\* pod or proxy stops.
RequestsAreAnswered ==
    \A c \in Clients : conn[c].st # "idle" ~> conn[c].st = "idle"
=============================================================================
