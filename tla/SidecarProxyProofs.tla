----------------------- MODULE SidecarProxyProofs -----------------------
(* Theorems about SidecarProxy for any number of pods, keys and versions. *)
EXTENDS SidecarProxy, FiniteSetTheorems, TLAPS

USE ProxyAssumption

\* What a handler knows of its request: a key, the argument of a write before
\* it is sent, a value once a peer has answered.
Sound(rec) ==
    /\ rec.st # "idle" => rec.key \in Keys /\ rec.op \in Ops
    /\ rec.st = "sent" /\ rec.op \in Writes => rec.val \in Vals
    /\ rec.st \in {"peers", "ask", "writeback"} => rec.op \in ReadMiss
    /\ rec.st = "writeback" => rec.val \in Vals \cup {ErrorText}

ConnInv ==
    /\ conn \in [Clients -> Requests]
    /\ \A c \in Clients :
         /\ Sound(conn[c])
         /\ status[Home[c]] # "up" => conn[c] = Idle

TypeInv == TypeOK /\ ConnInv

LEMMA IdleType == Idle \in Requests /\ Sound(Idle)
BY DEF Idle, Requests, Sound

LEMMA TypeInit == Init => TypeInv
<1> SUFFICES ASSUME Init PROVE TypeInv
  OBVIOUS
<1>1. ConnInv
  BY IdleType DEF Init, ConnInv
<1> QED
  BY <1>1 DEF Init, TypeInv, TypeOK, ConnInv, Tags

\* A connection with a request in hand is one of a running proxy.
LEMMA BusyIsUp ==
    ASSUME ConnInv, NEW c \in Clients, conn[c].st # "idle"
    PROVE  /\ status[Home[c]] = "up" /\ Home[c] \in Pods
           /\ conn[c] \in Requests /\ Sound(conn[c])
           /\ conn[c].key \in Keys /\ conn[c].op \in Ops /\ conn[c].op \in Commands
           /\ Tagged(c) \in Tags
<1>1. status[Home[c]] = "up"
  BY DEF ConnInv, Idle
<1>2. conn[c] \in Requests /\ Sound(conn[c])
  BY DEF ConnInv
<1>3. conn[c].key \in Keys /\ conn[c].op \in Ops /\ conn[c].op \in Commands
  BY <1>2 DEF Sound
<1> QED
  BY <1>1, <1>2, <1>3 DEF Tagged, VersionPrefix, Tags

LEMMA MovesType ==
    ASSUME ConnInv, NEW c \in Clients, status[Home[c]] = "up",
           NEW rec \in Requests, Sound(rec), Moves(c, rec), UNCHANGED status
    PROVE  ConnInv'
<1>1. conn' = [conn EXCEPT ![c] = rec]
  BY DEF Moves
<1>2. conn' \in [Clients -> Requests]
  BY <1>1 DEF ConnInv
<1>3. ASSUME NEW d \in Clients
      PROVE  Sound(conn'[d]) /\ (status'[Home[d]] # "up" => conn'[d] = Idle)
  <2>1. CASE d = c
    BY <1>1, <2>1 DEF ConnInv
  <2>2. CASE d # c
    BY <1>1, <2>2 DEF ConnInv
  <2> QED
    BY <2>1, <2>2
<1>4. ConnInv' <=> /\ conn' \in [Clients -> Requests]
                   /\ \A d \in Clients :
                        /\ Sound(conn'[d])
                        /\ status'[Home[d]] # "up" => conn'[d] = Idle
  BY DEF ConnInv, Sound
<1> QED
  BY <1>2, <1>3, <1>4

LEMMA RepliesType ==
    ASSUME ConnInv, NEW c \in Clients, conn[c].st # "idle",
           NEW kind \in {"bulk", "error", "other"},
           NEW val \in Vals \cup {Nil, ErrorText},
           Replies(c, kind, val), UNCHANGED status
    PROVE  ConnInv'
<1> DEFINE rec == [conn[c] EXCEPT !.st = "reply", !.kind = kind, !.val = val,
                                  !.peers = {}, !.asked = 0]
<1>1. conn[c] \in Requests /\ Sound(conn[c]) /\ status[Home[c]] = "up"
      /\ conn[c].key \in Keys /\ conn[c].op \in Ops
  BY BusyIsUp
<1>2. rec \in Requests /\ rec.st = "reply" /\ rec.key = conn[c].key
      /\ rec.op = conn[c].op
  BY <1>1 DEF Requests
<1>3. Sound(rec)
  BY <1>1, <1>2 DEF Sound
<1>4. Moves(c, rec)
  BY DEF Replies
<1> HIDE DEF rec
<1> QED
  BY <1>1, <1>2, <1>3, <1>4, MovesType

LEMMA NextPeerType ==
    ASSUME ConnInv, NEW c \in Clients, conn[c].st = "ask", NEW q,
           NextPeer(c, q), UNCHANGED status
    PROVE  ConnInv'
<1> DEFINE rest == conn[c].peers \ {q}
           asked == conn[c].asked + 1
           rec == [conn[c] EXCEPT !.peers = rest, !.asked = asked]
<1>1. CASE rest = {} \/ asked = PeerLimit
  <2>1. Replies(c, "bulk", Nil)
    BY <1>1 DEF NextPeer
  <2> QED
    BY <2>1, RepliesType
<1>2. CASE ~(rest = {} \/ asked = PeerLimit)
  <2>1. Moves(c, rec)
    BY <1>2 DEF NextPeer
  <2>2. conn[c] \in Requests /\ Sound(conn[c]) /\ status[Home[c]] = "up"
    BY BusyIsUp
  <2>3. rest \in SUBSET Pods /\ asked \in Nat
    BY <2>2 DEF Requests
  <2>4. rec \in Requests /\ rec.st = conn[c].st /\ rec.key = conn[c].key
        /\ rec.op = conn[c].op /\ rec.val = conn[c].val
    BY <2>2, <2>3 DEF Requests
  <2>5. Sound(rec)
    BY <2>2, <2>4 DEF Sound
  <2> HIDE DEF rec, rest, asked
  <2> QED
    BY <2>1, <2>2, <2>4, <2>5, MovesType
<1> QED
  BY <1>1, <1>2

-----------------------------------------------------------------------------
(* What the Redis does with a command.                                     *)

LEMMA ContentType ==
    ASSUME NEW content \in Contents \cup {Nil}, NEW op \in Commands
    PROVE  /\ Found(op, content) \in Vals \cup {ErrorText, Nil}
           /\ ReplyKind(op, content) \in {"bulk", "error", "other"}
           /\ PeerReply(op, content) \in Vals \cup {ErrorText, Nil}
BY DEF Found, ReplyKind, PeerReply, Contents

LEMMA AfterType ==
    ASSUME NEW content \in Contents \cup {Nil}, NEW op \in Commands, NEW val,
           op \in Writes => val \in Vals
    PROVE  After(op, content, val) \in Contents \cup {Nil}
<1>1. CASE WrongType(op, content)
  BY <1>1 DEF After
<1>2. CASE ~WrongType(op, content) /\ op = "DEL"
  BY <1>2 DEF After
<1>3. CASE ~WrongType(op, content) /\ op \in {"SET", "MSET"}
  BY <1>3 DEF After, Contents, Writes
<1>4. CASE ~WrongType(op, content) /\ op = "HSET"
  BY <1>4 DEF After, Contents, Writes
<1>5. CASE ~WrongType(op, content) /\ op \in Reads
  BY <1>5 DEF After, Reads
<1> QED
  BY <1>1, <1>2, <1>3, <1>4, <1>5 DEF Commands, Writes

LEMMA FaultType ==
    ASSUME faults \in Nat, NEW kind, Fault(kind) PROVE faults' \in Nat
BY DEF Fault

LEMMA PutType ==
    ASSUME TypeOK, NEW p \in Pods, NEW t \in Tags, NEW content \in Contents \cup {Nil},
           store' = [store EXCEPT ![p][t] = content]
    PROVE  store' \in [Pods -> [Tags -> Contents \cup {Nil}]]
BY DEF TypeOK

LEMMA EmptiedType ==
    ASSUME TypeOK, NEW p \in Pods, Emptied(p)
    PROVE  store' \in [Pods -> [Tags -> Contents \cup {Nil}]]
BY DEF TypeOK, Emptied, Tags

LEMMA SpawnsType ==
    ASSUME TypeOK, NEW p \in Pods, NEW k \in Keys, Spawns(p, k)
    PROVE  regs' \in [Pods -> [Keys -> Nat]]
BY DEF TypeOK, Spawns

\* The connections of p are closed and no other is touched.
LEMMA HangUpType ==
    ASSUME TypeOK, ConnInv, NEW p \in Pods, HangUp(p),
           \A q \in Pods \ {p} : status'[q] = status[q]
    PROVE  ConnInv' /\ owed' \in [Clients -> SUBSET Pods]
<1>1. conn' \in [Clients -> Requests]
  BY IdleType DEF HangUp, ConnInv
<1>2. ASSUME NEW d \in Clients
      PROVE  Sound(conn'[d]) /\ (status'[Home[d]] # "up" => conn'[d] = Idle)
  BY IdleType DEF HangUp, ConnInv
<1>3. ConnInv'
  BY <1>1, <1>2 DEF ConnInv, Sound
<1>4. owed' \in [Clients -> SUBSET Pods]
  BY DEF HangUp, TypeOK
<1> QED
  BY <1>3, <1>4
-----------------------------------------------------------------------------
(* Type correctness.                                                       *)

\* A step that leaves pods, L2 and the bound on requests alone.
LEMMA HandlerType ==
    ASSUME TypeInv, ConnInv', UNCHANGED <<pod, l2, requests>>, faults' \in Nat,
           store' \in [Pods -> [Tags -> Contents \cup {Nil}]],
           regs' \in [Pods -> [Keys -> Nat]],
           written' \subseteq Versions \X Keys \X Vals,
           owed' \in [Clients -> SUBSET Pods]
    PROVE  TypeInv'
<1>1. /\ status' = status /\ ip' = ip /\ l2ok' = l2ok
      /\ nodemap' = nodemap /\ sk' = sk /\ requests' = requests
  BY DEF pod, l2
<1> QED
  BY <1>1 DEF TypeInv, TypeOK, ConnInv, Tags

LEMMA RequestType == TypeInv /\ (\E c \in Clients : Request(c)) => TypeInv'
<1> SUFFICES ASSUME TypeInv, NEW c \in Clients, Request(c) PROVE TypeInv'
  OBVIOUS
<1>1. PICK op \in Ops, k \in Keys :
        /\ \E val \in IF op \in Writes THEN Vals ELSE {Nil} :
             Moves(c, [Idle EXCEPT !.st = "sent", !.op = op, !.key = k, !.val = val])
        /\ owed' = [owed EXCEPT ![c] =
                        Holders(VersionPrefix(Home[c], k)) \ {Home[c]}]
  BY DEF Request
<1>2. PICK val \in IF op \in Writes THEN Vals ELSE {Nil} :
        Moves(c, [Idle EXCEPT !.st = "sent", !.op = op, !.key = k, !.val = val])
  BY <1>1
<1> DEFINE rec == [Idle EXCEPT !.st = "sent", !.op = op, !.key = k, !.val = val]
<1>3. rec \in Requests /\ Sound(rec)
  BY DEF Idle, Requests, Sound
<1>4. status[Home[c]] = "up" /\ UNCHANGED status
  BY DEF Request, pod
<1>5. ConnInv'
  <2> HIDE DEF rec
  <2> QED BY <1>2, <1>3, <1>4, MovesType DEF TypeInv, rec
<1>6. owed' \in [Clients -> SUBSET Pods]
  BY <1>1 DEF TypeInv, TypeOK, Holders, Up
<1>7. /\ UNCHANGED <<status, ip, l2ok, store, regs, nodemap, sk, written, faults>>
      /\ requests' = requests + 1
  BY DEF Request, pod, l2
<1> QED
  BY <1>5, <1>6, <1>7 DEF TypeInv, TypeOK, ConnInv, Tags

LEMMA UpstreamType == TypeInv /\ (\E c \in Clients : Upstream(c)) => TypeInv'
<1> SUFFICES ASSUME TypeInv, NEW c \in Clients, Upstream(c) PROVE TypeInv'
  OBVIOUS
<1> DEFINE p == Home[c]
           req == conn[c]
           content == store[p][Tagged(c)]
           kind == ReplyKind(req.op, content)
           value == Found(req.op, content)
<1>1. /\ p \in Pods /\ status[p] = "up" /\ req \in Requests /\ req.st = "sent"
      /\ req.key \in Keys /\ req.op \in Commands /\ req.op \in Ops /\ Tagged(c) \in Tags
      /\ Sound(req)
  BY BusyIsUp DEF Upstream, TypeInv
<1>2. req.op \in Writes => req.val \in Vals
  BY <1>1 DEF Sound
<1>3. content \in Contents \cup {Nil}
  BY <1>1 DEF TypeInv, TypeOK
<1>4. UNCHANGED <<pod, l2, owed, requests, faults>>
  BY DEF Upstream
<1>5. store' \in [Pods -> [Tags -> Contents \cup {Nil}]]
  <2>1. store' = [store EXCEPT ![p][Tagged(c)] = After(req.op, content, req.val)]
    BY DEF Upstream
  <2>2. After(req.op, content, req.val) \in Contents \cup {Nil}
    BY <1>1, <1>2, <1>3, AfterType
  <2> QED
    BY <1>1, <2>1, <2>2, PutType DEF TypeInv
<1>6. written' \subseteq Versions \X Keys \X Vals
  <2>1. Version[p] \in Versions
    BY <1>1
  <2>2. written' = IF req.op \in Writes /\ kind # "error"
                   THEN written \cup {<<Version[p], req.key, req.val>>} ELSE written
    BY DEF Upstream
  <2> QED
    BY <1>1, <1>2, <2>1, <2>2 DEF TypeInv, TypeOK
<1>7. regs' \in [Pods -> [Keys -> Nat]]
  <2>1. Spawns(p, req.key) \/ regs' = regs
    BY DEF Upstream
  <2> QED
    BY <1>1, <2>1, SpawnsType DEF TypeInv, TypeOK
<1>8. ConnInv'
  <2>1. CASE req.op \in ReadMiss /\ Moves(c, [req EXCEPT !.st = "peers"])
    <3> DEFINE rec == [req EXCEPT !.st = "peers"]
    <3>1. rec \in Requests /\ Sound(rec)
      BY <1>1, <2>1 DEF Requests, Sound
    <3> HIDE DEF rec
    <3> QED
      BY <1>1, <1>4, <2>1, <3>1, MovesType DEF TypeInv, pod, rec
  <2>2. CASE Replies(c, kind, value)
    <3>1. kind \in {"bulk", "error", "other"} /\ value \in Vals \cup {Nil, ErrorText}
      BY <1>1, <1>3, ContentType
    <3>2. req.st # "idle" /\ UNCHANGED status
      BY <1>1, <1>4 DEF pod
    <3> HIDE DEF kind, value
    <3> QED
      BY <2>2, <3>1, <3>2, RepliesType DEF TypeInv
  <2> QED
    BY <2>1, <2>2 DEF Upstream
<1>9. owed' \in [Clients -> SUBSET Pods] /\ faults' \in Nat
  BY <1>4 DEF TypeInv, TypeOK
<1> QED
  BY <1>4, <1>5, <1>6, <1>7, <1>8, <1>9, HandlerType

LEMMA GetPeersType == TypeInv /\ (\E c \in Clients : GetPeers(c)) => TypeInv'
<1> SUFFICES ASSUME TypeInv, NEW c \in Clients, GetPeers(c) PROVE TypeInv'
  OBVIOUS
<1> DEFINE peers == sk[Tagged(c)] \ {Home[c]}
           rec == [conn[c] EXCEPT !.st = "ask", !.peers = peers]
<1>1. /\ status[Home[c]] = "up" /\ conn[c] \in Requests /\ conn[c].st = "peers"
      /\ Sound(conn[c]) /\ Tagged(c) \in Tags
  BY BusyIsUp DEF GetPeers, TypeInv
<1>2. UNCHANGED <<pod, store, regs, l2, past, requests>> /\ UNCHANGED status
  BY DEF GetPeers, pod
<1>3. faults' \in Nat
  BY FaultType DEF GetPeers, TypeInv, TypeOK
<1>4. ConnInv'
  <2>1. CASE Moves(c, rec)
    <3>1. peers \in SUBSET Pods
      BY <1>1 DEF TypeInv, TypeOK
    <3>2. rec \in Requests /\ Sound(rec)
      BY <1>1, <3>1 DEF Requests, Sound
    <3> HIDE DEF rec
    <3> QED
      BY <1>1, <1>2, <2>1, <3>2, MovesType DEF TypeInv
  <2>2. CASE Replies(c, "bulk", Nil)
    BY <1>1, <1>2, <2>2, RepliesType DEF TypeInv
  <2> QED
    BY <2>1, <2>2 DEF GetPeers
<1> QED
  BY <1>2, <1>3, <1>4, HandlerType DEF TypeInv, TypeOK, past

LEMMA AskPeerType ==
    TypeInv /\ (\E c \in Clients, q \in Pods : AskPeer(c, q)) => TypeInv'
<1> SUFFICES ASSUME TypeInv, NEW c \in Clients, NEW q \in Pods, AskPeer(c, q)
             PROVE  TypeInv'
  OBVIOUS
<1>1. /\ status[Home[c]] = "up" /\ conn[c] \in Requests /\ conn[c].st = "ask"
      /\ Sound(conn[c]) /\ Tagged(c) \in Tags /\ conn[c].op \in Commands
      /\ conn[c].key \in Keys
  BY BusyIsUp DEF AskPeer, TypeInv
<1>2. UNCHANGED <<pod, store, regs, l2, past, requests>> /\ UNCHANGED status
  BY DEF AskPeer, pod
<1>3. faults' \in Nat
  BY FaultType DEF AskPeer, TypeInv, TypeOK
<1>4. ConnInv'
  <2>1. CASE NextPeer(c, q)
    BY <1>1, <1>2, <2>1, NextPeerType DEF TypeInv
  <2>2. ASSUME NEW p \in Behind(q),
               PeerReply(conn[c].op, store[p][Tagged(c)]) # Nil,
               Moves(c, [conn[c] EXCEPT !.st = "writeback",
                           !.val = PeerReply(conn[c].op, store[p][Tagged(c)]),
                           !.peers = {}, !.asked = 0])
        PROVE  ConnInv'
    <3> DEFINE value == PeerReply(conn[c].op, store[p][Tagged(c)])
               rec == [conn[c] EXCEPT !.st = "writeback", !.val = value,
                                      !.peers = {}, !.asked = 0]
    <3>1. store[p][Tagged(c)] \in Contents \cup {Nil}
      BY <1>1 DEF Behind, Up, TypeInv, TypeOK
    <3>2. value \in Vals \cup {ErrorText}
      BY <1>1, <2>2, <3>1, ContentType
    <3> HIDE DEF value
    <3>3. rec \in Requests /\ Sound(rec)
      BY <1>1, <3>2 DEF Requests, Sound
    <3>4. Moves(c, rec)
      BY <2>2 DEF value
    <3> HIDE DEF rec
    <3> QED
      BY <1>1, <1>2, <3>3, <3>4, MovesType DEF TypeInv
  <2> QED
    BY <2>1, <2>2 DEF AskPeer
<1> QED
  BY <1>2, <1>3, <1>4, HandlerType DEF TypeInv, TypeOK, past

LEMMA WriteBackType == TypeInv /\ (\E c \in Clients : WriteBack(c)) => TypeInv'
<1> SUFFICES ASSUME TypeInv, NEW c \in Clients, WriteBack(c) PROVE TypeInv'
  OBVIOUS
<1>1. /\ Home[c] \in Pods /\ Tagged(c) \in Tags /\ conn[c].key \in Keys
      /\ conn[c].st = "writeback" /\ Sound(conn[c])
  BY BusyIsUp DEF WriteBack, TypeInv
<1>2. conn[c].val \in Vals \cup {ErrorText}
  BY <1>1 DEF Sound
<1>3. store' \in [Pods -> [Tags -> Contents \cup {Nil}]]
  <2>1. [type |-> "string", val |-> conn[c].val] \in Contents
    BY <1>2 DEF Contents
  <2> QED
    BY <1>1, <2>1, PutType DEF TypeInv, WriteBack
<1>4. regs' \in [Pods -> [Keys -> Nat]]
  BY <1>1, SpawnsType DEF TypeInv, WriteBack
<1>5. UNCHANGED <<pod, l2, past, requests, faults>> /\ UNCHANGED status
  BY DEF WriteBack, pod
<1>6. ConnInv'
  BY <1>1, <1>2, <1>5, RepliesType DEF WriteBack, TypeInv
<1> QED
  BY <1>3, <1>4, <1>5, <1>6, HandlerType DEF TypeInv, TypeOK, past

LEMMA ReplyType == TypeInv /\ (\E c \in Clients : Reply(c)) => TypeInv'
<1> SUFFICES ASSUME TypeInv, NEW c \in Clients, Reply(c) PROVE TypeInv'
  OBVIOUS
<1>1. status[Home[c]] = "up"
  BY BusyIsUp DEF Reply, TypeInv
<1>2. /\ UNCHANGED <<pod, store, regs, l2, written, requests, faults>>
      /\ UNCHANGED status /\ Moves(c, Idle) /\ owed' = [owed EXCEPT ![c] = {}]
  BY DEF Reply, pod
<1>3. ConnInv'
  BY <1>1, <1>2, IdleType, MovesType DEF TypeInv
<1> QED
  BY <1>2, <1>3, HandlerType DEF TypeInv, TypeOK

LEMMA RegisterWriteType ==
    TypeInv /\ (\E p \in Pods, k \in Keys : RegisterWrite(p, k)) => TypeInv'
<1> SUFFICES ASSUME TypeInv, NEW p \in Pods, NEW k \in Keys, RegisterWrite(p, k)
             PROVE  TypeInv'
  OBVIOUS
<1> DEFINE t == VersionPrefix(p, k)
           added == [sk EXCEPT ![t] = @ \cup {p}]
<1>1. added \in [Tags -> SUBSET Pods]
  BY DEF TypeInv, TypeOK, VersionPrefix, Tags
<1>2. sk' \in [Tags -> SUBSET Pods]
  BY <1>1 DEF RegisterWrite, TypeInv, TypeOK
<1>3. regs' \in [Pods -> [Keys -> Nat]]
  <2>1. regs[p][k] - 1 \in Nat
    BY DEF RegisterWrite, TypeInv, TypeOK
  <2> QED
    BY <2>1 DEF RegisterWrite, TypeInv, TypeOK
<1>4. faults' \in Nat
  BY FaultType DEF RegisterWrite, TypeInv, TypeOK
<1>5. UNCHANGED <<status, ip, l2ok, store, conn, nodemap, written, owed, requests>>
  BY DEF RegisterWrite, pod, past
<1> QED
  BY <1>2, <1>3, <1>4, <1>5 DEF TypeInv, TypeOK, ConnInv, Tags

LEMMA StopsType ==
    ASSUME TypeInv, NEW p \in Pods, NEW new \in {"down", "gone"}, Stops(p, new),
           store' \in [Pods -> [Tags -> Contents \cup {Nil}]], faults' \in Nat
    PROVE  TypeInv'
<1>1. /\ status' = [status EXCEPT ![p] = new] /\ HangUp(p)
      /\ regs' = [regs EXCEPT ![p] = [k \in Keys |-> 0]]
      /\ UNCHANGED <<ip, l2ok, nodemap, sk, written, requests>>
  BY DEF Stops, l2
<1>2. ConnInv' /\ owed' \in [Clients -> SUBSET Pods]
  BY <1>1, HangUpType DEF TypeInv, TypeOK
<1>3. regs' \in [Pods -> [Keys -> Nat]]
  BY <1>1 DEF TypeInv, TypeOK
<1>4. status' \in [Pods -> {"new", "up", "down", "gone"}]
  BY <1>1 DEF TypeInv, TypeOK
<1> QED
  BY <1>1, <1>2, <1>3, <1>4 DEF TypeInv, TypeOK, ConnInv, Tags

LEMMA BootType == TypeInv /\ (\E p \in Pods : Boot(p)) => TypeInv'
<1> SUFFICES ASSUME TypeInv, NEW p \in Pods, Boot(p) PROVE TypeInv'
  OBVIOUS
<1>1. /\ status' = [status EXCEPT ![p] = "up"]
      /\ UNCHANGED <<store, conn, regs, sk, written, owed, requests>>
  BY DEF Boot, past
<1>2. PICK i \in Ips :
        /\ ip' = [ip EXCEPT ![p] = i]
        /\ \/ /\ l2ok' = [l2ok EXCEPT ![p] = TRUE]
              /\ nodemap' = [nodemap EXCEPT ![p] = i] /\ UNCHANGED faults
           \/ /\ Fault("l2") /\ UNCHANGED nodemap
              /\ \E ok \in BOOLEAN : l2ok' = [l2ok EXCEPT ![p] = ok]
  BY DEF Boot
<1>3. faults' \in Nat
  BY <1>2, FaultType DEF TypeInv, TypeOK
<1>4. /\ ip' \in [Pods -> Ips \cup {NoIp}] /\ nodemap' \in [Pods -> Ips \cup {NoIp}]
      /\ l2ok' \in [Pods -> BOOLEAN]
  <2>1. ip' \in [Pods -> Ips \cup {NoIp}]
    BY <1>2 DEF TypeInv, TypeOK
  <2>2. nodemap' = [nodemap EXCEPT ![p] = i] \/ nodemap' = nodemap
    BY <1>2
  <2>3. PICK ok \in BOOLEAN : l2ok' = [l2ok EXCEPT ![p] = ok]
    BY <1>2
  <2>4. l2ok' \in [Pods -> BOOLEAN]
    BY <2>3 DEF TypeInv, TypeOK
  <2> QED
    BY <2>1, <2>2, <2>4 DEF TypeInv, TypeOK
<1>5. /\ status' \in [Pods -> {"new", "up", "down", "gone"}]
      /\ \A q \in Pods : status'[q] # "up" => status[q] # "up"
  BY <1>1 DEF TypeInv, TypeOK
<1>6. \A c \in Clients : Sound(conn[c])'
  BY <1>1 DEF TypeInv, ConnInv, Sound
<1>7. ConnInv'
  BY <1>1, <1>5, <1>6 DEF TypeInv, ConnInv
<1> QED
  BY <1>1, <1>3, <1>4, <1>5, <1>7 DEF TypeInv, TypeOK, ConnInv, Tags

LEMMA EnvironmentType == TypeInv /\ Environment => TypeInv'
<1> SUFFICES ASSUME TypeInv, Environment PROVE TypeInv'
  OBVIOUS
<1>1. CASE \E p \in Pods : Boot(p)
  BY <1>1, BootType
<1>2. ASSUME NEW p \in Pods, Crash(p) PROVE TypeInv'
  <2>1. store' = store /\ faults' \in Nat /\ Stops(p, "down")
    BY <1>2, FaultType DEF Crash, TypeInv, TypeOK
  <2> QED
    BY <2>1, StopsType DEF TypeInv, TypeOK
<1>3. ASSUME NEW p \in Pods, PodEnds(p) PROVE TypeInv'
  <2>1. Emptied(p) /\ faults' \in Nat /\ Stops(p, "gone")
    BY <1>3 DEF PodEnds, TypeInv, TypeOK
  <2> QED
    BY <2>1, StopsType, EmptiedType DEF TypeInv
<1>4. ASSUME NEW p \in Pods, RedisRestart(p) PROVE TypeInv'
  <2>1. /\ faults' \in Nat /\ HangUp(p) /\ Emptied(p)
        /\ UNCHANGED <<status, ip, l2ok, regs, nodemap, sk, written, requests>>
    BY <1>4, FaultType DEF RedisRestart, TypeInv, TypeOK, pod, l2
  <2>2. ConnInv' /\ owed' \in [Clients -> SUBSET Pods]
    BY <2>1, HangUpType DEF TypeInv
  <2>3. store' \in [Pods -> [Tags -> Contents \cup {Nil}]]
    BY <2>1, EmptiedType DEF TypeInv
  <2> QED
    BY <2>1, <2>2, <2>3 DEF TypeInv, TypeOK, ConnInv, Tags
<1>5. ASSUME NEW p \in Pods, NEW t \in Versions \X Keys, Evict(p, t) PROVE TypeInv'
  <2>1. /\ faults' \in Nat /\ store' = [store EXCEPT ![p][t] = Nil]
        /\ UNCHANGED <<status, ip, l2ok, conn, regs, nodemap, sk, written, owed,
                       requests>>
    BY <1>5, FaultType DEF Evict, TypeInv, TypeOK, pod, l2, past
  <2>2. store' \in [Pods -> [Tags -> Contents \cup {Nil}]]
    BY <2>1, PutType DEF TypeInv, Tags
  <2>3. ConnInv'
    BY <2>1 DEF TypeInv, ConnInv, Sound
  <2> QED
    BY <2>1, <2>2, <2>3 DEF TypeInv, TypeOK, Tags
<1>6. CASE L2Restart
  <2>1. /\ faults' \in Nat
        /\ nodemap' = [p \in Pods |-> NoIp] /\ sk' = [t \in Versions \X Keys |-> {}]
        /\ UNCHANGED <<status, ip, l2ok, store, conn, regs, written, owed, requests>>
    BY <1>6, FaultType DEF L2Restart, TypeInv, TypeOK, pod, past
  <2>2. ConnInv'
    BY <2>1 DEF TypeInv, ConnInv, Sound
  <2> QED
    BY <2>1, <2>2 DEF TypeInv, TypeOK, Tags
<1> QED
  BY <1>1, <1>2, <1>3, <1>4, <1>5, <1>6 DEF Environment

LEMMA TypeStutter == TypeInv /\ UNCHANGED vars => TypeInv'
BY DEF vars, pod, l2, past, TypeInv, TypeOK, ConnInv, Sound, Tags

LEMMA TypeStep == TypeInv /\ [Next]_vars => TypeInv'
<1> SUFFICES ASSUME TypeInv, [Next]_vars PROVE TypeInv'
  OBVIOUS
<1>1. ASSUME NEW c \in Clients, Request(c) \/ Handler(c) PROVE TypeInv'
  BY <1>1, RequestType, UpstreamType, GetPeersType, AskPeerType, WriteBackType,
     ReplyType DEF Handler
<1>2. ASSUME NEW p \in Pods, NEW k \in Keys, RegisterWrite(p, k) PROVE TypeInv'
  BY <1>2, RegisterWriteType
<1>3. CASE Environment
  BY <1>3, EnvironmentType
<1>4. CASE UNCHANGED vars
  BY <1>4, TypeStutter
<1> QED
  BY <1>1, <1>2, <1>3, <1>4 DEF Next

\* The variables keep their types and the connections of a pod that is not up
\* are closed, for any number of pods, keys, versions and connections, and
\* whatever fails (all of proxy.go's state).
THEOREM ProxyTypeCorrect == Spec => []TypeOK
<1>1. TypeInv => TypeOK
  BY DEF TypeInv
<1> QED
  BY TypeInit, TypeStep, <1>1, PTL DEF Spec

-----------------------------------------------------------------------------
(* Values.                                                                 *)

\* What a connection carries back to its application.
Carried(c) ==
    conn[c].st \in {"writeback", "reply"} /\ conn[c].val # Nil =>
        <<Version[Home[c]], conn[c].key, conn[c].val>> \in written

\* Without hashes every key holds a string some application wrote to it.
ValuesInv ==
    /\ \A p \in Pods, t \in Tags :
         store[p][t] # Nil =>
            /\ store[p][t].type = "string"
            /\ <<t[1], t[2], store[p][t].val>> \in written
    /\ \A c \in Clients : Carried(c)

LEMMA ValuesFrame ==
    ASSUME ValuesInv, written \subseteq written',
           \A p \in Pods, t \in Tags : store'[p][t] \in {Nil, store[p][t]},
           \A c \in Clients :
               \/ conn'[c] = conn[c] \/ conn'[c].val = Nil
               \/ conn'[c].st \notin {"writeback", "reply"}
    PROVE  ValuesInv'
<1>1. \A p \in Pods, t \in Tags :
        store'[p][t] # Nil =>
            /\ store'[p][t].type = "string"
            /\ <<t[1], t[2], store'[p][t].val>> \in written'
  BY DEF ValuesInv
<1>2. \A c \in Clients :
        conn'[c].st \in {"writeback", "reply"} /\ conn'[c].val # Nil =>
            <<Version[Home[c]], conn'[c].key, conn'[c].val>> \in written'
  BY DEF ValuesInv, Carried
<1> QED
  BY <1>1, <1>2 DEF ValuesInv, Carried

\* A step of the handler of c.
LEMMA ValuesHandler ==
    ASSUME ValuesInv, ConnInv, written \subseteq written', store' = store,
           NEW c \in Clients, NEW rec, Moves(c, rec),
           rec.st \notin {"writeback", "reply"} \/ rec.val = Nil
    PROVE  ValuesInv'
<1>1. \A d \in Clients : conn'[d] = IF d = c THEN rec ELSE conn[d]
  BY DEF Moves, ConnInv
<1>2. \A p \in Pods, t \in Tags : store'[p][t] \in {Nil, store[p][t]}
  OBVIOUS
<1> QED
  BY <1>1, <1>2, ValuesFrame

LEMMA MissHandler ==
    ASSUME ValuesInv, ConnInv, written \subseteq written', store' = store,
           NEW c \in Clients, conn[c].st # "idle", NEW kind, Replies(c, kind, Nil)
    PROVE  ValuesInv'
<1> DEFINE rec == [conn[c] EXCEPT !.st = "reply", !.kind = kind, !.val = Nil,
                                  !.peers = {}, !.asked = 0]
<1>1. rec.val = Nil
  BY BusyIsUp DEF Requests
<1>2. Moves(c, rec)
  BY DEF Replies
<1> HIDE DEF rec
<1> QED
  BY <1>1, <1>2, ValuesHandler

LEMMA NextPeerValues ==
    ASSUME ValuesInv, ConnInv, written' = written, store' = store,
           NEW c \in Clients, conn[c].st = "ask", NEW q, NextPeer(c, q)
    PROVE  ValuesInv'
<1> DEFINE rec == [conn[c] EXCEPT !.peers = conn[c].peers \ {q},
                                  !.asked = conn[c].asked + 1]
<1>1. CASE Replies(c, "bulk", Nil)
  BY <1>1, MissHandler
<1>2. CASE Moves(c, rec)
  <2>1. rec.st = "ask"
    BY BusyIsUp DEF Requests
  <2> HIDE DEF rec
  <2> QED
    BY <1>2, <2>1, ValuesHandler
<1> QED
  BY <1>1, <1>2 DEF NextPeer

\* A value that was written is put under its key, and carried by c.
LEMMA PutValue ==
    ASSUME TypeInv, ValuesInv, NEW c \in Clients, conn[c].st # "idle",
           NEW content, store' = [store EXCEPT ![Home[c]][Tagged(c)] = content],
           content # Nil =>
               /\ content.type = "string"
               /\ <<Version[Home[c]], conn[c].key, content.val>> \in written',
           written \subseteq written',
           \A d \in Clients \ {c} : conn'[d] = conn[d], Carried(c)'
    PROVE  ValuesInv'
<1>1. Tagged(c) = <<Version[Home[c]], conn[c].key>> /\ Tagged(c) \in Tags
      /\ Home[c] \in Pods
  BY BusyIsUp DEF Tagged, VersionPrefix, TypeInv
<1>2. ASSUME NEW p \in Pods, NEW t \in Tags, store'[p][t] # Nil
      PROVE  /\ store'[p][t].type = "string"
             /\ <<t[1], t[2], store'[p][t].val>> \in written'
  <2>1. CASE p = Home[c] /\ t = Tagged(c)
    <3>1. store'[p][t] = content
      BY <1>1, <2>1 DEF TypeInv, TypeOK
    <3> QED
      BY <1>1, <1>2, <2>1, <3>1
  <2>2. CASE ~(p = Home[c] /\ t = Tagged(c))
    <3>1. store'[p][t] = store[p][t]
      BY <1>1, <2>2 DEF TypeInv, TypeOK
    <3> QED
      BY <1>2, <3>1 DEF ValuesInv
  <2> QED
    BY <2>1, <2>2
<1>3. ASSUME NEW d \in Clients PROVE Carried(d)'
  BY DEF ValuesInv, Carried
<1> QED
  BY <1>2, <1>3 DEF ValuesInv

Strings == {"GET", "SET", "DEL", "MSET"}

LEMMA AfterString ==
    ASSUME NEW op \in Strings, NEW content, NEW val, ~WrongType(op, content)
    PROVE  After(op, content, val) =
               CASE op = "DEL" -> Nil [] op = "GET" -> content
                 [] op \in {"SET", "MSET"} -> [type |-> "string", val |-> val]
<1>1. CASE op = "DEL"
  BY <1>1 DEF After, Reads
<1>2. CASE op = "GET"
  BY <1>2 DEF After, Reads
<1>3. CASE op \in {"SET", "MSET"}
  BY <1>3 DEF After, Reads
<1> QED
  BY <1>1, <1>2, <1>3 DEF Strings

LEMMA UpstreamValues ==
    ASSUME Ops \subseteq Strings, TypeInv, ValuesInv,
           NEW c \in Clients, Upstream(c)
    PROVE  ValuesInv'
<1> DEFINE p == Home[c]
           req == conn[c]
           content == store[p][Tagged(c)]
           kind == ReplyKind(req.op, content)
           value == Found(req.op, content)
           after == After(req.op, content, req.val)
<1>0. req.st = "sent"
  BY DEF Upstream
<1>1. /\ p \in Pods /\ req \in Requests /\ req.st = "sent" /\ req.op \in Strings
      /\ Tagged(c) \in Tags /\ Tagged(c) = <<Version[p], req.key>> /\ Sound(req)
  <2>1. req.op \in Ops /\ p \in Pods /\ req \in Requests /\ Sound(req)
        /\ Tagged(c) \in Tags
    <3>1. ConnInv /\ conn[c].st # "idle"
      BY <1>0 DEF TypeInv
    <3> QED
      BY <3>1, BusyIsUp
  <2>2. Tagged(c) = <<Version[p], req.key>>
    BY DEF Tagged, VersionPrefix
  <2> QED
    BY <1>0, <2>1, <2>2
<1>2. content # Nil => /\ content.type = "string"
                       /\ <<Version[p], req.key, content.val>> \in written
  BY <1>1 DEF ValuesInv
<1>3. ~WrongType(req.op, content) /\ kind # "error"
  BY <1>1, <1>2 DEF WrongType, Strings, ReplyKind
<1>4. written' = IF req.op \in Writes /\ kind # "error"
                 THEN written \cup {<<Version[p], req.key, req.val>>} ELSE written
  BY DEF Upstream
<1>5. after # Nil => /\ after.type = "string"
                     /\ <<Version[p], req.key, after.val>> \in written'
  <2>1. after = CASE req.op = "DEL" -> Nil [] req.op = "GET" -> content
                  [] req.op \in {"SET", "MSET"} -> [type |-> "string", val |-> req.val]
    <3>1. req.op \in Strings /\ ~WrongType(req.op, content)
      BY <1>1, <1>3
    <3> HIDE DEF content, req
    <3> QED
      BY <3>1, AfterString
  <2>2. CASE req.op \in {"DEL", "GET"}
    BY <1>2, <1>4, <2>1, <2>2
  <2>3. CASE req.op \in {"SET", "MSET"}
    <3>1. after.type = "string" /\ after.val = req.val
      BY <2>1, <2>3
    <3> QED
      BY <1>3, <1>4, <2>3, <3>1 DEF Writes
  <2> QED
    BY <1>1, <2>2, <2>3 DEF Strings
<1>6. value # Nil => <<Version[p], req.key, value>> \in written
  BY <1>2 DEF Found
<1>7. Carried(c)' /\ \A d \in Clients \ {c} : conn'[d] = conn[d]
  <2>1. CASE Moves(c, [req EXCEPT !.st = "peers"])
    BY <1>1, <2>1 DEF Moves, Carried, TypeInv, TypeOK, Requests
  <2>2. CASE Replies(c, kind, value)
    <3> DEFINE rec == [req EXCEPT !.st = "reply", !.kind = kind, !.val = value,
                                  !.peers = {}, !.asked = 0]
    <3>1. rec.key = req.key /\ rec.val = value
      <4> HIDE DEF kind, value
      <4> QED BY <1>1 DEF Requests
    <3>2. conn'[c] = rec /\ \A d \in Clients \ {c} : conn'[d] = conn[d]
      <4>1. conn' = [conn EXCEPT ![c] = rec]
        BY <2>2 DEF Replies, Moves
      <4> HIDE DEF rec
      <4> QED
        BY <4>1 DEF TypeInv, TypeOK
    <3> HIDE DEF rec, value
    <3> QED
      BY <1>4, <1>6, <3>1, <3>2 DEF Carried
  <2> QED
    BY <2>1, <2>2 DEF Upstream
<1>8. store' = [store EXCEPT ![Home[c]][Tagged(c)] = after]
  BY DEF Upstream
<1>9. written \subseteq written' /\ conn[c].st # "idle"
  BY <1>1, <1>4
<1> HIDE DEF after, p
<1> QED
  BY <1>5, <1>7, <1>8, <1>9, PutValue DEF p

LEMMA AskPeerValues ==
    ASSUME Ops \subseteq Strings, TypeInv, ValuesInv,
           NEW c \in Clients, NEW q \in Pods, AskPeer(c, q)
    PROVE  ValuesInv'
<1>0. conn[c].st = "ask"
  BY DEF AskPeer
<1>1. /\ conn[c] \in Requests /\ conn[c].st = "ask" /\ conn[c].op \in Strings
      /\ Tagged(c) \in Tags /\ Tagged(c) = <<Version[Home[c]], conn[c].key>>
  <2>1. conn[c].op \in Ops /\ conn[c] \in Requests /\ Tagged(c) \in Tags
    <3>1. ConnInv /\ conn[c].st # "idle"
      BY <1>0 DEF TypeInv
    <3> QED
      BY <3>1, BusyIsUp
  <2>2. Tagged(c) = <<Version[Home[c]], conn[c].key>>
    BY DEF Tagged, VersionPrefix
  <2> QED
    BY <1>0, <2>1, <2>2
<1>2. written' = written /\ store' = store
  BY DEF AskPeer, past
<1>3. CASE NextPeer(c, q)
  BY <1>1, <1>2, <1>3, NextPeerValues DEF TypeInv
<1>4. ASSUME NEW p \in Behind(q),
             PeerReply(conn[c].op, store[p][Tagged(c)]) # Nil,
             Moves(c, [conn[c] EXCEPT !.st = "writeback",
                         !.val = PeerReply(conn[c].op, store[p][Tagged(c)]),
                         !.peers = {}, !.asked = 0])
      PROVE  ValuesInv'
  <2> DEFINE content == store[p][Tagged(c)]
             value == PeerReply(conn[c].op, content)
             rec == [conn[c] EXCEPT !.st = "writeback", !.val = value,
                                    !.peers = {}, !.asked = 0]
  <2>1. content # Nil =>
            /\ content.type = "string"
            /\ <<Version[Home[c]], conn[c].key, content.val>> \in written
    BY <1>1 DEF ValuesInv, Behind, Up
  <2>2. conn[c].op = "GET"
    BY <1>1, BusyIsUp DEF Sound, ReadMiss, Strings, TypeInv
  <2>3. value = Found(conn[c].op, content)
    BY <2>1, <2>2 DEF PeerReply, WrongType
  <2>4. <<Version[Home[c]], conn[c].key, value>> \in written
    BY <1>4, <2>1, <2>3 DEF Found
  <2> HIDE DEF value
  <2>5. rec.key = conn[c].key /\ rec.val = value
    BY <1>1 DEF Requests
  <2>6. \A d \in Clients : conn'[d] = IF d = c THEN rec ELSE conn[d]
    <3>1. conn' = [conn EXCEPT ![c] = rec]
      BY <1>4 DEF Moves, value
    <3> HIDE DEF rec
    <3> QED
      BY <3>1 DEF TypeInv, TypeOK
  <2> HIDE DEF rec
  <2>7. \A d \in Clients : Carried(d)'
    BY <1>2, <2>4, <2>5, <2>6 DEF Carried, ValuesInv
  <2> QED
    BY <1>2, <2>7 DEF ValuesInv
<1> QED
  BY <1>3, <1>4 DEF AskPeer

LEMMA WriteBackValues ==
    ASSUME TypeInv, ValuesInv, NEW c \in Clients, WriteBack(c)
    PROVE  ValuesInv'
<1> DEFINE content == [type |-> "string", val |-> conn[c].val]
           rec == [conn[c] EXCEPT !.st = "reply", !.kind = "bulk",
                                  !.val = conn[c].val, !.peers = {}, !.asked = 0]
<1>1. conn[c] \in Requests /\ conn[c].st = "writeback" /\ Sound(conn[c])
  BY BusyIsUp DEF WriteBack, TypeInv
<1>2. conn[c].val # Nil
  BY <1>1 DEF Sound
<1>3. <<Version[Home[c]], conn[c].key, conn[c].val>> \in written
  BY <1>1, <1>2 DEF ValuesInv, Carried
<1>4. written' = written /\ store' = [store EXCEPT ![Home[c]][Tagged(c)] = content]
  BY DEF WriteBack, past
<1>5. rec.key = conn[c].key /\ rec.val = conn[c].val
  BY <1>1 DEF Requests
<1>6. conn'[c] = rec /\ \A d \in Clients \ {c} : conn'[d] = conn[d]
  <2>1. conn' = [conn EXCEPT ![c] = rec]
    BY DEF WriteBack, Replies, Moves
  <2> HIDE DEF rec
  <2> QED
    BY <2>1 DEF TypeInv, TypeOK
<1> HIDE DEF rec
<1>7. Carried(c)'
  BY <1>3, <1>4, <1>5, <1>6 DEF Carried
<1>8. content.type = "string" /\ content.val = conn[c].val
  OBVIOUS
<1> HIDE DEF content
<1> QED
  BY <1>1, <1>3, <1>4, <1>6, <1>7, <1>8, PutValue

\* Steps that put no value anywhere.
LEMMA EnvironmentValues ==
    ASSUME TypeInv, ValuesInv, Environment PROVE ValuesInv'
<1>1. ASSUME NEW p \in Pods, HangUp(p) \/ UNCHANGED conn, NEW c \in Clients
      PROVE  conn'[c] = conn[c] \/ conn'[c].val = Nil
  BY <1>1 DEF HangUp, Idle
<1>2. ASSUME NEW p \in Pods, Emptied(p) \/ UNCHANGED store, NEW q \in Pods, NEW t \in Tags
      PROVE  store'[q][t] \in {Nil, store[q][t]}
  <2>1. CASE Emptied(p) /\ q = p
    <3>1. store'[q] = [u \in Versions \X Keys |-> Nil]
      BY <2>1 DEF Emptied, TypeInv, TypeOK
    <3> QED
      BY <3>1 DEF Tags
  <2>2. CASE Emptied(p) /\ q # p
    BY <2>2 DEF Emptied, TypeInv, TypeOK
  <2>3. CASE UNCHANGED store
    BY <2>3
  <2> QED
    BY <1>2, <2>1, <2>2, <2>3
<1>3. ASSUME NEW p \in Pods, Boot(p) \/ Crash(p) \/ PodEnds(p) \/ RedisRestart(p)
      PROVE  ValuesInv'
  <2>1. /\ HangUp(p) \/ UNCHANGED conn
        /\ Emptied(p) \/ UNCHANGED store
        /\ written' = written
    BY <1>3 DEF Boot, Crash, PodEnds, RedisRestart, Stops, past
  <2> QED
    BY <1>1, <1>2, <2>1, ValuesFrame
<1>4. ASSUME NEW p \in Pods, NEW t \in Versions \X Keys, Evict(p, t)
      PROVE  ValuesInv'
  <2>1. /\ store' = [store EXCEPT ![p][t] = Nil]
        /\ conn' = conn /\ written' = written
    BY <1>4 DEF Evict, past
  <2>2. \A q \in Pods, u \in Tags : store'[q][u] \in {Nil, store[q][u]}
    BY <2>1 DEF TypeInv, TypeOK, Tags
  <2> QED
    BY <2>1, <2>2, ValuesFrame
<1>5. CASE L2Restart
  BY <1>5, ValuesFrame DEF L2Restart, past
<1> QED
  BY <1>3, <1>4, <1>5 DEF Environment

LEMMA ValuesInit == Init => ValuesInv
BY DEF Init, ValuesInv, Carried, Idle, Tags

LEMMA ValuesStep ==
    ASSUME Ops \subseteq Strings
    PROVE  TypeInv /\ ValuesInv /\ [Next]_vars => ValuesInv'
<1> SUFFICES ASSUME TypeInv, ValuesInv, [Next]_vars PROVE ValuesInv'
  OBVIOUS
<1>1. ASSUME NEW c \in Clients, Request(c) PROVE ValuesInv'
  <2>1. PICK op \in Ops, k \in Keys, val \in Vals \cup {Nil} :
          Moves(c, [Idle EXCEPT !.st = "sent", !.op = op, !.key = k, !.val = val])
    BY <1>1 DEF Request
  <2> DEFINE rec == [Idle EXCEPT !.st = "sent", !.op = op, !.key = k, !.val = val]
  <2>2. rec.st = "sent"
    BY DEF Idle
  <2>3. written' = written /\ store' = store
    BY <1>1 DEF Request
  <2> HIDE DEF rec
  <2> QED
    BY <2>1, <2>2, <2>3, ValuesHandler DEF rec, TypeInv
<1>2. ASSUME NEW c \in Clients, GetPeers(c) PROVE ValuesInv'
  <2> DEFINE rec == [conn[c] EXCEPT !.st = "ask", !.peers = sk[Tagged(c)] \ {Home[c]}]
  <2>1. written' = written /\ store' = store /\ conn[c].st = "peers"
    BY <1>2 DEF GetPeers, past
  <2>2. CASE Moves(c, rec)
    <3>1. rec.st = "ask"
      BY <2>1, BusyIsUp DEF Requests, TypeInv
    <3> HIDE DEF rec
    <3> QED
      BY <2>1, <2>2, <3>1, ValuesHandler DEF TypeInv
  <2>3. CASE Replies(c, "bulk", Nil)
    BY <2>1, <2>3, MissHandler DEF TypeInv
  <2> QED
    BY <1>2, <2>2, <2>3 DEF GetPeers
<1>3. ASSUME NEW c \in Clients, Reply(c) PROVE ValuesInv'
  <2>1. written' = written /\ store' = store /\ Moves(c, Idle) /\ Idle.st = "idle"
    BY <1>3 DEF Reply, Idle
  <2> QED
    BY <2>1, ValuesHandler DEF TypeInv
<1>4. ASSUME NEW c \in Clients, Handler(c) PROVE ValuesInv'
  BY <1>2, <1>3, <1>4, UpstreamValues, WriteBackValues, AskPeerValues DEF Handler
<1>5. ASSUME NEW p \in Pods, NEW k \in Keys, RegisterWrite(p, k) PROVE ValuesInv'
  BY <1>5, ValuesFrame DEF RegisterWrite, past
<1>6. CASE Environment
  BY <1>6, EnvironmentValues
<1>7. CASE UNCHANGED vars
  BY <1>7, ValuesFrame DEF vars, past
<1> QED
  BY <1>1, <1>4, <1>5, <1>6, <1>7 DEF Next

\* As long as applications use strings only, a value in a reply was written by
\* an application of the same version under the same key, however many pods,
\* versions and keys there are, and whatever fails: peers that end, IPs that
\* are used again, crashes and evictions (handleAppConn, peerFetchValue).
THEOREM GenuineReplies ==
    ASSUME Ops \subseteq Strings PROVE Spec => []RepliesAreGenuine
<1>1. Init => TypeInv /\ ValuesInv
  BY TypeInit, ValuesInit
<1>2. TypeInv /\ ValuesInv /\ [Next]_vars => (TypeInv /\ ValuesInv)'
  BY TypeStep, ValuesStep
<1>3. ValuesInv => RepliesAreGenuine
  BY DEF ValuesInv, Carried, RepliesAreGenuine
<1> QED
  BY <1>1, <1>2, <1>3, PTL DEF Spec

-----------------------------------------------------------------------------
(* The index.                                                              *)

Indexed(p, t) == p \in sk[t] \/ regs[p][t[2]] > 0

\* As long as nothing fails a Redis holds only keys of its proxy's version, all
\* of them indexed or about to be, and none after the pod.
IndexInv ==
    faults = 0 =>
        \A p \in Pods :
            /\ status[p] = "up" => l2ok[p]
            /\ \A t \in Tags :
                 store[p][t] # Nil =>
                     status[p] = "up" /\ t[1] = Version[p] /\ Indexed(p, t)

LEMMA IndexInit == Init => IndexInv
BY DEF Init, IndexInv, Tags

\* The number of failures only grows.
LEMMA NoFaultYet ==
    ASSUME TypeInv, NEW kind, Fault(kind) PROVE faults' # 0
BY DEF Fault, TypeInv, TypeOK

\* A step that puts no content under a key and takes nothing from the index.
LEMMA IndexFrame ==
    ASSUME IndexInv, faults = 0, status' = status, l2ok' = l2ok, store' = store,
           \A p \in Pods, t \in Tags : t[1] = Version[p] /\ Indexed(p, t) => Indexed(p, t)'
    PROVE  IndexInv'
BY DEF IndexInv

\* A command of p leaves content under a key of its version, indexed if it is
\* new.
LEMMA IndexPut ==
    ASSUME TypeInv, IndexInv, faults = 0, UNCHANGED <<status, l2ok, sk>>,
           NEW p \in Pods, NEW t \in Tags, NEW content,
           store' = [store EXCEPT ![p][t] = content],
           t[1] = Version[p], status[p] = "up",
           \A q \in Pods, k \in Keys : regs[q][k] > 0 => regs'[q][k] > 0,
           content # Nil => store[p][t] = content \/ regs'[p][t[2]] > 0
    PROVE  IndexInv'
<1>1. ASSUME NEW q \in Pods, NEW u \in Tags, store'[q][u] # Nil
      PROVE  status[q] = "up" /\ u[1] = Version[q]
             /\ (q \in sk[u] \/ regs'[q][u[2]] > 0)
  <2>1. u[2] \in Keys
    BY DEF Tags
  <2>2. CASE q = p /\ u = t
    <3>1. store'[q][u] = content
      BY <2>2 DEF TypeInv, TypeOK
    <3>2. content = store[p][t] => Indexed(p, t)
      BY <1>1, <3>1 DEF IndexInv
    <3> QED
      BY <1>1, <2>1, <2>2, <3>1, <3>2 DEF Indexed
  <2>3. CASE ~(q = p /\ u = t)
    <3>1. store'[q][u] = store[q][u]
      BY <2>3 DEF TypeInv, TypeOK
    <3> QED
      BY <1>1, <2>1, <3>1 DEF IndexInv, Indexed
  <2> QED
    BY <2>2, <2>3
<1>2. \A q \in Pods : status[q] = "up" => l2ok[q]
  BY DEF IndexInv
<1> QED
  BY <1>1, <1>2 DEF IndexInv, Indexed

LEMMA SpawnsMore ==
    ASSUME TypeInv, NEW p \in Pods, NEW k \in Keys, Spawns(p, k)
    PROVE  /\ regs'[p][k] > 0
           /\ \A q \in Pods, l \in Keys : regs[q][l] > 0 => regs'[q][l] > 0
BY DEF Spawns, TypeInv, TypeOK

LEMMA UpstreamIndex ==
    ASSUME "MSET" \notin Ops, TypeInv, IndexInv, faults = 0,
           NEW c \in Clients, Upstream(c)
    PROVE  IndexInv'
<1> DEFINE p == Home[c]
           req == conn[c]
           content == store[p][Tagged(c)]
           kind == ReplyKind(req.op, content)
           after == After(req.op, content, req.val)
<1>0. req.st # "idle" /\ ConnInv
  BY DEF Upstream, TypeInv
<1>1. /\ p \in Pods /\ status[p] = "up" /\ req.op \in Ops /\ req.op \in Commands
      /\ req.key \in Keys /\ Tagged(c) \in Tags
  BY <1>0, BusyIsUp
<1>2. Tagged(c)[1] = Version[p] /\ Tagged(c)[2] = req.key
  BY DEF Tagged, VersionPrefix
<1>3. l2ok[p]
  BY <1>1 DEF IndexInv
<1>4. Spawns(p, req.key) \/ regs' = regs
  BY DEF Upstream
<1>5. \A q \in Pods, k \in Keys : regs[q][k] > 0 => regs'[q][k] > 0
  BY <1>1, <1>4, SpawnsMore
<1>6. after # Nil => content = after \/ regs'[p][req.key] > 0
  <2>1. CASE WrongType(req.op, content) \/ req.op \in Reads \/ req.op = "DEL"
    <3> HIDE DEF content, req
    <3>1. after = content \/ after = Nil
      BY <2>1 DEF After, Reads
    <3> QED
      BY <3>1
  <2>2. CASE ~WrongType(req.op, content) /\ req.op \in {"SET", "HSET"}
    <3>1. req.op \in WriteRegister /\ kind # "error"
      BY <2>2 DEF WriteRegister, ReplyKind
    <3>2. Spawns(p, req.key)
      BY <1>3, <3>1 DEF Upstream
    <3> QED
      BY <1>1, <3>2, SpawnsMore
  <2> QED
    BY <1>1, <2>1, <2>2 DEF Commands, Writes
<1>7. store' = [store EXCEPT ![p][Tagged(c)] = after]
      /\ UNCHANGED <<status, l2ok, sk>>
  BY DEF Upstream, pod, l2
<1> HIDE DEF p, req, content, after
<1>8. content = store[p][Tagged(c)]
  BY DEF content
<1> QED
  BY <1>1, <1>2, <1>5, <1>6, <1>7, <1>8, IndexPut

LEMMA WriteBackIndex ==
    ASSUME TypeInv, IndexInv, faults = 0, NEW c \in Clients, WriteBack(c)
    PROVE  IndexInv'
<1> DEFINE content == [type |-> "string", val |-> conn[c].val]
<1>0. conn[c].st # "idle" /\ ConnInv
  BY DEF WriteBack, TypeInv
<1>1. Home[c] \in Pods /\ status[Home[c]] = "up" /\ conn[c].key \in Keys
      /\ Tagged(c) \in Tags
  BY <1>0, BusyIsUp
<1>2. Tagged(c)[1] = Version[Home[c]] /\ Tagged(c)[2] = conn[c].key
  BY DEF Tagged, VersionPrefix
<1>3. store' = [store EXCEPT ![Home[c]][Tagged(c)] = content]
      /\ UNCHANGED <<status, l2ok, sk>> /\ Spawns(Home[c], conn[c].key)
  BY DEF WriteBack, pod, l2
<1> HIDE DEF content
<1> QED
  BY <1>1, <1>2, <1>3, SpawnsMore, IndexPut

LEMMA RegisterWriteIndex ==
    ASSUME TypeInv, IndexInv, faults = 0, faults' = 0,
           NEW p \in Pods, NEW k \in Keys, RegisterWrite(p, k)
    PROVE  IndexInv'
<1> DEFINE key == VersionPrefix(p, k)
<1>1. /\ regs' = [regs EXCEPT ![p][k] = @ - 1]
      /\ sk' = [sk EXCEPT ![key] = @ \cup {p}]
      /\ UNCHANGED <<status, l2ok, store>>
  BY NoFaultYet DEF RegisterWrite, pod
<1>2. key = <<Version[p], k>> /\ key \in Tags
  BY DEF VersionPrefix, Tags
<1>3. ASSUME NEW q \in Pods, NEW t \in Tags, t[1] = Version[q], Indexed(q, t)
      PROVE  q \in sk'[t] \/ regs'[q][t[2]] > 0
  <2>1. t[2] \in Keys /\ t = <<t[1], t[2]>>
    BY DEF Tags
  <2>2. CASE q = p /\ t[2] = k
    <3>1. t = key
      BY <1>2, <1>3, <2>1, <2>2
    <3> QED
      BY <1>1, <1>2, <2>2, <3>1 DEF TypeInv, TypeOK, Tags
  <2>3. CASE ~(q = p /\ t[2] = k)
    <3>1. regs'[q][t[2]] = regs[q][t[2]]
      BY <1>1, <2>1, <2>3 DEF TypeInv, TypeOK
    <3>2. q \in sk[t] => q \in sk'[t]
      BY <1>1, <1>2 DEF TypeInv, TypeOK, Tags
    <3> QED
      BY <1>3, <3>1, <3>2 DEF Indexed
  <2> QED
    BY <2>2, <2>3
<1> QED
  BY <1>1, <1>3, IndexFrame DEF Indexed

LEMMA EnvironmentIndex ==
    ASSUME TypeInv, IndexInv, faults = 0, faults' = 0, Environment
    PROVE  IndexInv'
<1>1. ASSUME NEW p \in Pods, Boot(p) PROVE IndexInv'
  <2>1. /\ status' = [status EXCEPT ![p] = "up"] /\ UNCHANGED <<store, regs, sk>>
        /\ l2ok' = [l2ok EXCEPT ![p] = TRUE]
    BY <1>1, NoFaultYet DEF Boot
  <2> QED
    BY <2>1 DEF IndexInv, Indexed, TypeInv, TypeOK
<1>2. ASSUME NEW p \in Pods, PodEnds(p) PROVE IndexInv'
  <2>1. /\ status' = [status EXCEPT ![p] = "gone"]
        /\ store' = [store EXCEPT ![p] = [t \in Versions \X Keys |-> Nil]]
        /\ regs' = [regs EXCEPT ![p] = [k \in Keys |-> 0]]
        /\ UNCHANGED <<l2ok, sk>>
    BY <1>2 DEF PodEnds, Stops, Emptied, l2
  <2>2. ASSUME NEW q \in Pods
        PROVE  /\ status'[q] = "up" => l2ok'[q]
               /\ \A t \in Tags :
                    store'[q][t] # Nil =>
                        status'[q] = "up" /\ t[1] = Version[q]
                        /\ (q \in sk'[t] \/ regs'[q][t[2]] > 0)
    <3>1. CASE q = p
      <4>1. store'[q] = [t \in Versions \X Keys |-> Nil] /\ status'[q] = "gone"
        BY <2>1, <3>1 DEF TypeInv, TypeOK
      <4> QED
        BY <4>1 DEF Tags
    <3>2. CASE q # p
      <4>1. store'[q] = store[q] /\ status'[q] = status[q] /\ regs'[q] = regs[q]
        BY <2>1, <3>2 DEF TypeInv, TypeOK
      <4> QED
        BY <2>1, <4>1 DEF IndexInv, Indexed
    <3> QED
      BY <3>1, <3>2
  <2> QED
    BY <2>2 DEF IndexInv, Indexed
<1>3. \A p \in Pods : ~Crash(p) /\ ~RedisRestart(p)
  BY NoFaultYet DEF Crash, RedisRestart
<1>4. \A p \in Pods, t \in Versions \X Keys : ~Evict(p, t)
  BY NoFaultYet DEF Evict
<1>5. ~L2Restart
  BY NoFaultYet DEF L2Restart
<1> QED
  BY <1>1, <1>2, <1>3, <1>4, <1>5 DEF Environment

LEMMA FaultsGrow ==
    TypeInv /\ [Next]_vars /\ faults' = 0 => faults = 0
<1> SUFFICES ASSUME TypeInv, [Next]_vars, faults # 0 PROVE faults' # 0
  OBVIOUS
<1>1. faults' = faults \/ \E kind : Fault(kind)
  BY DEF Next, vars, Request, Handler, Upstream, GetPeers, AskPeer, WriteBack, Reply,
         RegisterWrite, Environment, Boot, Crash, PodEnds, RedisRestart, Evict,
         L2Restart
<1> QED
  BY <1>1, NoFaultYet

LEMMA IndexStep ==
    ASSUME "MSET" \notin Ops
    PROVE  TypeInv /\ IndexInv /\ [Next]_vars => IndexInv'
<1> SUFFICES ASSUME TypeInv, IndexInv, [Next]_vars, faults = 0, faults' = 0
             PROVE  IndexInv'
  BY FaultsGrow DEF IndexInv
<1>1. ASSUME UNCHANGED <<status, l2ok, store, regs, sk>> PROVE IndexInv'
  BY <1>1 DEF IndexInv, Indexed
<1>2. ASSUME NEW c \in Clients, Request(c) \/ GetPeers(c) \/ Reply(c) PROVE IndexInv'
  BY <1>1, <1>2 DEF Request, GetPeers, Reply, pod, l2
<1>3. ASSUME NEW c \in Clients, NEW q \in Pods, AskPeer(c, q) PROVE IndexInv'
  BY <1>1, <1>3 DEF AskPeer, pod, l2
<1>4. ASSUME NEW c \in Clients, Request(c) \/ Handler(c) PROVE IndexInv'
  BY <1>2, <1>3, <1>4, UpstreamIndex, WriteBackIndex DEF Handler
<1>5. ASSUME NEW p \in Pods, NEW k \in Keys, RegisterWrite(p, k) PROVE IndexInv'
  BY <1>5, RegisterWriteIndex
<1>6. CASE Environment
  BY <1>6, EnvironmentIndex
<1>7. CASE UNCHANGED vars
  BY <1>1, <1>7 DEF vars, pod, l2
<1> QED
  BY <1>4, <1>5, <1>6, <1>7 DEF Next

\* Unless applications use MSET, as long as nothing fails every key in the Redis
\* of a running proxy is in the replica set L2 has for it, or a registerWrite
\* goroutine is about to put it there: a fetched copy as well as a write, with
\* any number of pods that come and go (handleAppConn, registerWrite).
THEOREM IndexedHolders ==
    ASSUME "MSET" \notin Ops PROVE Spec => []HoldersAreIndexed
<1>1. Init => TypeInv /\ IndexInv
  BY TypeInit, IndexInit
<1>2. TypeInv /\ IndexInv /\ [Next]_vars => (TypeInv /\ IndexInv)'
  BY TypeStep, IndexStep
<1>3. IndexInv => HoldersAreIndexed
  BY DEF IndexInv, Indexed, HoldersAreIndexed, Up
<1> QED
  BY <1>1, <1>2, <1>3, PTL DEF Spec
-----------------------------------------------------------------------------
(* Misses.  While nothing fails, a sibling that had the key indexed when   *)
(* the read was sent keeps it, is found at the address L2 has for it, and  *)
(* stays among the peers to ask, unless it ends.                           *)

\* No two running pods share an address, and each of their proxies uses L2.
Reachable ==
    \A p \in Pods :
        /\ status[p] # "down" /\ (status[p] = "up" => l2ok[p])
        /\ \A q \in Pods :
             status[p] = "up" /\ status[q] = "up" /\ ip[p] = ip[q] => p = q

Serves(q, t) == store[q][t] # Nil /\ q \in sk[t] /\ nodemap[q] = ip[q]

\* What is owed to a connection can still be had.
Owes(c) ==
    /\ owed[c] # {} => conn[c].st # "idle"
    /\ \A q \in owed[c] :
         /\ status[q] # "new"
         /\ status[q] = "up" => q # Home[c] /\ Serves(q, Tagged(c))

\* The peers not yet asked include all that can help, and all will be asked.
Asks(c) ==
    IF conn[c].st # "ask" THEN conn[c].asked = 0 ELSE
        /\ owed[c] \cap Up \subseteq conn[c].peers
        /\ IsFiniteSet(conn[c].peers)
        /\ conn[c].asked + Cardinality(conn[c].peers) <= PeerLimit

Misses(c) ==
    conn[c].st = "reply" /\ conn[c].op \in Reads /\ conn[c].kind # "error"
        /\ conn[c].val = Nil
    => owed[c] \cap Up = {}

Helped(c) == Owes(c) /\ Asks(c) /\ Misses(c)

MissInv == faults = 0 => Reachable /\ \A c \in Clients : Helped(c)

\* A step that takes nothing from a pod that is up before and after it, and
\* starts no pod that was up before.
Steady ==
    \A q \in Pods : status[q] # "new" =>
        /\ status'[q] # "new"
        /\ status'[q] = "up" =>
             /\ status[q] = "up"
             /\ \A t \in Tags : Serves(q, t) => Serves(q, t)'

LEMMA MissInit == Init => MissInv
<1> SUFFICES ASSUME Init PROVE MissInv
  OBVIOUS
<1>1. \A c \in Clients : conn[c] = Idle /\ owed[c] = {}
  BY DEF Init
<1>2. \A p \in Pods : status[p] = "new"
  BY DEF Init
<1> QED
  BY <1>1, <1>2 DEF MissInv, Reachable, Helped, Owes, Asks, Misses, Idle

LEMMA HelpedIdle ==
    ASSUME NEW c \in Clients, conn'[c] = Idle, owed'[c] = {} PROVE Helped(c)'
BY DEF Helped, Owes, Asks, Misses, Idle

\* What is owed stays so, in a step that leaves the request in hand.
LEMMA OwesKept ==
    ASSUME TypeInv, Steady, NEW c \in Clients, Owes(c), owed'[c] = owed[c],
           conn'[c].key = conn[c].key, conn[c].st # "idle" => conn'[c].st # "idle"
    PROVE  Owes(c)' /\ owed'[c] \cap Up' \subseteq owed[c] \cap Up
<1>1. owed[c] \subseteq Pods /\ \A q \in owed[c] : status[q] # "new"
  BY DEF TypeInv, TypeOK, Owes
<1>2. owed'[c] \cap Up' \subseteq owed[c] \cap Up
  BY <1>1 DEF Steady, Up
<1>3. Tagged(c)' = Tagged(c)
  BY DEF Tagged, VersionPrefix
<1>4. owed[c] # {} => Tagged(c) \in Tags
  BY BusyIsUp DEF Owes, TypeInv
<1>5. ASSUME NEW q \in owed[c]
      PROVE  /\ status'[q] # "new"
             /\ status'[q] = "up" => q # Home[c] /\ Serves(q, Tagged(c))'
  <2>1. status[q] = "up" => q # Home[c] /\ Serves(q, Tagged(c))
    BY DEF Owes
  <2>2. ASSUME NEW t \in Tags, t = Tagged(c), Serves(q, t)' PROVE Serves(q, Tagged(c))'
    BY <1>3, <2>2 DEF Serves
  <2> QED
    BY <1>1, <1>4, <2>1, <2>2 DEF Steady
<1> QED
  BY <1>2, <1>5 DEF Owes

\* A step of another connection, or of none.
LEMMA HelpedFrame ==
    ASSUME TypeInv, Steady, NEW c \in Clients, Helped(c),
           conn'[c] = conn[c], owed'[c] = owed[c]
    PROVE  Helped(c)'
<1>1. Owes(c)' /\ owed'[c] \cap Up' \subseteq owed[c] \cap Up
  BY OwesKept DEF Helped
<1>2. Asks(c)' /\ Misses(c)'
  BY <1>1 DEF Helped, Asks, Misses
<1> QED
  BY <1>1, <1>2 DEF Helped

LEMMA HandlerHelped ==
    ASSUME TypeInv, Steady, \A d \in Clients : Helped(d), NEW c \in Clients, NEW rec,
           Moves(c, rec), UNCHANGED owed, Helped(c)'
    PROVE  \A d \in Clients : Helped(d)'
<1>1. ASSUME NEW d \in Clients, d # c PROVE Helped(d)'
  BY <1>1, HelpedFrame DEF Moves, TypeInv, TypeOK
<1> QED
  BY <1>1

LEMMA StillSteady ==
    ASSUME UNCHANGED <<status, ip, store, nodemap>>,
           \A t \in Tags : sk[t] \subseteq sk'[t]
    PROVE  Steady
BY DEF Steady, Serves

LEMMA PutSteady ==
    ASSUME TypeInv, UNCHANGED <<status, ip, nodemap, sk>>, NEW p \in Pods, NEW t \in Tags,
           NEW content, store' = [store EXCEPT ![p][t] = content],
           store[p][t] # Nil => content # Nil
    PROVE  Steady
<1>1. ASSUME NEW q \in Pods, NEW u \in Tags, store[q][u] # Nil PROVE store'[q][u] # Nil
  BY <1>1 DEF TypeInv, TypeOK
<1> QED
  BY <1>1 DEF Steady, Serves

LEMMA ReachableFrame ==
    ASSUME Reachable, UNCHANGED <<status, ip, l2ok>> PROVE Reachable'
BY DEF Reachable

LEMMA RequestHelped ==
    ASSUME TypeInv, Reachable, \A d \in Clients : Helped(d),
           NEW c \in Clients, Request(c)
    PROVE  Reachable' /\ \A d \in Clients : Helped(d)'
<1>1. /\ UNCHANGED <<status, ip, l2ok, store, nodemap, sk>>
  BY DEF Request, pod, l2
<1>2. PICK op \in Ops, k \in Keys :
        /\ \E val \in IF op \in Writes THEN Vals ELSE {Nil} :
              Moves(c, [Idle EXCEPT !.st = "sent", !.op = op, !.key = k, !.val = val])
        /\ owed' = [owed EXCEPT ![c] = Holders(VersionPrefix(Home[c], k)) \ {Home[c]}]
  BY DEF Request
<1>3. PICK val : Moves(c, [Idle EXCEPT !.st = "sent", !.op = op, !.key = k, !.val = val])
  BY <1>2
<1>4. conn'[c].st = "sent" /\ conn'[c].key = k /\ conn'[c].asked = 0
  BY <1>3 DEF Moves, TypeInv, TypeOK, Idle
<1>5. owed'[c] = Holders(VersionPrefix(Home[c], k)) \ {Home[c]}
  BY <1>2 DEF TypeInv, TypeOK
<1>6. Tagged(c)' = VersionPrefix(Home[c], k)
  BY <1>4 DEF Tagged, VersionPrefix
<1>7. ASSUME NEW q \in owed'[c]
      PROVE  status'[q] = "up" /\ q # Home[c] /\ Serves(q, Tagged(c))'
  BY <1>1, <1>5, <1>6 DEF Holders, Up, Serves
<1>8. Helped(c)'
  BY <1>4, <1>7 DEF Helped, Owes, Asks, Misses
<1>9. ASSUME NEW d \in Clients, d # c PROVE Helped(d)'
  <2>1. conn'[d] = conn[d] /\ owed'[d] = owed[d]
    BY <1>2, <1>3, <1>9 DEF Moves, TypeInv, TypeOK
  <2>2. Steady
    BY <1>1, StillSteady
  <2> QED
    BY <2>1, <2>2, HelpedFrame
<1> QED
  BY <1>1, <1>8, <1>9, ReachableFrame

LEMMA UpstreamHelped ==
    ASSUME TypeInv, Reachable, \A d \in Clients : Helped(d), Ops \cap {"DEL", "HGETALL"} = {},
           NEW c \in Clients, Upstream(c)
    PROVE  Reachable' /\ \A d \in Clients : Helped(d)'
<1> DEFINE p == Home[c]
           t == Tagged(c)
           req == conn[c]
           content == store[p][t]
           after == After(req.op, content, req.val)
           kind == ReplyKind(req.op, content)
           value == Found(req.op, content)
<1>1. /\ p \in Pods /\ status[p] = "up" /\ t \in Tags /\ req \in Requests /\ Sound(req)
      /\ req.op \in Commands \ {"DEL", "HGETALL"} /\ req.st = "sent"
  BY BusyIsUp DEF TypeInv, Upstream
<1>2. content \in Contents \cup {Nil}
  BY <1>1 DEF TypeInv, TypeOK
<1>3. /\ store' = [store EXCEPT ![p][t] = after]
      /\ UNCHANGED <<status, ip, l2ok, nodemap, sk, owed>>
      /\ \/ Moves(c, [req EXCEPT !.st = "peers"])
         \/ /\ ~(l2ok[p] /\ req.op \in ReadMiss /\ kind = "bulk" /\ value = Nil)
            /\ Replies(c, kind, value)
  BY DEF Upstream, pod, l2
<1>4. content # Nil => after # Nil
  <2> SUFFICES ASSUME content # Nil PROVE after # Nil
    OBVIOUS
  <2>1. req.op \in Writes => [type |-> "string", val |-> req.val] \in Contents
                             /\ [type |-> "hash", val |-> req.val] \in Contents
    BY <1>1 DEF Sound, Contents
  <2> HIDE DEF content, req
  <2> QED
    BY <1>1, <2>1 DEF After, Commands, Reads, Writes
<1>5. Steady
  BY <1>1, <1>3, <1>4, PutSteady
<1>6. req.op \in Reads /\ kind # "error" /\ value = Nil =>
        l2ok[p] /\ req.op \in ReadMiss /\ kind = "bulk"
  <2>1. l2ok[p]
    BY <1>1 DEF Reachable
  <2>2. content # Nil => content.val # Nil
    BY <1>2 DEF Contents
  <2> HIDE DEF content, req
  <2> QED
    BY <1>1, <2>1, <2>2 DEF Found, ReplyKind, WrongType, Reads, ReadMiss
<1>7. Helped(c)'
  <2>1. CASE Moves(c, [req EXCEPT !.st = "peers"])
    <3>1. /\ conn'[c].st = "peers" /\ conn'[c].key = conn[c].key
          /\ conn'[c].asked = conn[c].asked
      BY <1>1, <2>1 DEF Moves, TypeInv, TypeOK, Requests
    <3>2. Owes(c)'
      BY <1>3, <1>5, <3>1, OwesKept DEF Helped
    <3> QED
      BY <1>1, <3>1, <3>2 DEF Helped, Asks, Misses
  <2>2. CASE ~(l2ok[p] /\ req.op \in ReadMiss /\ kind = "bulk" /\ value = Nil)
             /\ Replies(c, kind, value)
    <3>1. /\ conn'[c].st = "reply" /\ conn'[c].key = conn[c].key
          /\ conn'[c].op = req.op /\ conn'[c].kind = kind /\ conn'[c].val = value
          /\ conn'[c].asked = 0
      BY <1>1, <2>2 DEF Replies, Moves, TypeInv, TypeOK, Requests
    <3>2. Owes(c)'
      BY <1>3, <1>5, <3>1, OwesKept DEF Helped
    <3>3. Misses(c)'
      BY <1>6, <2>2, <3>1 DEF Misses
    <3> QED
      BY <3>1, <3>2, <3>3 DEF Helped, Asks
  <2> QED
    BY <1>3, <2>1, <2>2
<1> QED
  BY <1>3, <1>5, <1>7, HandlerHelped, ReachableFrame DEF Replies

LEMMA GetPeersHelped ==
    ASSUME TypeInv, Reachable, \A d \in Clients : Helped(d), faults' = 0,
           IsFiniteSet(Pods), Cardinality(Pods) <= PeerLimit + 1,
           NEW c \in Clients, GetPeers(c)
    PROVE  Reachable' /\ \A d \in Clients : Helped(d)'
<1> DEFINE t == Tagged(c)
           peers == sk[t] \ {Home[c]}
           ask == [conn[c] EXCEPT !.st = "ask", !.peers = peers]
<1>1. /\ Home[c] \in Pods /\ t \in Tags /\ conn[c] \in Requests /\ conn[c].st = "peers"
  BY BusyIsUp DEF TypeInv, GetPeers
<1>2. /\ UNCHANGED <<status, ip, l2ok, store, nodemap, sk, owed>>
      /\ \/ peers # {} /\ Moves(c, ask)
         \/ peers = {} /\ Replies(c, "bulk", Nil)
  BY NoFaultYet DEF GetPeers, pod, l2, past
<1>3. Steady
  BY <1>2, StillSteady
<1>4. peers \subseteq Pods \ {Home[c]}
  BY <1>1 DEF TypeInv, TypeOK
<1>5. owed[c] \cap Up \subseteq peers
  BY DEF Helped, Owes, Serves, Up
<1>6. IsFiniteSet(peers) /\ Cardinality(peers) \in Nat /\ Cardinality(peers) <= PeerLimit
  <2>1. /\ IsFiniteSet(Pods \ {Home[c]}) /\ Cardinality(Pods) \in Nat
        /\ Cardinality(Pods \ {Home[c]}) = Cardinality(Pods) - 1
    BY <1>1, FS_RemoveElement, FS_CardinalityType
  <2>2. /\ IsFiniteSet(peers) /\ Cardinality(peers) \in Nat
        /\ Cardinality(peers) <= Cardinality(Pods \ {Home[c]})
    BY <1>4, <2>1, FS_Subset, FS_CardinalityType
  <2> QED
    BY <2>1, <2>2
<1> HIDE DEF peers, t
<1>7. Helped(c)'
  <2>1. CASE Moves(c, ask)
    <3>1. /\ conn'[c].st = "ask" /\ conn'[c].key = conn[c].key
          /\ conn'[c].peers = peers /\ conn'[c].asked = conn[c].asked
      BY <1>1, <2>1 DEF Moves, TypeInv, TypeOK, Requests
    <3>2. Owes(c)' /\ owed'[c] \cap Up' \subseteq owed[c] \cap Up
      BY <1>2, <1>3, <3>1, OwesKept DEF Helped
    <3>3. conn[c].asked = 0
      BY <1>1 DEF Helped, Asks
    <3>4. Asks(c)'
      BY <1>5, <1>6, <3>1, <3>2, <3>3 DEF Asks
    <3> QED
      BY <3>1, <3>2, <3>4 DEF Helped, Misses
  <2>2. CASE peers = {} /\ Replies(c, "bulk", Nil)
    <3>1. conn'[c].st = "reply" /\ conn'[c].key = conn[c].key /\ conn'[c].asked = 0
      BY <1>1, <2>2 DEF Replies, Moves, TypeInv, TypeOK, Requests
    <3>2. Owes(c)' /\ owed'[c] \cap Up' \subseteq owed[c] \cap Up
      BY <1>2, <1>3, <3>1, OwesKept DEF Helped
    <3> QED
      BY <1>5, <2>2, <3>1, <3>2 DEF Helped, Asks, Misses
  <2> QED
    BY <1>2, <2>1, <2>2
<1> QED
  BY <1>2, <1>3, <1>7, HandlerHelped, ReachableFrame DEF Replies

LEMMA NextPeerHelped ==
    ASSUME TypeInv, Steady, NEW c \in Clients, Helped(c), conn[c].st = "ask",
           NEW q \in conn[c].peers, q \notin owed[c] \cap Up,
           NextPeer(c, q), owed' = owed
    PROVE  Helped(c)'
<1> DEFINE req == conn[c]
           rest == req.peers \ {q}
           next == [req EXCEPT !.peers = rest, !.asked = req.asked + 1]
<1>1. req \in Requests /\ req.asked \in Nat
  BY BusyIsUp DEF TypeInv, Requests
<1>2. /\ owed[c] \cap Up \subseteq rest
      /\ IsFiniteSet(rest) /\ Cardinality(rest) \in Nat
      /\ req.asked + 1 + Cardinality(rest) <= PeerLimit
  <2>1. /\ owed[c] \cap Up \subseteq req.peers /\ IsFiniteSet(req.peers)
        /\ req.asked + Cardinality(req.peers) <= PeerLimit
    BY DEF Helped, Asks
  <2>2. /\ Cardinality(req.peers) \in Nat /\ Cardinality(rest) \in Nat
        /\ IsFiniteSet(rest) /\ Cardinality(rest) = Cardinality(req.peers) - 1
    BY <2>1, FS_RemoveElement, FS_CardinalityType
  <2> QED
    BY <1>1, <2>1, <2>2
<1>3. req.asked + 1 = PeerLimit => rest = {}
  BY <1>1, <1>2, FS_EmptySet
<1>4. CASE rest = {} /\ Replies(c, "bulk", Nil)
  <2>1. conn'[c].st = "reply" /\ conn'[c].key = req.key /\ conn'[c].asked = 0
    BY <1>1, <1>4 DEF Replies, Moves, TypeInv, TypeOK, Requests
  <2>2. Owes(c)' /\ owed'[c] \cap Up' \subseteq owed[c] \cap Up
    BY <2>1, OwesKept DEF Helped
  <2> QED
    BY <1>2, <1>4, <2>1, <2>2 DEF Helped, Asks, Misses
<1>5. CASE Moves(c, next)
  <2>1. /\ conn'[c].st = "ask" /\ conn'[c].key = req.key
        /\ conn'[c].peers = rest /\ conn'[c].asked = req.asked + 1
    BY <1>1, <1>5 DEF Moves, TypeInv, TypeOK, Requests
  <2>2. Owes(c)' /\ owed'[c] \cap Up' \subseteq owed[c] \cap Up
    BY <2>1, OwesKept DEF Helped
  <2> QED
    BY <1>2, <2>1, <2>2 DEF Helped, Asks, Misses
<1> QED
  BY <1>3, <1>4, <1>5 DEF NextPeer

LEMMA AskPeerHelped ==
    ASSUME TypeInv, Reachable, \A d \in Clients : Helped(d), faults' = 0, PeerPortOpen,
           NEW c \in Clients, NEW q \in Pods, AskPeer(c, q)
    PROVE  Reachable' /\ \A d \in Clients : Helped(d)'
<1> DEFINE t == Tagged(c)
           req == conn[c]
<1>1. /\ t \in Tags /\ req \in Requests /\ req.st = "ask" /\ req.op \in Commands
      /\ q \in req.peers
  BY BusyIsUp DEF TypeInv, AskPeer
<1>2. UNCHANGED <<status, ip, l2ok, store, nodemap, sk, owed>>
  BY DEF AskPeer, pod, l2, past
<1>3. Steady
  BY <1>2, StillSteady
<1>4. CASE Behind(q) = {} /\ NextPeer(c, q)
  <2>1. q \notin owed[c] \cap Up
    BY <1>4 DEF Behind, Helped, Owes, Serves, Up
  <2> QED
    BY <1>1, <1>2, <1>3, <1>4, <2>1, NextPeerHelped, HandlerHelped, ReachableFrame
       DEF NextPeer, Replies
<1>5. ASSUME NEW p \in Behind(q), PeerReply(req.op, store[p][t]) = Nil, NextPeer(c, q)
      PROVE  Reachable' /\ \A d \in Clients : Helped(d)'
  <2>1. ASSUME q \in owed[c] \cap Up PROVE FALSE
    <3>1. status[q] = "up" /\ nodemap[q] = ip[q] /\ store[q][t] # Nil
      BY <2>1 DEF Helped, Owes, Serves, Up
    <3>2. p = q
      BY <1>5, <3>1 DEF Behind, Up, Reachable
    <3>3. store[q][t] \in Contents
      BY <1>1, <3>1 DEF TypeInv, TypeOK
    <3>4. store[q][t].val # Nil /\ store[q][t] # Nil
      BY <3>3 DEF Contents
    <3> QED
      BY <1>5, <3>2, <3>4 DEF PeerReply, Found, Reads
  <2> QED
    BY <1>1, <1>2, <1>3, <1>5, <2>1, NextPeerHelped, HandlerHelped, ReachableFrame
       DEF NextPeer, Replies
<1>6. ASSUME NEW value, Moves(c, [req EXCEPT !.st = "writeback", !.val = value,
                                             !.peers = {}, !.asked = 0])
      PROVE  Reachable' /\ \A d \in Clients : Helped(d)'
  <2>1. conn'[c].st = "writeback" /\ conn'[c].key = req.key /\ conn'[c].asked = 0
    BY <1>1, <1>6 DEF Moves, TypeInv, TypeOK, Requests
  <2>2. Owes(c)'
    BY <1>2, <1>3, <2>1, OwesKept DEF Helped
  <2>3. Helped(c)'
    BY <2>1, <2>2 DEF Helped, Asks, Misses
  <2> QED
    BY <1>2, <1>3, <1>6, <2>3, HandlerHelped, ReachableFrame
<1> QED
  BY <1>4, <1>5, <1>6, NoFaultYet DEF AskPeer

LEMMA WriteBackHelped ==
    ASSUME TypeInv, Reachable, \A d \in Clients : Helped(d),
           NEW c \in Clients, WriteBack(c)
    PROVE  Reachable' /\ \A d \in Clients : Helped(d)'
<1> DEFINE fetched == [type |-> "string", val |-> conn[c].val]
<1>1. /\ Home[c] \in Pods /\ Tagged(c) \in Tags /\ conn[c] \in Requests
      /\ conn[c].val \in Vals \cup {ErrorText} /\ conn[c].st = "writeback"
  BY BusyIsUp DEF TypeInv, WriteBack, Sound
<1>2. /\ store' = [store EXCEPT ![Home[c]][Tagged(c)] = fetched]
      /\ Replies(c, "bulk", conn[c].val)
      /\ UNCHANGED <<status, ip, l2ok, nodemap, sk, owed>>
  BY DEF WriteBack, pod, l2, past
<1>3. fetched \in Contents
  BY <1>1 DEF Contents
<1>4. Steady
  BY <1>1, <1>2, <1>3, PutSteady
<1>5. /\ conn'[c].st = "reply" /\ conn'[c].key = conn[c].key
      /\ conn'[c].val # Nil /\ conn'[c].asked = 0
  BY <1>1, <1>2 DEF Replies, Moves, TypeInv, TypeOK, Requests
<1>6. Owes(c)'
  BY <1>2, <1>4, <1>5, OwesKept DEF Helped
<1>7. Helped(c)'
  BY <1>5, <1>6 DEF Helped, Asks, Misses
<1> QED
  BY <1>2, <1>4, <1>7, HandlerHelped, ReachableFrame DEF Replies

LEMMA ReplyHelped ==
    ASSUME TypeInv, Reachable, \A d \in Clients : Helped(d),
           NEW c \in Clients, Reply(c)
    PROVE  Reachable' /\ \A d \in Clients : Helped(d)'
<1>1. /\ conn' = [conn EXCEPT ![c] = Idle] /\ owed' = [owed EXCEPT ![c] = {}]
      /\ UNCHANGED <<status, ip, l2ok, store, nodemap, sk>>
  BY DEF Reply, Moves, pod, l2
<1>2. conn'[c] = Idle /\ owed'[c] = {}
  BY <1>1 DEF TypeInv, TypeOK
<1>3. \A d \in Clients : d # c => conn'[d] = conn[d] /\ owed'[d] = owed[d]
  BY <1>1 DEF TypeInv, TypeOK
<1>4. Steady
  BY <1>1, StillSteady
<1> QED
  BY <1>1, <1>2, <1>3, <1>4, HelpedIdle, HelpedFrame, ReachableFrame

LEMMA BootHelped ==
    ASSUME TypeInv, Reachable, \A d \in Clients : Helped(d), faults' = 0,
           NEW p \in Pods, Boot(p)
    PROVE  Reachable' /\ \A d \in Clients : Helped(d)'
<1>1. /\ status' = [status EXCEPT ![p] = "up"] /\ status[p] = "new"
      /\ UNCHANGED <<store, conn, sk, owed>>
  BY DEF Boot, Reachable, past
<1>2. PICK i \in Ips :
        /\ \A q \in Pods : status[q] \in {"up", "down"} => ip[q] # i
        /\ ip' = [ip EXCEPT ![p] = i] /\ l2ok' = [l2ok EXCEPT ![p] = TRUE]
        /\ nodemap' = [nodemap EXCEPT ![p] = i]
  BY <1>1, NoFaultYet DEF Boot
<1>3. ASSUME NEW q \in Pods, q # p
      PROVE  /\ status'[q] = status[q] /\ ip'[q] = ip[q]
             /\ l2ok'[q] = l2ok[q] /\ nodemap'[q] = nodemap[q]
  BY <1>1, <1>2, <1>3 DEF TypeInv, TypeOK
<1>4. status'[p] = "up" /\ ip'[p] = i /\ l2ok'[p]
  BY <1>1, <1>2 DEF TypeInv, TypeOK
<1>5. Reachable'
  BY <1>2, <1>3, <1>4 DEF Reachable
<1>6. Steady
  BY <1>1, <1>3 DEF Steady, Serves
<1> QED
  BY <1>1, <1>5, <1>6, HelpedFrame

LEMMA PodEndsHelped ==
    ASSUME TypeInv, Reachable, \A d \in Clients : Helped(d), NEW p \in Pods, PodEnds(p)
    PROVE  Reachable' /\ \A d \in Clients : Helped(d)'
<1>1. /\ status' = [status EXCEPT ![p] = "gone"] /\ HangUp(p) /\ Emptied(p)
      /\ UNCHANGED <<ip, l2ok, nodemap, sk>>
  BY DEF PodEnds, Stops, l2
<1>2. /\ status'[p] = "gone"
      /\ \A q \in Pods : q # p => status'[q] = status[q] /\ store'[q] = store[q]
  BY <1>1 DEF Emptied, TypeInv, TypeOK
<1>3. Reachable'
  BY <1>1, <1>2 DEF Reachable
<1>4. Steady
  BY <1>1, <1>2 DEF Steady, Serves
<1>5. ASSUME NEW d \in Clients PROVE Helped(d)'
  <2>1. CASE Home[d] = p
    BY <1>1, <2>1, HelpedIdle DEF HangUp
  <2>2. CASE Home[d] # p
    BY <1>1, <1>4, <2>2, HelpedFrame DEF HangUp
  <2> QED
    BY <2>1, <2>2
<1> QED
  BY <1>3, <1>5

LEMMA MissStep ==
    ASSUME PeerPortOpen, Ops \cap {"DEL", "HGETALL"} = {},
           IsFiniteSet(Pods), Cardinality(Pods) <= PeerLimit + 1
    PROVE  TypeInv /\ MissInv /\ [Next]_vars => MissInv'
<1> SUFFICES ASSUME TypeInv, MissInv, [Next]_vars, faults' = 0 PROVE MissInv'
  BY DEF MissInv
<1>1. Reachable /\ \A d \in Clients : Helped(d)
  BY FaultsGrow DEF MissInv
<1> SUFFICES Reachable' /\ \A d \in Clients : Helped(d)'
  BY DEF MissInv
<1>2. ASSUME NEW c \in Clients, Request(c) \/ Handler(c)
      PROVE  Reachable' /\ \A d \in Clients : Helped(d)'
  BY <1>1, <1>2, RequestHelped, UpstreamHelped, GetPeersHelped, AskPeerHelped,
     WriteBackHelped, ReplyHelped DEF Handler
<1>3. ASSUME UNCHANGED <<status, ip, l2ok, store, conn, nodemap, owed>>,
             \A t \in Tags : sk[t] \subseteq sk'[t]
      PROVE  Reachable' /\ \A d \in Clients : Helped(d)'
  BY <1>1, <1>3, StillSteady, HelpedFrame, ReachableFrame
<1>4. ASSUME NEW p \in Pods, NEW k \in Keys, RegisterWrite(p, k)
      PROVE  Reachable' /\ \A d \in Clients : Helped(d)'
  <2>1. /\ UNCHANGED <<status, ip, l2ok, store, conn, nodemap, owed>>
        /\ sk' = [sk EXCEPT ![VersionPrefix(p, k)] = @ \cup {p}]
    BY <1>4, NoFaultYet DEF RegisterWrite, pod, past
  <2>2. \A t \in Tags : sk[t] \subseteq sk'[t]
    BY <2>1 DEF TypeInv, TypeOK
  <2> QED
    BY <1>3, <2>1, <2>2
<1>5. CASE Environment
  <2>1. /\ \A p \in Pods : ~Crash(p) /\ ~RedisRestart(p)
        /\ \A p \in Pods, t \in Versions \X Keys : ~Evict(p, t)
        /\ ~L2Restart
    BY NoFaultYet DEF Crash, RedisRestart, Evict, L2Restart
  <2> QED
    BY <1>1, <1>5, <2>1, BootHelped, PodEndsHelped DEF Environment
<1>6. CASE UNCHANGED vars
  BY <1>3, <1>6 DEF vars, pod, l2, past
<1> QED
  BY <1>2, <1>4, <1>5, <1>6 DEF Next

\* If the peer-fetch port is open, applications use neither DEL nor HGETALL and a
\* pod has no more siblings than a miss asks, then as long as nothing fails a
\* read is a miss only if every sibling that had the key indexed when the read
\* was sent is gone: pods may come and go, IPs be used again, and others write
\* and fetch the key meanwhile (peerFetchValue).
THEOREM MissesAreReal ==
    ASSUME PeerPortOpen, Ops \cap {"DEL", "HGETALL"} = {},
           IsFiniteSet(Pods), Cardinality(Pods) <= PeerLimit + 1
    PROVE  Spec => []MissMeansNoHolder
<1>1. Init => TypeInv /\ MissInv
  BY TypeInit, MissInit
<1>2. TypeInv /\ MissInv /\ [Next]_vars => (TypeInv /\ MissInv)'
  BY TypeStep, MissStep
<1>3. MissInv => MissMeansNoHolder
  BY DEF MissInv, Helped, Misses, MissMeansNoHolder
<1> QED
  BY <1>1, <1>2, <1>3, PTL DEF Spec
=============================================================================
