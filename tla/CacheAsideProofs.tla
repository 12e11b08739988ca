------------------------- MODULE CacheAsideProofs -------------------------
(***************************************************************************)
(* Proofs about CacheAside: what a handler has in hand was produced for    *)
(* its own key and, if it is v2's, by v2; so no read is stale, and every   *)
(* error that is answered had a call that failed.  And while no cache lost *)
(* a key or failed, what the backend produced for a client is in the first *)
(* layer or on its way there, so that it produces nothing twice.           *)
(***************************************************************************)
EXTENDS CacheAside, TLAPS

Payload == Versions \cup {Err, Nil}
States == {"idle", "get", "miss", "wait", "set", "answer"}
Requests == [st : States, key : Keys \cup {Nil}, ver : Versions, val : Payload]

CallType == call \in [Clients -> [Layers -> Requests]]
CacheType == cache \in [Layers -> [Dbs -> [Keys -> Payload]]]

\* Calls and rollouts do not meet; before a rollout all is v1's.
VersionInv ==
    /\ service \in Services /\ running \subseteq Versions
    /\ "rollout" \notin service.faults => running = {"v1"}
    /\ "call" \in service.faults =>
         \A c \in Clients, l \in Layers : call[c][l].ver = "v1"

\* What may be answered to a request for k by a pod of version ver.
Proper(ver, k, val, fails) ==
    /\ ver = "v2" => val \in {"v2", Nil}
    /\ val = Err => k \in fails

CacheInv ==
    \A l \in Layers, ver \in Versions, k \in Keys :
        Proper(ver, k, cache[l][Db(ver)][k], failed)

InHand(req, fails) ==
    /\ req.st # "idle" => req.key \in Keys
    /\ Proper(req.ver, req.key, req.val, fails)

HandInv == \A c \in Clients, l \in Layers : InHand(call[c][l], failed)

\* A handler that waits, waits for its own request.
WaitInv ==
    \A c \in Clients, l \in Layers :
        call[c][l].st = "wait" =>
            /\ l + 1 \in Layers
            /\ call[c][l + 1].key = call[c][l].key
            /\ call[c][l + 1].ver = call[c][l].ver

SeenInv ==
    \A row \in seen : row[1] \in Versions /\ Proper(row[1], row[3], row[2], failed)

IInv == CallType /\ CacheType /\ VersionInv /\ CacheInv /\ HandInv /\ WaitInv /\ SeenInv

-----------------------------------------------------------------------------
LEMMA Values ==
    /\ Nil \notin Versions /\ Err \notin Versions /\ Nil # Err
    /\ Nil \in Payload /\ Err \in Payload /\ Versions \subseteq Payload
    /\ 1 \in Layers /\ MaxDepth \in Nat
    /\ \A ver \in Versions : Db(ver) \in Dbs
    /\ Idle \in Requests
  BY CacheAsideAssumption DEF Payload, Versions, Layers, Db, Dbs, Idle, Requests, States

\* A handler's record is replaced, the others stay.
LEMMA Replaced ==
    ASSUME CallType, NEW c \in Clients, NEW l \in Layers, NEW rec \in Requests,
           Becomes(c, l, rec)
    PROVE  /\ CallType'
           /\ \A d \in Clients, m \in Layers :
                call'[d][m] = IF d = c /\ m = l THEN rec ELSE call[d][m]
  BY DEF CallType, Becomes

LEMMA Going ==
    ASSUME CallType, NEW c \in Clients, NEW l \in Layers, NEW st \in States,
           NEW val \in Payload, Goes(c, l, st, val)
    PROVE  \E rec \in Requests :
             /\ rec.st = st /\ rec.val = val
             /\ rec.key = call[c][l].key /\ rec.ver = call[c][l].ver
             /\ Becomes(c, l, rec)
  <1>1. call[c][l] \in Requests
    BY DEF CallType
  <1> DEFINE rec == [call[c][l] EXCEPT !.st = st, !.val = val]
  <1>2. /\ rec \in Requests /\ rec.st = st /\ rec.val = val
        /\ rec.key = call[c][l].key /\ rec.ver = call[c][l].ver
    BY <1>1 DEF Requests
  <1> QED
    BY <1>2 DEF Goes

\* A step that only replaces c's record in layer l, by a proper one that
\* does not wait, keeps the invariant.  Its key and version may change only
\* in the first layer, which nobody waits for.
LEMMA Stepping ==
    ASSUME IInv, NEW c \in Clients, NEW l \in Layers, NEW rec \in Requests,
           Becomes(c, l, rec), rec.st # "wait", InHand(rec, failed),
           \/ l = 1
           \/ rec.key = call[c][l].key /\ rec.ver = call[c][l].ver
           \/ \A m \in Layers : m + 1 = l => call[c][m].st # "wait",
           "call" \in service.faults => rec.ver = "v1",
           UNCHANGED <<service, running, failed>>
    PROVE  CallType' /\ VersionInv' /\ HandInv' /\ WaitInv'
  <1>1. /\ CallType'
        /\ \A d \in Clients, m \in Layers :
             call'[d][m] = IF d = c /\ m = l THEN rec ELSE call[d][m]
    BY Replaced DEF IInv
  <1>2. VersionInv'
    BY <1>1 DEF IInv, VersionInv
  <1>3. HandInv'
    BY <1>1 DEF IInv, HandInv
  <1>4. WaitInv'
    <2> SUFFICES ASSUME NEW d \in Clients, NEW m \in Layers, call'[d][m].st = "wait"
                 PROVE  /\ m + 1 \in Layers
                        /\ call'[d][m + 1].key = call'[d][m].key
                        /\ call'[d][m + 1].ver = call'[d][m].ver
      BY DEF WaitInv
    <2>1. ~(d = c /\ m = l) /\ call'[d][m] = call[d][m]
      BY <1>1
    <2>2. /\ m + 1 \in Layers
          /\ call[d][m + 1].key = call[d][m].key
          /\ call[d][m + 1].ver = call[d][m].ver
      BY <2>1 DEF IInv, WaitInv
    <2>3. CASE d = c /\ m + 1 = l
      <3>1. call'[d][m + 1] = rec
        BY <1>1, <2>2, <2>3
      <3>2. l # 1
        BY <2>3, CacheAsideAssumption DEF Layers
      <3>3. rec.key = call[c][l].key /\ rec.ver = call[c][l].ver
        BY <2>1, <2>3, <3>2
      <3> QED
        BY <2>1, <2>2, <2>3, <3>1, <3>3
    <2>4. CASE ~(d = c /\ m + 1 = l)
      <3>1. call'[d][m + 1] = call[d][m + 1]
        BY <1>1, <2>2, <2>4
      <3> QED
        BY <2>1, <2>2, <3>1
    <2> QED
      BY <2>3, <2>4
  <1> QED
    BY <1>1, <1>2, <1>3, <1>4

LEMMA InitIInv == Init => IInv
  <1> SUFFICES ASSUME Init PROVE IInv
    OBVIOUS
  <1>1. CallType /\ CacheType
    BY Values DEF Init, CallType, CacheType
  <1>2. \A c \in Clients, l \in Layers : call[c][l] = Idle
    BY DEF Init
  <1>3. VersionInv
    BY <1>2 DEF Init, VersionInv, Versions, Idle
  <1>4. CacheInv
    BY Values DEF Init, CacheInv, Proper
  <1>5. HandInv /\ WaitInv
    BY <1>2, Values DEF HandInv, WaitInv, InHand, Proper, Idle
  <1>6. SeenInv
    BY DEF Init, SeenInv
  <1> QED
    BY <1>1, <1>3, <1>4, <1>5, <1>6 DEF IInv

-----------------------------------------------------------------------------
LEMMA AskInv ==
    ASSUME IInv, NEW c \in Clients, NEW k \in Keys, Ask(c, k)
    PROVE  IInv'
  <1> PICK v \in running :
        Becomes(c, 1, [Idle EXCEPT !.st = "get", !.key = k, !.ver = v])
    BY DEF Ask
  <1> DEFINE rec == [Idle EXCEPT !.st = "get", !.key = k, !.ver = v]
  <1>1. v \in Versions /\ ("call" \in service.faults => v = "v1")
    BY CacheAsideAssumption DEF IInv, VersionInv
  <1>2. /\ rec \in Requests /\ rec.st = "get" /\ rec.key = k /\ rec.ver = v
        /\ rec.val = Nil
    BY <1>1, Values DEF Idle, Requests, States
  <1>3. InHand(rec, failed)
    BY <1>2, Values DEF InHand, Proper
  <1>4. CallType' /\ VersionInv' /\ HandInv' /\ WaitInv'
    <2>1. Becomes(c, 1, rec) /\ UNCHANGED <<service, running, failed>>
      BY DEF Ask
    <2> HIDE DEF rec
    <2> QED
      BY <1>1, <1>2, <1>3, <2>1, Values, Stepping
  <1>5. CacheType' /\ CacheInv' /\ SeenInv'
    BY DEF Ask, IInv, CacheType, CacheInv, SeenInv
  <1> QED
    BY <1>4, <1>5 DEF IInv

\* A step that goes on with c's request in layer l, to a proper value.
LEMMA Continuing ==
    ASSUME IInv, NEW c \in Clients, NEW l \in Layers,
           NEW st \in States \ {"wait"}, NEW val \in Payload, Goes(c, l, st, val),
           call[c][l].st # "idle",
           Proper(call[c][l].ver, call[c][l].key, val, failed),
           UNCHANGED <<service, running, failed>>
    PROVE  CallType' /\ VersionInv' /\ HandInv' /\ WaitInv'
  <1>1. PICK rec \in Requests :
             /\ rec.st = st /\ rec.val = val
             /\ rec.key = call[c][l].key /\ rec.ver = call[c][l].ver
             /\ Becomes(c, l, rec)
    <2>1. CallType /\ st \in States
      BY DEF IInv
    <2> QED
      BY <2>1, Going
  <1>2. InHand(rec, failed)
    BY <1>1 DEF IInv, HandInv, InHand
  <1>3. "call" \in service.faults => rec.ver = "v1"
    BY <1>1 DEF IInv, VersionInv
  <1> QED
    BY <1>1, <1>2, <1>3, Stepping

\* What the cache has for a request is proper, and so are no value and the
\* value in hand.
LEMMA ProperValues ==
    ASSUME IInv, NEW c \in Clients, NEW l \in Layers, call[c][l].st # "idle"
    PROVE  LET req == call[c][l] IN
           /\ req \in Requests /\ req.key \in Keys /\ req.ver \in Versions
           /\ cache[l][Db(req.ver)][req.key] \in Payload
           /\ Proper(req.ver, req.key, cache[l][Db(req.ver)][req.key], failed)
           /\ Proper(req.ver, req.key, Nil, failed)
           /\ Proper(req.ver, req.key, req.ver, failed)
           /\ Proper(req.ver, req.key, req.val, failed)
  <1>1. call[c][l] \in Requests /\ call[c][l].key \in Keys /\ call[c][l].ver \in Versions
    BY DEF IInv, CallType, HandInv, InHand, Requests
  <1>2. cache[l][Db(call[c][l].ver)][call[c][l].key] \in Payload
    BY <1>1, Values DEF IInv, CacheType
  <1>3. Proper(call[c][l].ver, call[c][l].key,
               cache[l][Db(call[c][l].ver)][call[c][l].key], failed)
    BY <1>1 DEF IInv, CacheInv
  <1>4. Proper(call[c][l].ver, call[c][l].key, call[c][l].val, failed)
    BY DEF IInv, HandInv, InHand
  <1>5. /\ Proper(call[c][l].ver, call[c][l].key, Nil, failed)
        /\ Proper(call[c][l].ver, call[c][l].key, call[c][l].ver, failed)
    BY <1>1, Values DEF Proper
  <1> QED
    BY <1>1, <1>2, <1>3, <1>4, <1>5

LEMMA LookupInv ==
    ASSUME IInv, NEW c \in Clients, NEW l \in Layers, Lookup(c, l)
    PROVE  IInv'
  <1> DEFINE req == call[c][l]
             cached == cache[l][Db(req.ver)][req.key]
  <1>1. req.st # "idle" /\ UNCHANGED <<service, running, failed>>
    BY DEF Lookup
  <1>2. /\ cached \in Payload /\ Proper(req.ver, req.key, cached, failed)
        /\ Nil \in Payload /\ Proper(req.ver, req.key, Nil, failed)
    BY <1>1, ProperValues, Values
  <1>3. \E st \in States \ {"wait"}, val \in {cached, Nil} : Goes(c, l, st, val)
    BY DEF Lookup, States
  <1>4. CallType' /\ VersionInv' /\ HandInv' /\ WaitInv'
    <2> PICK st \in States \ {"wait"}, val \in {cached, Nil} : Goes(c, l, st, val)
      BY <1>3
    <2> HIDE DEF cached
    <2>1. val \in Payload /\ Proper(req.ver, req.key, val, failed)
      BY <1>2
    <2> QED
      BY <1>1, <2>1, Continuing
  <1>5. CacheType' /\ CacheInv' /\ SeenInv'
    BY DEF Lookup, IInv, CacheType, CacheInv, SeenInv
  <1> QED
    BY <1>4, <1>5 DEF IInv

LEMMA SynthesiseInv ==
    ASSUME IInv, NEW c \in Clients, NEW l \in Layers, Synthesise(c, l)
    PROVE  IInv'
  <1>1. call[c][l].st # "idle" /\ UNCHANGED <<service, running, failed>>
    BY DEF Synthesise
  <1>2. call[c][l].ver \in Payload /\ "set" \in States \ {"wait"}
    BY <1>1, ProperValues, Values DEF States
  <1>3. Goes(c, l, "set", call[c][l].ver)
    BY DEF Synthesise
  <1>4. CallType' /\ VersionInv' /\ HandInv' /\ WaitInv'
    BY <1>1, <1>2, <1>3, ProperValues, Continuing
  <1>5. CacheType' /\ CacheInv' /\ SeenInv'
    BY DEF Synthesise, IInv, CacheType, CacheInv, SeenInv
  <1> QED
    BY <1>4, <1>5 DEF IInv

LEMMA AnswerInv ==
    ASSUME IInv, NEW c \in Clients, Answer(c)
    PROVE  IInv'
  <1>1. InHand(Idle, failed) /\ Idle.st # "wait" /\ Idle.ver = "v1"
    BY Values DEF Idle, InHand, Proper
  <1>2. CallType' /\ VersionInv' /\ HandInv' /\ WaitInv'
    <2>1. Becomes(c, 1, Idle) /\ UNCHANGED <<service, running, failed>>
      BY DEF Answer
    <2> QED
      BY <1>1, <2>1, Values, Stepping
  <1>3. SeenInv'
    <2>1. call[c][1].st # "idle" /\ 1 \in Layers
      BY Values DEF Answer
    <2>2. /\ call[c][1].ver \in Versions
          /\ Proper(call[c][1].ver, call[c][1].key, call[c][1].val, failed)
      BY <2>1, ProperValues
    <2> QED
      BY <2>2 DEF Answer, IInv, SeenInv
  <1>4. CacheType' /\ CacheInv'
    BY DEF Answer, IInv, CacheType, CacheInv
  <1> QED
    BY <1>2, <1>3, <1>4 DEF IInv

LEMMA AbandonedInv ==
    ASSUME IInv, NEW c \in Clients, NEW l \in Layers, Abandoned(c, l)
    PROVE  IInv'
  <1>1. InHand(Idle, failed) /\ Idle.st # "wait" /\ Idle.ver = "v1"
    BY Values DEF Idle, InHand, Proper
  <1>2. CallType' /\ VersionInv' /\ HandInv' /\ WaitInv'
    <2>1. Becomes(c, l, Idle) /\ UNCHANGED <<service, running, failed>>
      BY DEF Abandoned
    <2>2. \A m \in Layers : m + 1 = l => call[c][m].st # "wait"
      <3> SUFFICES ASSUME NEW m \in Layers, m + 1 = l
                   PROVE  call[c][m].st # "wait"
        OBVIOUS
      <3>1. l - 1 = m
        BY CacheAsideAssumption DEF Layers
      <3> QED
        BY <3>1 DEF Abandoned
    <2> QED
      BY <1>1, <2>1, <2>2, Values, Stepping
  <1>3. CacheType' /\ CacheInv' /\ SeenInv'
    BY DEF Abandoned, IInv, CacheType, CacheInv, SeenInv
  <1> QED
    BY <1>2, <1>3 DEF IInv

\* One value in one cache is replaced.
Put(l, at, j, v) == cache' = [cache EXCEPT ![l][at][j] = v]

LEMMA Stored ==
    ASSUME CacheType, NEW l \in Layers, NEW at \in Dbs, NEW j \in Keys,
           NEW v \in Payload, Put(l, at, j, v)
    PROVE  /\ CacheType'
           /\ \A m \in Layers, db \in Dbs, k \in Keys :
                cache'[m][db][k] = IF m = l /\ db = at /\ k = j THEN v
                                   ELSE cache[m][db][k]
  <1> DEFINE keys == [cache[l][at] EXCEPT ![j] = v]
             layer == [cache[l] EXCEPT ![at] = keys]
  <1>1. /\ keys \in [Keys -> Payload]
        /\ \A k \in Keys : keys[k] = IF k = j THEN v ELSE cache[l][at][k]
    BY DEF CacheType
  <1>2. cache' = [cache EXCEPT ![l] = layer]
    BY DEF Put
  <1> HIDE DEF keys
  <1>3. /\ layer \in [Dbs -> [Keys -> Payload]]
        /\ \A db \in Dbs : layer[db] = IF db = at THEN keys ELSE cache[l][db]
    BY <1>1 DEF CacheType
  <1> HIDE DEF layer
  <1>4. /\ CacheType'
        /\ \A m \in Layers : cache'[m] = IF m = l THEN layer ELSE cache[m]
    BY <1>2, <1>3 DEF CacheType
  <1> QED
    BY <1>1, <1>3, <1>4

LEMMA SetInv ==
    ASSUME IInv, NEW c \in Clients, NEW l \in Layers, Set(c, l)
    PROVE  IInv'
  <1> DEFINE req == call[c][l]
  <1>1. req.st # "idle" /\ UNCHANGED <<service, running, failed>>
    BY DEF Set
  <1>2. /\ req \in Requests /\ req.key \in Keys /\ req.ver \in Versions
        /\ req.val \in Payload /\ Nil \in Payload
        /\ Proper(req.ver, req.key, req.val, failed)
        /\ Proper(req.ver, req.key, Nil, failed)
    BY <1>1, ProperValues, Values DEF Requests
  <1>3. \E val \in {req.val, Nil} : Goes(c, l, "answer", val)
    BY DEF Set
  <1>4. CallType' /\ VersionInv' /\ HandInv' /\ WaitInv'
    <2> PICK val \in {req.val, Nil} : Goes(c, l, "answer", val)
      BY <1>3
    <2>1. /\ val \in Payload /\ Proper(req.ver, req.key, val, failed)
          /\ "answer" \in States \ {"wait"}
      BY <1>2 DEF States
    <2> QED
      BY <1>1, <2>1, Continuing
  <1>5. \/ UNCHANGED cache
        \/ cache' = [cache EXCEPT ![l][Db(req.ver)][req.key] = req.val]
    BY DEF Set
  <1>6. /\ CacheType'
        /\ \/ UNCHANGED cache
           \/ \A m \in Layers, db \in Dbs, k \in Keys :
                cache'[m][db][k] = IF m = l /\ db = Db(req.ver) /\ k = req.key
                                   THEN req.val ELSE cache[m][db][k]
    <2>1. CASE UNCHANGED cache
      BY <2>1 DEF IInv, CacheType
    <2>2. CASE cache' = [cache EXCEPT ![l][Db(req.ver)][req.key] = req.val]
      <3> DEFINE at == Db(req.ver)
                 j == req.key
                 v == req.val
      <3>1. /\ CacheType /\ at \in Dbs /\ j \in Keys /\ v \in Payload
            /\ Put(l, at, j, v)
        BY <1>2, <2>2, Values DEF IInv, Put
      <3> HIDE DEF at, j, v
      <3>2. /\ CacheType'
            /\ \A m \in Layers, db \in Dbs, k \in Keys :
                 cache'[m][db][k] = IF m = l /\ db = at /\ k = j THEN v
                                    ELSE cache[m][db][k]
        BY <3>1, Stored
      <3> QED
        BY <3>2 DEF at, j, v
    <2> QED
      BY <1>5, <2>1, <2>2
  <1>7. CacheInv'
    <2> SUFFICES ASSUME NEW m \in Layers, NEW ver \in Versions, NEW k \in Keys
                 PROVE  Proper(ver, k, cache'[m][Db(ver)][k], failed)
      BY <1>1 DEF CacheInv
    <2>1. Db(ver) \in Dbs /\ (Db(ver) = Db(req.ver) => ver = req.ver)
      BY <1>2 DEF Db, Dbs, Versions
    <2>2. \/ cache'[m][Db(ver)][k] = cache[m][Db(ver)][k]
          \/ ver = req.ver /\ k = req.key /\ cache'[m][Db(ver)][k] = req.val
      BY <1>6, <2>1
    <2>3. Proper(ver, k, cache[m][Db(ver)][k], failed)
      BY DEF IInv, CacheInv
    <2> QED
      BY <1>2, <2>2, <2>3
  <1>8. SeenInv'
    BY DEF Set, IInv, SeenInv
  <1> QED
    BY <1>4, <1>6, <1>7, <1>8 DEF IInv

LEMMA CallReturnsInv ==
    ASSUME IInv, NEW c \in Clients, NEW l \in Layers, CallReturns(c, l)
    PROVE  IInv'
  <1>0. l + 1 \in Layers /\ l \in Nat /\ l # l + 1
    BY CacheAsideAssumption DEF CallReturns, Layers
  <1> DEFINE next == call[c][l + 1]
             rec == [call[c][l] EXCEPT !.st = "set", !.val = next.val]
  <1>1. call[c][l].st = "wait" /\ next.key = call[c][l].key /\ next.ver = call[c][l].ver
    BY DEF CallReturns, IInv, WaitInv
  <1>2. call[c][l] \in Requests /\ next \in Requests
    BY <1>0 DEF IInv, CallType
  <1>3. /\ rec \in Requests /\ rec.st = "set" /\ rec.val = next.val
        /\ rec.key = call[c][l].key /\ rec.ver = call[c][l].ver
    BY <1>2 DEF Requests, States
  <1>4. InHand(rec, failed)
    BY <1>0, <1>1, <1>3 DEF IInv, HandInv, InHand
  <1>5. /\ call' = [call EXCEPT ![c][l] = rec, ![c][l + 1] = Idle]
        /\ UNCHANGED <<service, running, cache, seen, failed>>
    BY DEF CallReturns
  <1> HIDE DEF rec
  <1>6. /\ CallType'
        /\ \A d \in Clients, m \in Layers :
             call'[d][m] = IF d = c /\ m = l THEN rec
                           ELSE IF d = c /\ m = l + 1 THEN Idle ELSE call[d][m]
    BY <1>0, <1>3, <1>5, Values DEF IInv, CallType
  <1>7. InHand(Idle, failed) /\ Idle.st = "idle" /\ Idle.ver = "v1"
    BY Values DEF Idle, InHand, Proper
  <1>8. VersionInv'
    <2> SUFFICES ASSUME "call" \in service.faults, NEW d \in Clients, NEW m \in Layers
                 PROVE  call'[d][m].ver = "v1"
      BY <1>5 DEF IInv, VersionInv
    <2>1. call'[d][m] \in {rec, Idle, call[d][m]}
      BY <1>6
    <2>2. call[d][m].ver = "v1" /\ call[c][l].ver = "v1"
      BY DEF IInv, VersionInv
    <2> QED
      BY <1>3, <1>7, <2>1, <2>2
  <1>9. HandInv'
    <2> SUFFICES ASSUME NEW d \in Clients, NEW m \in Layers
                 PROVE  InHand(call'[d][m], failed)
      BY <1>5 DEF HandInv
    <2>1. call'[d][m] \in {rec, Idle, call[d][m]}
      BY <1>6
    <2>2. InHand(call[d][m], failed)
      BY DEF IInv, HandInv
    <2> QED
      BY <1>4, <1>7, <2>1, <2>2
  <1>10. WaitInv'
    <2> SUFFICES ASSUME NEW d \in Clients, NEW m \in Layers, call'[d][m].st = "wait"
                 PROVE  /\ m + 1 \in Layers
                        /\ call'[d][m + 1].key = call'[d][m].key
                        /\ call'[d][m + 1].ver = call'[d][m].ver
      BY DEF WaitInv
    <2>1. ~(d = c /\ m \in {l, l + 1}) /\ call'[d][m] = call[d][m]
      BY <1>3, <1>6, <1>7
    <2>2. /\ m + 1 \in Layers
          /\ call[d][m + 1].key = call[d][m].key
          /\ call[d][m + 1].ver = call[d][m].ver
      BY <2>1 DEF IInv, WaitInv
    <2>3. (m \in Nat /\ m + 1 # l + 1) \/ d # c
      BY <1>0, <2>1 DEF Layers
    <2>4. CASE d = c /\ m + 1 = l
      BY <1>3, <1>6, <2>1, <2>2, <2>4
    <2>5. CASE ~(d = c /\ m + 1 = l)
      <3>1. call'[d][m + 1] = call[d][m + 1]
        BY <1>6, <2>2, <2>3, <2>5
      <3> QED
        BY <2>1, <2>2, <3>1
    <2> QED
      BY <2>4, <2>5
  <1>11. CacheType' /\ CacheInv' /\ SeenInv'
    BY <1>5 DEF IInv, CacheType, CacheInv, SeenInv
  <1> QED
    BY <1>6, <1>8, <1>9, <1>10, <1>11 DEF IInv

LEMMA CallNextInv ==
    ASSUME IInv, NEW c \in Clients, NEW l \in Layers, CallNext(c, l)
    PROVE  IInv'
  <1>0. l + 1 \in Layers /\ l \in Nat /\ l # l + 1
    BY CacheAsideAssumption DEF CallNext, Layers, IInv, VersionInv
  <1> DEFINE rec == [call[c][l] EXCEPT !.st = "wait"]
             next == [call[c][l] EXCEPT !.st = "get"]
  <1>1. call[c][l] \in Requests /\ call[c][l].st = "miss"
    BY DEF CallNext, IInv, CallType
  <1>2. /\ rec \in Requests /\ rec.st = "wait" /\ next \in Requests /\ next.st = "get"
        /\ rec.key = call[c][l].key /\ rec.ver = call[c][l].ver
        /\ rec.val = call[c][l].val /\ next.val = call[c][l].val
        /\ next.key = call[c][l].key /\ next.ver = call[c][l].ver
    BY <1>1 DEF Requests, States
  <1>3. InHand(rec, failed) /\ InHand(next, failed)
    <2>1. InHand(call[c][l], failed)
      BY DEF IInv, HandInv
    <2> QED
      BY <1>1, <1>2, <2>1 DEF InHand
  <1>4. /\ call' = [call EXCEPT ![c][l].st = "wait", ![c][l + 1] = next]
        /\ call[c][l + 1] = Idle
        /\ UNCHANGED <<service, running, cache, seen, failed>>
    BY DEF CallNext
  <1> HIDE DEF next
  <1>5. /\ CallType'
        /\ \A d \in Clients, m \in Layers :
             call'[d][m] = IF d = c /\ m = l THEN rec
                           ELSE IF d = c /\ m = l + 1 THEN next ELSE call[d][m]
    BY <1>0, <1>2, <1>4 DEF IInv, CallType
  <1> HIDE DEF rec
  <1>6. VersionInv'
    <2> SUFFICES ASSUME "call" \in service.faults, NEW d \in Clients, NEW m \in Layers
                 PROVE  call'[d][m].ver = "v1"
      BY <1>4 DEF IInv, VersionInv
    <2>1. call'[d][m] \in {rec, next, call[d][m]}
      BY <1>5
    <2>2. call[d][m].ver = "v1" /\ call[c][l].ver = "v1"
      BY DEF IInv, VersionInv
    <2> QED
      BY <1>2, <2>1, <2>2
  <1>7. HandInv'
    <2> SUFFICES ASSUME NEW d \in Clients, NEW m \in Layers
                 PROVE  InHand(call'[d][m], failed)
      BY <1>4 DEF HandInv
    <2>1. call'[d][m] \in {rec, next, call[d][m]}
      BY <1>5
    <2>2. InHand(call[d][m], failed)
      BY DEF IInv, HandInv
    <2> QED
      BY <1>3, <2>1, <2>2
  <1>8. WaitInv'
    <2> SUFFICES ASSUME NEW d \in Clients, NEW m \in Layers, call'[d][m].st = "wait"
                 PROVE  /\ m + 1 \in Layers
                        /\ call'[d][m + 1].key = call'[d][m].key
                        /\ call'[d][m + 1].ver = call'[d][m].ver
      BY DEF WaitInv
    <2>1. CASE d = c /\ m = l
      <3>1. call'[d][m] = rec /\ call'[d][m + 1] = next
        BY <1>0, <1>5, <2>1
      <3> QED
        BY <1>0, <1>2, <2>1, <3>1
    <2>2. CASE ~(d = c /\ m = l)
      <3>1. ~(d = c /\ m = l + 1) /\ call'[d][m] = call[d][m]
        BY <1>2, <1>5, <2>2
      <3>2. /\ m + 1 \in Layers
            /\ call[d][m + 1].key = call[d][m].key
            /\ call[d][m + 1].ver = call[d][m].ver
        BY <3>1 DEF IInv, WaitInv
      <3>3. d # c \/ m + 1 # l + 1
        BY <1>0, <2>2 DEF Layers
      <3>4. CASE d = c /\ m + 1 = l
        BY <1>2, <1>5, <3>1, <3>2, <3>4
      <3>5. CASE ~(d = c /\ m + 1 = l)
        <4>1. call'[d][m + 1] = call[d][m + 1]
          BY <1>5, <3>2, <3>3, <3>5
        <4> QED
          BY <3>1, <3>2, <4>1
      <3> QED
        BY <3>4, <3>5
    <2> QED
      BY <2>1, <2>2
  <1>9. CacheType' /\ CacheInv' /\ SeenInv'
    BY <1>4 DEF IInv, CacheType, CacheInv, SeenInv
  <1> QED
    BY <1>5, <1>6, <1>7, <1>8, <1>9 DEF IInv

\* The request to the next layer fails: what is cached and answered for it
\* is the error, and the key has a failed call.
LEMMA CallFailsInv ==
    ASSUME IInv, NEW c \in Clients, NEW l \in Layers, CallFails(c, l)
    PROVE  IInv'
  <1>0. l + 1 \in Layers /\ l \in Nat /\ l # l + 1
    BY CacheAsideAssumption DEF CallFails, Layers
  <1> DEFINE rec == [call[c][l] EXCEPT !.st = "set", !.val = Err]
  <1>p. PICK rest \in {call[c][l + 1], Idle} :
        call' = [call EXCEPT ![c][l].st = "set", ![c][l].val = Err, ![c][l + 1] = rest]
    BY DEF CallFails
  <1>1. /\ "call" \in service.faults /\ call[c][l].st = "wait"
        /\ failed' = failed \cup {call[c][l].key}
        /\ UNCHANGED <<service, running, cache, seen>>
    BY DEF CallFails, Fault
  <1>2. call[c][l] \in Requests /\ call[c][l + 1] \in Requests /\ rest \in Requests
    BY <1>p, <1>0, Values DEF IInv, CallType
  <1>3. /\ rec \in Requests /\ rec.st = "set" /\ rec.val = Err
        /\ rec.key = call[c][l].key /\ rec.ver = call[c][l].ver
    BY <1>2, Values DEF Requests, States
  <1>4. call[c][l].key \in Keys /\ call[c][l].ver = "v1"
    BY <1>1 DEF IInv, HandInv, InHand, VersionInv
  <1> DEFINE fails == failed \cup {call[c][l].key}
  <1>5. \A ver, k, val : Proper(ver, k, val, failed) => Proper(ver, k, val, fails)
    BY DEF Proper
  <1>6. InHand(rec, fails)
    BY <1>3, <1>4 DEF InHand, Proper
  <1>7. InHand(Idle, fails) /\ Idle.st = "idle" /\ Idle.ver = "v1"
    BY Values DEF Idle, InHand, Proper
  <1>8. \A d \in Clients, m \in Layers : InHand(call[d][m], fails)
    BY <1>5 DEF IInv, HandInv, InHand
  <1>9. failed' = fails
    BY <1>1
  <1>10. /\ call' = [call EXCEPT ![c] = [call[c] EXCEPT ![l] = rec, ![l + 1] = rest]]
         /\ rest = call[c][l + 1] \/ rest = Idle
    BY <1>p, <1>0 DEF IInv, CallType
  <1> HIDE DEF rec, fails
  <1>11. /\ CallType'
         /\ \A d \in Clients, m \in Layers :
              call'[d][m] = IF d = c /\ m = l THEN rec
                            ELSE IF d = c /\ m = l + 1 THEN rest ELSE call[d][m]
    BY <1>0, <1>2, <1>3, <1>10 DEF IInv, CallType
  <1>12. VersionInv'
    <2> SUFFICES ASSUME NEW d \in Clients, NEW m \in Layers
                 PROVE  call'[d][m].ver = "v1"
      BY <1>1 DEF IInv, VersionInv
    <2>1. call'[d][m] \in {rec, Idle, call[c][l + 1], call[d][m]}
      BY <1>10, <1>11
    <2>2. call[d][m].ver = "v1" /\ call[c][l + 1].ver = "v1"
      BY <1>0, <1>1 DEF IInv, VersionInv
    <2> QED
      BY <1>3, <1>4, <1>7, <2>1, <2>2
  <1>13. HandInv'
    <2> SUFFICES ASSUME NEW d \in Clients, NEW m \in Layers
                 PROVE  InHand(call'[d][m], fails)
      BY <1>9 DEF HandInv
    <2>1. call'[d][m] \in {rec, Idle, call[c][l + 1], call[d][m]}
      BY <1>10, <1>11
    <2> QED
      BY <1>0, <1>6, <1>7, <1>8, <2>1
  <1>14. WaitInv'
    <2> SUFFICES ASSUME NEW d \in Clients, NEW m \in Layers, call'[d][m].st = "wait"
                 PROVE  /\ m + 1 \in Layers
                        /\ call'[d][m + 1].key = call'[d][m].key
                        /\ call'[d][m + 1].ver = call'[d][m].ver
      BY DEF WaitInv
    <2>1. ~(d = c /\ m = l) /\ call'[d][m] = call[d][m]
      BY <1>3, <1>7, <1>10, <1>11
    <2>2. /\ m + 1 \in Layers
          /\ call[d][m + 1].key = call[d][m].key
          /\ call[d][m + 1].ver = call[d][m].ver
      BY <2>1 DEF IInv, WaitInv
    <2>3. d # c \/ m + 1 # l + 1
      BY <1>0, <2>1 DEF Layers
    <2>4. CASE d = c /\ m + 1 = l
      BY <1>3, <1>11, <2>1, <2>2, <2>4
    <2>5. CASE ~(d = c /\ m + 1 = l)
      <3>1. call'[d][m + 1] = call[d][m + 1]
        BY <1>11, <2>2, <2>3, <2>5
      <3> QED
        BY <2>1, <2>2, <3>1
    <2> QED
      BY <2>4, <2>5
  <1>15. CacheType' /\ CacheInv' /\ SeenInv'
    BY <1>1, <1>5, <1>9 DEF IInv, CacheType, CacheInv, SeenInv
  <1> QED
    BY <1>11, <1>12, <1>13, <1>14, <1>15 DEF IInv

LEMMA RolloutInv ==
    ASSUME IInv, Rollout
    PROVE  IInv'
  <1>1. VersionInv'
    BY CacheAsideAssumption DEF Rollout, IInv, VersionInv, Versions
  <1> QED
    BY <1>1 DEF Rollout, IInv, CallType, CacheType, CacheInv, HandInv, WaitInv, SeenInv

LEMMA EvictInv ==
    ASSUME IInv, NEW l \in Layers, NEW at \in Dbs, NEW j \in Keys, Evict(l, at, j)
    PROVE  IInv'
  <1>1. /\ cache' = [cache EXCEPT ![l][at][j] = Nil]
        /\ UNCHANGED <<service, running, call, seen, failed>>
    BY DEF Evict
  <1>2. /\ CacheType'
        /\ \A m \in Layers, db \in Dbs, k \in Keys :
             cache'[m][db][k] = IF m = l /\ db = at /\ k = j THEN Nil
                                ELSE cache[m][db][k]
    <2>1. CacheType /\ Nil \in Payload /\ Put(l, at, j, Nil)
      BY <1>1, Values DEF IInv, Put
    <2> QED
      BY <2>1, Stored
  <1>3. CacheInv'
    <2> SUFFICES ASSUME NEW m \in Layers, NEW ver \in Versions, NEW k \in Keys
                 PROVE  Proper(ver, k, cache'[m][Db(ver)][k], failed)
      BY <1>1 DEF CacheInv
    <2>1. cache'[m][Db(ver)][k] \in {Nil, cache[m][Db(ver)][k]}
      BY <1>2, Values
    <2>2. Proper(ver, k, cache[m][Db(ver)][k], failed) /\ Proper(ver, k, Nil, failed)
      BY Values DEF IInv, CacheInv, Proper
    <2> QED
      BY <2>1, <2>2
  <1> QED
    BY <1>1, <1>2, <1>3
       DEF IInv, CallType, VersionInv, HandInv, WaitInv, SeenInv

LEMMA NextIInv == IInv /\ [Next]_vars => IInv'
  <1> SUFFICES ASSUME IInv, [Next]_vars PROVE IInv'
    OBVIOUS
  <1>1. CASE \E c \in Clients, k \in Keys : Ask(c, k)
    BY <1>1, AskInv
  <1>2. CASE \E c \in Clients, l \in Layers : Handler(c, l)
    <2> PICK c \in Clients, l \in Layers : Handler(c, l)
      BY <1>2
    <2> QED
      BY LookupInv, SynthesiseInv, CallNextInv, CallReturnsInv, CallFailsInv,
         SetInv, AbandonedInv DEF Handler
  <1>3. CASE \E c \in Clients : Answer(c)
    BY <1>3, AnswerInv
  <1>4. CASE Rollout
    BY <1>4, RolloutInv
  <1>5. CASE \E l \in Layers, db \in Dbs, k \in Keys : Evict(l, db, k)
    BY <1>5, EvictInv
  <1>6. CASE UNCHANGED vars
    BY <1>6 DEF vars, IInv, CallType, CacheType, VersionInv, CacheInv, HandInv,
                WaitInv, SeenInv
  <1> QED
    BY <1>1, <1>2, <1>3, <1>4, <1>5, <1>6 DEF Next

-----------------------------------------------------------------------------
\* exp_5_3_rolling/app.py:16-18: with the DB of run_trial.sh's sentrycache
\* condition, v2 never answers with a payload of v1 or an error of a call,
\* for any services, clients, keys and rollouts.
THEOREM FreshReads == Spec => []NoStaleReads
  <1>1. IInv => NoStaleReads
    <2> SUFFICES ASSUME IInv, NEW row \in seen PROVE Class(row) # "stale-v2"
      BY DEF NoStaleReads
    <2>1. row[1] = "v2" => row[2] \in {"v2", Nil}
      BY DEF IInv, SeenInv, Proper
    <2>2. CASE row[2] = Nil
      BY <2>2 DEF Class
    <2>3. CASE row[2] # Nil /\ row[1] = "v1"
      BY <2>3 DEF Class
    <2>4. CASE row[1] = "v2" /\ row[2] = "v2"
      BY <2>4, Values DEF Class, Versions
    <2>5. row[1] \in Versions
      BY DEF IInv, SeenInv
    <2> QED
      BY <2>1, <2>2, <2>3, <2>4, <2>5 DEF Versions
  <1> QED
    BY <1>1, InitIInv, NextIInv, PTL DEF Spec

\* exp_5_2_chain/app.py:44-53: the error put for a call that failed is only
\* answered for a key that had one, however many layers there are.
THEOREM CausedErrors == Spec => []ErrorsHaveACause
  <1>1. IInv => ErrorsHaveACause
    BY DEF IInv, SeenInv, Proper, ErrorsHaveACause
  <1> QED
    BY <1>1, InitIInv, NextIInv, PTL DEF Spec
-----------------------------------------------------------------------------
(***************************************************************************)
(* The backend is spared: on top of IInv, what holds while no cache lost a *)
(* key or failed and only v1 runs.                                         *)
(***************************************************************************)
Steady == ~lost /\ running = {"v1"}

\* The first layer has k, or the request that brings it there is c's.
Covered(c, k) ==
    \/ cache[1][0][k] # Nil
    \/ call[c][1].key = k /\ call[c][1].st \in {"wait", "set"}

\* The layer that may still go down to the backend.
Asking(c, l) == call[c][l].st \in {"get", "miss"}

SparedInv ==
    /\ produced \in [Clients -> [Keys -> Nat]]
    /\ \A c \in Clients, l \in Layers : call[c][l].ver = "v1"
    /\ \A c \in Clients, k \in Keys : produced[c][k] \in {0, 1}
    /\ \A c \in Clients, k \in Keys : produced[c][k] = 1 => Covered(c, k)
    \* One layer at a time: an orphan of a failed call is the last to ask.
    /\ \A c \in Clients, l, m \in Layers : Asking(c, l) /\ Asking(c, m) => l = m
    /\ \A c \in Clients, l \in Layers :
         call[c][l].st = "miss" \/ (l # 1 /\ call[c][l].st = "get")
           => produced[c][call[c][l].key] = 0
    /\ \A c \in Clients, l \in Layers :
         call[c][l].st \in {"set", "answer"} => call[c][l].val # Nil
    /\ \A c \in Clients, l \in Layers :
         l # 1 /\ call[c][l].st # "idle" => Covered(c, call[c][l].key)

SteadyInv == Steady => SparedInv

\* What SparedInv says of one request.
Sparing(c, l, req, made) ==
    /\ req.ver = "v1"
    /\ req.st = "miss" \/ (l # 1 /\ req.st = "get") => made[c][req.key] = 0
    /\ req.st \in {"set", "answer"} => req.val # Nil

LEMMA SparedStep ==
    ASSUME SparedInv, UNCHANGED produced,
           \A c \in Clients, k \in Keys : Covered(c, k) => Covered(c, k)',
           \A c \in Clients, l \in Layers :
               \/ call'[c][l] = call[c][l]
               \/ /\ Sparing(c, l, call'[c][l], produced)
                  /\ l # 1 /\ call'[c][l].st # "idle" => Covered(c, call[c][l].key)',
           \A c \in Clients, l \in Layers : call[c][l].st # "idle" => call[c][l].key \in Keys,
           \A c \in Clients, l, m \in Layers : Asking(c, l)' /\ Asking(c, m)' => l = m
    PROVE  SparedInv'
  <1>1. \A c \in Clients, l \in Layers :
          /\ Sparing(c, l, call'[c][l], produced)
          /\ l # 1 /\ call'[c][l].st # "idle" => Covered(c, call[c][l].key)'
    <2> SUFFICES ASSUME NEW c \in Clients, NEW l \in Layers, call'[c][l] = call[c][l]
                 PROVE  /\ Sparing(c, l, call[c][l], produced)
                        /\ l # 1 /\ call[c][l].st # "idle" => Covered(c, call[c][l].key)'
      BY Zenon
    <2>1. Sparing(c, l, call[c][l], produced)
      BY DEF SparedInv, Sparing
    <2>2. ASSUME l # 1, call[c][l].st # "idle" PROVE Covered(c, call[c][l].key)'
      <3>1. Covered(c, call[c][l].key) /\ call[c][l].key \in Keys
        BY <2>2 DEF SparedInv
      <3> DEFINE k == call[c][l].key
      <3>2. k \in Keys /\ Covered(c, k)
        BY <3>1
      <3>3. call'[c][l].key = k
        OBVIOUS
      <3> QED
        BY <3>2, <3>3
    <2> QED
      BY <2>1, <2>2
  <1>2. \A c \in Clients, k \in Keys : produced[c][k] = 1 => Covered(c, k)'
    BY DEF SparedInv
  <1> QED
    BY <1>1, <1>2 DEF SparedInv, Sparing

\* One record is replaced and nothing else that matters.
LEMMA SparedMove ==
    ASSUME CallType, HandInv, SparedInv, UNCHANGED <<produced, cache>>,
           NEW c \in Clients, NEW l \in Layers, NEW rec \in Requests, Becomes(c, l, rec),
           Sparing(c, l, rec, produced),
           rec.st \in {"get", "miss"} =>
               Asking(c, l) \/ \A m \in Layers : call[c][m].st = "idle",
           l = 1 => call[c][l].st \notin {"wait", "set"},
           l # 1 /\ rec.st # "idle" => call[c][l].st # "idle" /\ rec.key = call[c][l].key
    PROVE  SparedInv'
  <1>1. \A d \in Clients, m \in Layers :
          call'[d][m] = IF d = c /\ m = l THEN rec ELSE call[d][m]
    BY Replaced
  <1>2. \A d \in Clients, k \in Keys : Covered(d, k) => Covered(d, k)'
    <2>1. 1 \in Layers
      BY Values
    <2> QED
      BY <1>1, <2>1 DEF Covered
  <1>3. \A d \in Clients, m \in Layers : call[d][m].st # "idle" => call[d][m].key \in Keys
    BY DEF HandInv, InHand
  <1>4. \A d \in Clients, m \in Layers :
          \/ call'[d][m] = call[d][m]
          \/ /\ Sparing(d, m, call'[d][m], produced)
             /\ m # 1 /\ call'[d][m].st # "idle" => Covered(d, call[d][m].key)'
    <2> SUFFICES ASSUME l # 1, rec.st # "idle" PROVE Covered(c, rec.key)'
      BY <1>1
    <2>1. Covered(c, call[c][l].key) /\ call[c][l].key \in Keys
      BY <1>3 DEF SparedInv
    <2> QED
      BY <1>2, <2>1
  <1>5. \A d \in Clients, i, j \in Layers : Asking(d, i)' /\ Asking(d, j)' => i = j
    <2> SUFFICES ASSUME NEW d \in Clients, NEW i \in Layers, NEW j \in Layers,
                        Asking(d, i)', Asking(d, j)', i # j
                 PROVE  FALSE
      OBVIOUS
    <2>1. CASE d = c /\ (i = l \/ j = l)
      <3>1. Asking(c, l) \/ \A m \in Layers : call[c][m].st = "idle"
        BY <1>1, <2>1 DEF Asking
      <3>2. PICK m \in {i, j} : m # l /\ Asking(c, m)
        BY <1>1, <2>1 DEF Asking
      <3> QED
        BY <3>1, <3>2 DEF SparedInv, Asking
    <2>2. CASE ~(d = c /\ (i = l \/ j = l))
      BY <1>1, <2>2 DEF SparedInv, Asking
    <2> QED
      BY <2>1, <2>2
  <1> QED
    BY <1>2, <1>3, <1>4, <1>5, SparedStep

\* Only v1 runs now if it did before, and what was lost stays lost.
LEMMA SteadyBefore == IInv /\ [Next]_vars /\ Steady' => Steady
  <1> SUFFICES ASSUME IInv, [Next]_vars, Steady' PROVE Steady
    OBVIOUS
  <1>1. CASE Rollout
    BY <1>1 DEF Rollout, Steady, Versions
  <1>2. CASE \E c \in Clients, l \in Layers : Handler(c, l)
    <2> PICK c \in Clients, l \in Layers : Handler(c, l)
      BY <1>2
    <2>1. Lookup(c, l) \/ Set(c, l) => running' = running /\ (lost' = lost \/ lost')
      BY DEF Lookup, Set
    <2>2. Synthesise(c, l) \/ CallNext(c, l) \/ CallReturns(c, l) \/ CallFails(c, l)
            \/ Abandoned(c, l) => UNCHANGED <<running, lost>>
      BY DEF Synthesise, CallNext, CallReturns, CallFails, Abandoned
    <2> QED
      BY <2>1, <2>2 DEF Handler, Steady
  <1>3. CASE \E c \in Clients, k \in Keys : Ask(c, k)
    BY <1>3 DEF Ask, Steady
  <1>4. CASE \E c \in Clients : Answer(c)
    BY <1>4 DEF Answer, Steady
  <1>5. CASE \E l \in Layers, db \in Dbs, k \in Keys : Evict(l, db, k)
    BY <1>5 DEF Evict, Steady
  <1>6. CASE UNCHANGED vars
    BY <1>6 DEF vars, Steady
  <1> QED
    BY <1>1, <1>2, <1>3, <1>4, <1>5, <1>6 DEF Next

LEMMA SparedInit == Init => SteadyInv
  <1> SUFFICES ASSUME Init PROVE SparedInv
    BY DEF SteadyInv
  <1>1. \A c \in Clients, l \in Layers : call[c][l] = Idle
    BY DEF Init
  <1>2. \A c \in Clients, k \in Keys : produced[c][k] = 0
    BY DEF Init
  <1>3. produced \in [Clients -> [Keys -> Nat]]
    BY DEF Init
  <1> QED
    BY <1>1, <1>2, <1>3 DEF SparedInv, Idle, Asking

LEMMA AskSpares ==
    ASSUME IInv, Steady, SparedInv, NEW c \in Clients, NEW k \in Keys, Ask(c, k)
    PROVE  SparedInv'
  <1> PICK v \in running :
        Becomes(c, 1, [Idle EXCEPT !.st = "get", !.key = k, !.ver = v])
    BY DEF Ask
  <1> DEFINE rec == [Idle EXCEPT !.st = "get", !.key = k, !.ver = v]
  <1>1. v = "v1"
    BY DEF Steady
  <1>2. rec \in Requests /\ rec.st = "get" /\ rec.ver = "v1"
    BY <1>1, Values DEF Idle, Requests, States, Versions
  <1>3. \A m \in Layers : call[c][m].st = "idle"
    BY DEF Ask, Idle
  <1>4. Becomes(c, 1, rec) /\ UNCHANGED <<produced, cache>>
    BY DEF Ask
  <1> HIDE DEF rec
  <1>5. Sparing(c, 1, rec, produced)
    BY <1>2 DEF Sparing
  <1> QED
    BY <1>2, <1>3, <1>4, <1>5, Values, SparedMove DEF IInv

LEMMA LookupSpares ==
    ASSUME IInv, ~lost', SparedInv, NEW c \in Clients, NEW l \in Layers, Lookup(c, l)
    PROVE  SparedInv'
  <1> DEFINE req == call[c][l]
             cached == cache[l][0][req.key]
  <1>1. req.st = "get" /\ req.key \in Keys /\ req.ver = "v1"
    BY DEF Lookup, IInv, HandInv, InHand, SparedInv
  <1>2. cached \in Payload
    BY <1>1 DEF IInv, CacheType, Dbs
  <1>3. \/ cached # Nil /\ Goes(c, l, "answer", cached)
        \/ cached = Nil /\ Goes(c, l, "miss", Nil)
    BY <1>1 DEF Lookup, Db
  <1>4. \E rec \in Requests :
          /\ rec.key = req.key /\ rec.ver = req.ver /\ Becomes(c, l, rec)
          /\ \/ rec.st = "answer" /\ rec.val # Nil
             \/ rec.st = "miss" /\ cached = Nil
    <2>1. "answer" \in States /\ "miss" \in States
      BY DEF States
    <2> HIDE DEF cached
    <2> QED
      BY <1>2, <1>3, <2>1, Values, Going DEF IInv
  <1> PICK rec \in Requests :
          /\ rec.key = req.key /\ rec.ver = req.ver /\ Becomes(c, l, rec)
          /\ \/ rec.st = "answer" /\ rec.val # Nil
             \/ rec.st = "miss" /\ cached = Nil
    BY <1>4
  <1>5. Sparing(c, l, rec, produced)
    <2>1. rec.st = "miss" => produced[c][req.key] = 0
      <3>1. CASE l # 1
        BY <1>1, <3>1 DEF SparedInv
      <3>2. CASE l = 1
        BY <1>1, <3>2 DEF SparedInv, Covered
      <3> QED
        BY <3>1, <3>2
    <2> QED
      BY <1>1, <2>1 DEF Sparing
  <1>6. UNCHANGED <<produced, cache>>
    BY DEF Lookup
  <1>7. Asking(c, l)
    BY <1>1 DEF Asking
  <1> QED
    BY <1>1, <1>5, <1>6, <1>7, SparedMove DEF IInv

LEMMA AnswerSpares ==
    ASSUME IInv, SparedInv, NEW c \in Clients, Answer(c)
    PROVE  SparedInv'
  <1>1. Sparing(c, 1, Idle, produced) /\ Idle.st = "idle"
    BY DEF Sparing, Idle
  <1>2. /\ Becomes(c, 1, Idle) /\ UNCHANGED <<produced, cache>>
        /\ call[c][1].st = "answer"
    BY DEF Answer
  <1> QED
    BY <1>1, <1>2, Values, SparedMove DEF IInv

LEMMA AbandonedSpares ==
    ASSUME IInv, SparedInv, NEW c \in Clients, NEW l \in Layers, Abandoned(c, l)
    PROVE  SparedInv'
  <1>1. Sparing(c, l, Idle, produced) /\ Idle.st = "idle"
    BY DEF Sparing, Idle
  <1>2. Becomes(c, l, Idle) /\ UNCHANGED <<produced, cache>> /\ l # 1
    BY DEF Abandoned, Layers
  <1> QED
    BY <1>1, <1>2, Values, SparedMove DEF IInv

\* The only step that counts: the client had not reached the backend, and
\* the value is on its way to the first layer.
LEMMA SynthesiseSpares ==
    ASSUME IInv, SparedInv, NEW c \in Clients, NEW l \in Layers, Synthesise(c, l)
    PROVE  SparedInv'
  <1> DEFINE key == call[c][l].key
  <1>1. /\ call[c][l].st = "miss" /\ key \in Keys /\ call[c][l].ver = "v1"
        /\ produced[c][key] = 0
    BY DEF Synthesise, IInv, HandInv, InHand, SparedInv
  <1>2. "set" \in States /\ call[c][l].ver \in Payload /\ call[c][l].ver # Nil
    BY <1>1, Values DEF States, Versions
  <1>3. \E rec \in Requests :
          /\ rec.st = "set" /\ rec.val # Nil /\ rec.ver = "v1" /\ rec.key = key
          /\ Becomes(c, l, rec)
    <2>1. Goes(c, l, "set", call[c][l].ver)
      BY DEF Synthesise
    <2> QED
      BY <1>1, <1>2, <2>1, Going DEF IInv
  <1> PICK rec \in Requests :
          /\ rec.st = "set" /\ rec.val # Nil /\ rec.ver = "v1" /\ rec.key = key
          /\ Becomes(c, l, rec)
    BY <1>3
  <1>4. \A d \in Clients, m \in Layers :
          call'[d][m] = IF d = c /\ m = l THEN rec ELSE call[d][m]
    BY Replaced DEF IInv
  <1>5. \A d \in Clients, k \in Keys :
          produced'[d][k] = IF d = c /\ k = key THEN 1 ELSE produced[d][k]
    <2>1. produced' = [produced EXCEPT ![c][key] = @ + 1]
      BY DEF Synthesise
    <2> HIDE DEF key
    <2> QED
      BY <1>1, <2>1 DEF SparedInv
  <1>6. produced' \in [Clients -> [Keys -> Nat]]
    <2>1. produced' = [produced EXCEPT ![c][key] = @ + 1]
      BY DEF Synthesise
    <2> HIDE DEF key
    <2> QED
      BY <1>1, <2>1 DEF SparedInv
  <1>7. \A d \in Clients, m \in Layers : Asking(d, m)' => Asking(d, m) /\ d # c
    <2>1. Asking(c, l)
      BY <1>1 DEF Asking
    <2> SUFFICES ASSUME NEW d \in Clients, NEW m \in Layers, Asking(d, m)'
                 PROVE  Asking(d, m) /\ d # c
      OBVIOUS
    <2>2. ~(d = c /\ m = l)
      BY <1>4 DEF Asking
    <2>3. Asking(d, m)
      BY <1>4, <2>2 DEF Asking
    <2> QED
      BY <2>1, <2>2, <2>3 DEF SparedInv
  <1>8. \A d \in Clients, k \in Keys : Covered(d, k) => Covered(d, k)'
    <2>1. cache' = cache /\ 1 \in Layers
      BY Values DEF Synthesise
    <2> QED
      BY <1>1, <1>4, <2>1 DEF Covered
  <1>9. Covered(c, key) \/ Covered(c, key)'
    <2>1. CASE l = 1
      BY <1>4, <2>1 DEF Covered
    <2>2. CASE l # 1
      BY <1>1, <2>2 DEF SparedInv
    <2> QED
      BY <2>1, <2>2
  <1>10. \A d \in Clients, k \in Keys : produced'[d][k] = 1 => Covered(d, k)'
    <2> SUFFICES ASSUME NEW d \in Clients, NEW k \in Keys, produced'[d][k] = 1
                 PROVE  Covered(d, k)'
      OBVIOUS
    <2>1. CASE d = c /\ k = key
      <3>1. \A j \in Keys : j = key /\ Covered(c, key)' => Covered(c, j)'
        BY <1>4 DEF Covered
      <3>2. \A j \in Keys : j = key /\ Covered(c, key) => Covered(c, j)'
        BY <1>8
      <3> QED
        BY <1>9, <2>1, <3>1, <3>2
    <2>2. CASE ~(d = c /\ k = key)
      BY <1>5, <1>8, <2>2 DEF SparedInv
    <2> QED
      BY <2>1, <2>2
  <1>11. \A d \in Clients, m \in Layers :
           /\ call'[d][m].ver = "v1"
           /\ call'[d][m].st \in {"set", "answer"} => call'[d][m].val # Nil
    BY <1>4 DEF SparedInv
  <1>12. \A d \in Clients, m \in Layers :
           call'[d][m].st = "miss" \/ (m # 1 /\ call'[d][m].st = "get")
             => produced'[d][call'[d][m].key] = 0
    <2> SUFFICES ASSUME NEW d \in Clients, NEW m \in Layers,
                        call'[d][m].st = "miss" \/ (m # 1 /\ call'[d][m].st = "get")
                 PROVE  produced'[d][call'[d][m].key] = 0
      OBVIOUS
    <2>1. d # c
      BY <1>7 DEF Asking
    <2>2. call'[d][m] = call[d][m] /\ call[d][m].key \in Keys
      BY <1>4, <2>1 DEF IInv, HandInv, InHand
    <2> QED
      BY <1>5, <2>1, <2>2 DEF SparedInv
  <1>13. \A d \in Clients, m \in Layers :
           m # 1 /\ call'[d][m].st # "idle" => Covered(d, call[d][m].key)'
    <2> SUFFICES ASSUME NEW d \in Clients, NEW m \in Layers, m # 1, call'[d][m].st # "idle"
                 PROVE  Covered(d, call[d][m].key)'
      OBVIOUS
    <2>1. call'[d][m].key = call[d][m].key /\ call[d][m].st # "idle"
      BY <1>1, <1>4
    <2>2. Covered(d, call[d][m].key) /\ call[d][m].key \in Keys
      BY <2>1 DEF SparedInv, IInv, HandInv, InHand
    <2>3. \A k \in Keys : k = call'[d][m].key /\ Covered(d, k)' => Covered(d, call[d][m].key)'
      BY DEF Covered
    <2> QED
      BY <1>8, <2>1, <2>2, <2>3
  <1>14. \A d \in Clients, k \in Keys : produced'[d][k] \in {0, 1}
    BY <1>5 DEF SparedInv
  <1>15. \A d \in Clients, i, j \in Layers : Asking(d, i)' /\ Asking(d, j)' => i = j
    BY <1>7 DEF SparedInv
  <1> QED
    BY <1>6, <1>10, <1>11, <1>12, <1>13, <1>14, <1>15 DEF SparedInv

LEMMA SetSpares ==
    ASSUME IInv, ~lost', SparedInv, NEW c \in Clients, NEW l \in Layers, Set(c, l)
    PROVE  SparedInv'
  <1> DEFINE req == call[c][l]
  <1>1. req.st = "set" /\ req.key \in Keys /\ req.ver = "v1" /\ req.val # Nil
    BY DEF Set, IInv, HandInv, InHand, SparedInv
  <1>2. /\ cache' = [cache EXCEPT ![l][0][req.key] = req.val]
        /\ Goes(c, l, "answer", req.val) /\ UNCHANGED produced
    BY <1>1 DEF Set, Db
  <1>3. "answer" \in States /\ req.val \in Payload
    BY DEF States, IInv, CallType, Requests
  <1>4. \E rec \in Requests :
          rec.st = "answer" /\ rec.val = req.val
          /\ rec.ver = "v1" /\ rec.key = req.key /\ Becomes(c, l, rec)
    BY <1>1, <1>2, <1>3, Going DEF IInv
  <1> PICK rec \in Requests :
          rec.st = "answer" /\ rec.val = req.val
          /\ rec.ver = "v1" /\ rec.key = req.key /\ Becomes(c, l, rec)
    BY <1>4
  <1>5. \A d \in Clients, m \in Layers :
          call'[d][m] = IF d = c /\ m = l THEN rec ELSE call[d][m]
    BY Replaced DEF IInv
  <1>6. \A k \in Keys : cache'[1][0][k] =
          IF l = 1 /\ k = req.key THEN req.val ELSE cache[1][0][k]
    <2> DEFINE j == req.key
               v == req.val
    <2>1. /\ CacheType /\ 0 \in Dbs /\ j \in Keys /\ v \in Payload /\ Put(l, 0, j, v)
      BY <1>1, <1>2, <1>3 DEF IInv, Put, Dbs
    <2> HIDE DEF j, v
    <2>2. \A m \in Layers, db \in Dbs, k \in Keys :
            cache'[m][db][k] = IF m = l /\ db = 0 /\ k = j THEN v ELSE cache[m][db][k]
      BY <2>1, Stored
    <2> QED
      BY <2>1, <2>2, Values DEF j, v
  <1>7. \A d \in Clients, k \in Keys : Covered(d, k) => Covered(d, k)'
    <2> SUFFICES ASSUME NEW d \in Clients, NEW k \in Keys, Covered(d, k)
                 PROVE  Covered(d, k)'
      OBVIOUS
    <2>1. CASE l = 1 /\ k = req.key
      BY <1>1, <1>6, <2>1 DEF Covered
    <2>2. CASE cache[1][0][k] # Nil /\ ~(l = 1 /\ k = req.key)
      BY <1>6, <2>2 DEF Covered
    <2>3. CASE call[d][1].key = k /\ call[d][1].st \in {"wait", "set"}
               /\ ~(l = 1 /\ k = req.key)
      <3>1. call'[d][1] = call[d][1]
        BY <1>5, <2>3, Values
      <3> QED
        BY <2>3, <3>1 DEF Covered
    <2> QED
      BY <2>1, <2>2, <2>3 DEF Covered
  <1>8. \A d \in Clients, m \in Layers : call[d][m].st # "idle" => call[d][m].key \in Keys
    BY DEF IInv, HandInv, InHand
  <1>9. \A d \in Clients, m \in Layers :
          \/ call'[d][m] = call[d][m]
          \/ /\ Sparing(d, m, call'[d][m], produced)
             /\ m # 1 /\ call'[d][m].st # "idle" => Covered(d, call[d][m].key)'
    <2>1. Sparing(c, l, rec, produced)
      BY <1>1 DEF Sparing
    <2>2. ASSUME l # 1 PROVE Covered(c, rec.key)'
      <3>1. Covered(c, rec.key) /\ rec.key \in Keys
        BY <1>1, <2>2 DEF SparedInv
      <3> QED
        BY <1>7, <3>1
    <2> SUFFICES ASSUME NEW d \in Clients, NEW m \in Layers, d = c /\ m = l
                 PROVE  /\ Sparing(d, m, call'[d][m], produced)
                        /\ m # 1 /\ call'[d][m].st # "idle" => Covered(d, call[d][m].key)'
      BY <1>5
    <2>3. call'[d][m] = rec
      BY <1>5
    <2>4. Covered(c, rec.key)' => Covered(d, call[d][m].key)'
      BY <2>3 DEF Covered
    <2> QED
      BY <2>1, <2>2, <2>3, <2>4
  <1>10. \A d \in Clients, i, j \in Layers : Asking(d, i)' /\ Asking(d, j)' => i = j
    <2>1. \A d \in Clients, m \in Layers : Asking(d, m)' => Asking(d, m)
      BY <1>5 DEF Asking
    <2> QED
      BY <2>1 DEF SparedInv
  <1> QED
    BY <1>2, <1>7, <1>8, <1>9, <1>10, SparedStep

\* A step of a request and of the one it has or had made to the next layer.
Pairing(c, l, rec, next) ==
    /\ l + 1 \in Layers /\ call[c][l].st # "idle"
    /\ \A d \in Clients, m \in Layers :
         call'[d][m] = IF d = c /\ m = l THEN rec
                       ELSE IF d = c /\ m = l + 1 THEN next ELSE call[d][m]
    /\ rec.st \in {"wait", "set"} /\ rec.key = call[c][l].key /\ rec.ver = "v1"
    /\ rec.st = "set" => rec.val # Nil
    /\ \/ next = call[c][l + 1]
       \/ next = Idle
       \/ /\ next.st = "get" /\ call[c][l].st = "miss"
          /\ next.key = call[c][l].key /\ next.ver = "v1"

LEMMA SparedPair ==
    ASSUME HandInv, SparedInv, UNCHANGED <<produced, cache>>,
           NEW c \in Clients, NEW l \in Layers, NEW rec, NEW next, Pairing(c, l, rec, next)
    PROVE  SparedInv'
  <1> USE DEF Pairing
  <1> DEFINE key == call[c][l].key
  <1>0. l # l + 1 /\ l + 1 # 1 /\ 1 \in Layers
    BY Values DEF Layers
  <1>1. \A d \in Clients, m \in Layers : call[d][m].st # "idle" => call[d][m].key \in Keys
    BY DEF HandInv, InHand
  <1>2. \A d \in Clients, k \in Keys : Covered(d, k) => Covered(d, k)'
    BY <1>0 DEF Covered
  <1>3. Covered(c, rec.key)'
    <2>1. CASE l = 1
      BY <1>0, <2>1 DEF Covered
    <2>2. CASE l # 1
      <3>1. Covered(c, rec.key) /\ rec.key \in Keys
        BY <1>1, <2>2 DEF SparedInv
      <3> QED
        BY <1>2, <3>1
    <2> QED
      BY <2>1, <2>2
  <1>4. \A d \in Clients, m \in Layers :
          \/ call'[d][m] = call[d][m]
          \/ /\ Sparing(d, m, call'[d][m], produced)
             /\ m # 1 /\ call'[d][m].st # "idle" => Covered(d, call[d][m].key)'
    <2>1. Sparing(c, l, rec, produced)
      BY DEF Sparing
    <2>2. \A d \in Clients, m \in Layers : d = c /\ m = l => Covered(d, call[d][m].key)'
      BY <1>3 DEF Covered
    <2>3. next # call[c][l + 1] /\ next.st # "idle" => next.key = rec.key /\ next.st = "get"
      BY DEF Idle
    <2>4. next # call[c][l + 1] => Sparing(c, l + 1, next, produced)
      BY DEF Idle, Sparing, SparedInv
    <2>5. \A d \in Clients, m \in Layers :
            d = c /\ m = l + 1 /\ next.key = rec.key => Covered(d, call[d][m].key)'
      BY <1>0, <1>3 DEF Covered
    <2> QED
      BY <1>0, <2>1, <2>2, <2>3, <2>4, <2>5
  <1>5. \A d \in Clients, i, j \in Layers : Asking(d, i)' /\ Asking(d, j)' => i = j
    <2> SUFFICES ASSUME NEW d \in Clients, NEW i \in Layers, NEW j \in Layers,
                        Asking(d, i)', Asking(d, j)', i # j
                 PROVE  FALSE
      OBVIOUS
    <2>1. CASE Asking(d, i) /\ Asking(d, j)
      BY <2>1 DEF SparedInv
    <2>2. CASE ~Asking(d, i) \/ ~Asking(d, j)
      <3>1. d = c /\ next.st = "get" /\ call[c][l].st = "miss" /\ (i = l + 1 \/ j = l + 1)
        BY <2>2 DEF Asking, Idle
      <3>2. i # l /\ j # l
        BY <1>0, <3>1 DEF Asking
      <3>3. PICK m \in {i, j} : m # l /\ m # l + 1 /\ Asking(c, m)'
        BY <3>1, <3>2
      <3>4. Asking(c, m) /\ Asking(c, l)
        BY <3>1, <3>3 DEF Asking
      <3> QED
        BY <3>3, <3>4 DEF SparedInv
    <2> QED
      BY <2>1, <2>2
  <1> QED
    BY <1>1, <1>2, <1>4, <1>5, SparedStep

LEMMA CallNextSpares ==
    ASSUME IInv, SparedInv, NEW c \in Clients, NEW l \in Layers, CallNext(c, l)
    PROVE  SparedInv'
  <1>0. l + 1 \in Layers /\ l # l + 1
    BY CacheAsideAssumption DEF CallNext, Layers, IInv, VersionInv
  <1>1. call[c][l] \in Requests /\ call[c][l].st = "miss" /\ call[c][l].ver = "v1"
    BY DEF CallNext, IInv, CallType, SparedInv
  <1>2. \E rec, next \in Requests :
          /\ rec = [call[c][l] EXCEPT !.st = "wait"]
          /\ next = [call[c][l] EXCEPT !.st = "get"]
    BY <1>1 DEF Requests, States
  <1> PICK rec \in Requests, next \in Requests :
          /\ rec = [call[c][l] EXCEPT !.st = "wait"]
          /\ next = [call[c][l] EXCEPT !.st = "get"]
    BY <1>2
  <1>3. /\ rec.st = "wait" /\ rec.key = call[c][l].key /\ rec.ver = "v1"
        /\ next.st = "get" /\ next.key = call[c][l].key /\ next.ver = "v1"
    BY <1>1 DEF Requests
  <1>4. /\ call' = [call EXCEPT ![c][l].st = "wait", ![c][l + 1] = next]
        /\ UNCHANGED <<produced, cache>>
    BY DEF CallNext
  <1>5. \A d \in Clients, m \in Layers :
          call'[d][m] = IF d = c /\ m = l THEN rec
                        ELSE IF d = c /\ m = l + 1 THEN next ELSE call[d][m]
    BY <1>0, <1>4 DEF IInv, CallType
  <1>6. Pairing(c, l, rec, next)
    BY <1>0, <1>1, <1>3, <1>5 DEF Pairing
  <1> QED
    BY <1>4, <1>6, SparedPair DEF IInv

LEMMA CallReturnsSpares ==
    ASSUME IInv, SparedInv, NEW c \in Clients, NEW l \in Layers, CallReturns(c, l)
    PROVE  SparedInv'
  <1>0. l + 1 \in Layers /\ l # l + 1
    BY CacheAsideAssumption DEF CallReturns, Layers
  <1>1. /\ call[c][l] \in Requests /\ call[c][l].st = "wait" /\ call[c][l].ver = "v1"
        /\ call[c][l + 1] \in Requests /\ call[c][l + 1].val # Nil
    BY <1>0 DEF CallReturns, IInv, CallType, SparedInv
  <1>2. \E rec \in Requests :
          rec = [call[c][l] EXCEPT !.st = "set", !.val = call[c][l + 1].val]
    BY <1>1 DEF Requests, States
  <1> PICK rec \in Requests :
          rec = [call[c][l] EXCEPT !.st = "set", !.val = call[c][l + 1].val]
    BY <1>2
  <1>3. rec.st = "set" /\ rec.key = call[c][l].key /\ rec.ver = "v1" /\ rec.val # Nil
    BY <1>1 DEF Requests
  <1>4. /\ call' = [call EXCEPT ![c][l] = rec, ![c][l + 1] = Idle]
        /\ UNCHANGED <<produced, cache>>
    BY DEF CallReturns
  <1>5. \A d \in Clients, m \in Layers :
          call'[d][m] = IF d = c /\ m = l THEN rec
                        ELSE IF d = c /\ m = l + 1 THEN Idle ELSE call[d][m]
    BY <1>0, <1>4 DEF IInv, CallType
  <1>6. Pairing(c, l, rec, Idle)
    BY <1>0, <1>1, <1>3, <1>5 DEF Pairing
  <1> QED
    BY <1>4, <1>6, SparedPair DEF IInv

LEMMA CallFailsSpares ==
    ASSUME IInv, SparedInv, NEW c \in Clients, NEW l \in Layers, CallFails(c, l)
    PROVE  SparedInv'
  <1>0. l + 1 \in Layers /\ l # l + 1
    BY CacheAsideAssumption DEF CallFails, Layers
  <1> PICK rest \in {call[c][l + 1], Idle} :
        call' = [call EXCEPT ![c][l].st = "set", ![c][l].val = Err, ![c][l + 1] = rest]
    BY DEF CallFails
  <1>1. /\ call[c][l] \in Requests /\ call[c][l].st = "wait" /\ call[c][l].ver = "v1"
        /\ rest \in Requests
    BY <1>0, Values DEF CallFails, IInv, CallType, SparedInv
  <1>2. \E rec \in Requests : rec = [call[c][l] EXCEPT !.st = "set", !.val = Err]
    BY <1>1, Values DEF Requests, States
  <1> PICK rec \in Requests : rec = [call[c][l] EXCEPT !.st = "set", !.val = Err]
    BY <1>2
  <1>3. rec.st = "set" /\ rec.key = call[c][l].key /\ rec.ver = "v1" /\ rec.val = Err
    BY <1>1 DEF Requests
  <1>4. /\ call' = [call EXCEPT ![c] = [call[c] EXCEPT ![l] = rec, ![l + 1] = rest]]
    BY <1>0 DEF IInv, CallType
  <1>6. UNCHANGED <<produced, cache>>
    BY DEF CallFails
  <1>5. \A d \in Clients, m \in Layers :
          call'[d][m] = IF d = c /\ m = l THEN rec
                        ELSE IF d = c /\ m = l + 1 THEN rest ELSE call[d][m]
    BY <1>0, <1>1, <1>4 DEF IInv, CallType
  <1>7. Pairing(c, l, rec, rest)
    BY <1>0, <1>1, <1>3, <1>5, Values DEF Pairing
  <1> QED
    BY <1>6, <1>7, SparedPair DEF IInv

LEMMA NextSteadyInv == IInv /\ SteadyInv /\ [Next]_vars => SteadyInv'
  <1> SUFFICES ASSUME IInv, SteadyInv, [Next]_vars, Steady' PROVE SparedInv'
    BY DEF SteadyInv
  <1>1. Steady /\ SparedInv /\ ~lost'
    BY SteadyBefore DEF SteadyInv, Steady
  <1>2. CASE \E c \in Clients, k \in Keys : Ask(c, k)
    BY <1>1, <1>2, AskSpares
  <1>3. CASE \E c \in Clients, l \in Layers : Handler(c, l)
    <2> PICK c \in Clients, l \in Layers : Handler(c, l)
      BY <1>3
    <2> QED
      BY <1>1, LookupSpares, SynthesiseSpares, CallNextSpares, CallReturnsSpares,
         CallFailsSpares, SetSpares, AbandonedSpares DEF Handler
  <1>4. CASE \E c \in Clients : Answer(c)
    BY <1>1, <1>4, AnswerSpares
  <1>5. CASE Rollout
    BY <1>1, <1>5 DEF Rollout, Steady, Versions
  <1>6. CASE \E l \in Layers, db \in Dbs, k \in Keys : Evict(l, db, k)
    BY <1>1, <1>6 DEF Evict
  <1>7. CASE UNCHANGED vars
    BY <1>1, <1>7 DEF vars, SparedInv, Covered, Asking
  <1> QED
    BY <1>2, <1>3, <1>4, <1>5, <1>6, <1>7 DEF Next

-----------------------------------------------------------------------------
\* The point of the cache-aside handlers of exp_5_2_chain/app.py and
\* exp_5_4_migration/app.py: while no cache loses a key or fails and no
\* version is rolled out, a client's requests for a key reach the backend at
\* most once, for any chain of layers, with failed and orphaned calls, and
\* with any number of clients in between.
THEOREM SparedBackend == Spec => []BackendIsSpared
  <1>1. SteadyInv => BackendIsSpared
    <2> SUFFICES ASSUME SparedInv, NEW c \in Clients, NEW k \in Keys
                 PROVE  produced[c][k] <= 1
      BY DEF SteadyInv, Steady, BackendIsSpared
    <2>1. produced[c][k] \in {0, 1}
      BY DEF SparedInv
    <2> QED
      BY <2>1
  <1>2. Init => IInv /\ SteadyInv
    BY InitIInv, SparedInit
  <1>3. (IInv /\ SteadyInv) /\ [Next]_vars => (IInv /\ SteadyInv)'
    BY NextIInv, NextSteadyInv
  <1> QED
    BY <1>1, <1>2, <1>3, PTL DEF Spec
=============================================================================
