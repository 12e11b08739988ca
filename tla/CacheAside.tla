---------------------------- MODULE CacheAside ----------------------------
(***************************************************************************)
(* The cache-aside services of the evaluation: one handler, get, then on a *)
(* miss produce and set, in a cache-svc (eval/exp_5_4_migration/app.py, on *)
(* memcached in exp_5_2_mc/app.py, in process in mucache_app.py), in every *)
(* layer of a chain (exp_5_2_chain/app.py), and in a timeline service that *)
(* is rolled from v1 to v2 over one shared cache (exp_5_3_rolling/app.py,  *)
(* with the probe that reads it).                                          *)
(***************************************************************************)
EXTENDS Naturals, FiniteSets

CONSTANTS
    Services,     \* [depth, catches, faults]: layers; are cache errors
                  \*   caught; what may happen
    MaxDepth,
    Clients,      \* requests in flight
    Keys, Nil, Err,
    MaxAsks, MaxFaults    \* bounds

Versions == {"v1", "v2"}
Layers == 1..MaxDepth
Dbs == {0, 1}

ASSUME CacheAsideAssumption ==
    /\ MaxDepth \in Nat \ {0} /\ MaxAsks \in Nat /\ MaxFaults \in Nat
    \* The service that is rolled calls no other.
    /\ \A s \in Services : s.depth \in Layers /\ ~({"call", "rollout"} \subseteq s.faults)
    /\ Nil \notin Versions \cup {Err} /\ Err \notin Versions

VARIABLES
    service,     \* the service deployed
    running,     \* versions that have a ready pod
    cache,       \* cache[l][db][k]: the payload's version, Err or Nil
    call,        \* call[c][l]: the handler of c's request in layer l
    seen,        \* the probe's rows: version of the pod, payload, key
    produced,    \* history: produced[c][k]: how often c's requests for k
                 \*   reached the backend
    failed,      \* history: keys for which a call to the next layer failed
    lost,        \* history: a cache lost a key, or failed
    asks, faults \* for the bounds

vars == <<service, running, cache, call, seen, produced, failed, lost, asks, faults>>

Idle == [st |-> "idle", key |-> Nil, ver |-> "v1", val |-> Nil]

Init ==
    /\ service \in Services /\ running = {"v1"}
    /\ cache = [l \in Layers |-> [db \in Dbs |-> [k \in Keys |-> Nil]]]
    /\ call = [c \in Clients |-> [l \in Layers |-> Idle]]
    /\ seen = {} /\ produced = [c \in Clients |-> [k \in Keys |-> 0]]
    /\ failed = {} /\ lost = FALSE /\ asks = 0 /\ faults = 0

Fault(kind) ==
    /\ kind \in service.faults /\ faults < MaxFaults
    /\ faults' = faults + 1

Becomes(c, l, rec) == call' = [call EXCEPT ![c][l] = rec]
Goes(c, l, st, val) == Becomes(c, l, [call[c][l] EXCEPT !.st = st, !.val = val])

\* Mutant of Db: v2 shares v1's, as in the stock condition.
DbShared(ver) == 0

\* REDIS_DB: run_trial.sh gives v2 a DB of its own in the sentrycache
\* condition.
Db(ver) == IF ver = "v2" THEN 1 ELSE 0

-----------------------------------------------------------------------------
\* The Service hands the request to a ready pod.
Ask(c, k) ==
    /\ asks < MaxAsks /\ asks' = asks + 1
    /\ \A l \in Layers : call[c][l] = Idle
    /\ \E v \in running :
         Becomes(c, 1, [Idle EXCEPT !.st = "get", !.key = k, !.ver = v])
    /\ UNCHANGED <<service, running, cache, seen, produced, failed, lost, faults>>

\* Mutants of Lookup: a cache error is the end of the thread; or is taken
\* for a value.
LookupDies(c, l) ==
    /\ call[c][l].st = "get"
    /\ \/ /\ UNCHANGED <<lost, faults>>
          /\ LET cached == cache[l][Db(call[c][l].ver)][call[c][l].key] IN
             IF cached # Nil THEN Goes(c, l, "answer", cached)
             ELSE Goes(c, l, "miss", Nil)
       \/ Fault("cache") /\ lost' = TRUE /\ Goes(c, l, "dead", Nil)
    /\ UNCHANGED <<service, running, cache, seen, produced, failed, asks>>
LookupErr(c, l) ==
    /\ call[c][l].st = "get"
    /\ \/ /\ UNCHANGED <<lost, faults>>
          /\ LET cached == cache[l][Db(call[c][l].ver)][call[c][l].key] IN
             IF cached # Nil THEN Goes(c, l, "answer", cached)
             ELSE Goes(c, l, "miss", Nil)
       \/ Fault("cache") /\ lost' = TRUE /\ Goes(c, l, "answer", Err)
    /\ UNCHANGED <<service, running, cache, seen, produced, failed, asks>>

\* r.get.  A cache error is a miss where it is caught, and an error page
\* where it is not.
Lookup(c, l) ==
    /\ call[c][l].st = "get"
    /\ \/ /\ UNCHANGED <<lost, faults>>
          /\ LET cached == cache[l][Db(call[c][l].ver)][call[c][l].key] IN
             IF cached # Nil THEN Goes(c, l, "answer", cached)
             ELSE Goes(c, l, "miss", Nil)
       \/ /\ Fault("cache") /\ lost' = TRUE
          /\ IF service.catches THEN Goes(c, l, "miss", Nil) ELSE Goes(c, l, "answer", Nil)
    /\ UNCHANGED <<service, running, cache, seen, produced, failed, asks>>

\* The last layer asks the backend: the payload has the schema of its code.
Synthesise(c, l) ==
    /\ call[c][l].st = "miss" /\ l = service.depth
    /\ Goes(c, l, "set", call[c][l].ver)
    /\ produced' = [produced EXCEPT ![c][call[c][l].key] = @ + 1]
    /\ UNCHANGED <<service, running, cache, seen, failed, lost, asks, faults>>

\* call_next: the request to the next layer.  (A pod that gave up a call
\* may have left the next layer busy with it; then this one waits for it.)
CallNext(c, l) ==
    /\ call[c][l].st = "miss" /\ l < service.depth /\ call[c][l + 1] = Idle
    /\ call' = [call EXCEPT ![c][l].st = "wait",
                            ![c][l + 1] = [call[c][l] EXCEPT !.st = "get"]]
    /\ UNCHANGED <<service, running, cache, seen, produced, failed, lost, asks, faults>>

CallReturns(c, l) ==
    /\ l < MaxDepth /\ call[c][l].st = "wait" /\ call[c][l + 1].st = "answer"
    /\ call' = [call EXCEPT ![c][l].st = "set", ![c][l].val = call[c][l + 1].val,
                            ![c][l + 1] = Idle]
    /\ UNCHANGED <<service, running, cache, seen, produced, failed, lost, asks, faults>>

\* An exception, or the 4 s are over: b"", for which err_k is put.  The next
\* layer may go on with the call, or have ended with its pod.
CallFails(c, l) ==
    /\ l < MaxDepth /\ call[c][l].st = "wait" /\ Fault("call")
    /\ failed' = failed \cup {call[c][l].key}
    /\ \E rest \in {call[c][l + 1], Idle} :
         call' = [call EXCEPT ![c][l].st = "set", ![c][l].val = Err, ![c][l + 1] = rest]
    /\ UNCHANGED <<service, running, cache, seen, produced, lost, asks>>

\* Mutant of Set: the value is not kept.
SetNothing(c, l) ==
    /\ call[c][l].st = "set" /\ Goes(c, l, "answer", call[c][l].val)
    /\ UNCHANGED <<service, running, cache, seen, produced, failed, lost, asks, faults>>

\* r.set, r.setex.
Set(c, l) ==
    LET req == call[c][l] IN
    /\ req.st = "set"
    /\ \/ /\ cache' = [cache EXCEPT ![l][Db(req.ver)][req.key] = req.val]
          /\ Goes(c, l, "answer", req.val) /\ UNCHANGED <<lost, faults>>
       \/ /\ Fault("cache") /\ lost' = TRUE /\ UNCHANGED cache
          /\ Goes(c, l, "answer", IF service.catches THEN req.val ELSE Nil)
    /\ UNCHANGED <<service, running, seen, produced, failed, asks>>

\* The response of the first layer, as the probe takes it down.
Answer(c) ==
    LET req == call[c][1] IN
    /\ req.st = "answer" /\ Becomes(c, 1, Idle)
    /\ seen' = seen \cup {<<req.ver, req.val, req.key>>}
    /\ UNCHANGED <<service, running, cache, produced, failed, lost, asks, faults>>

\* An answer that nobody waits for any more.
Abandoned(c, l) ==
    /\ l > 1 /\ call[c][l].st = "answer" /\ call[c][l - 1].st # "wait"
    /\ Becomes(c, l, Idle)
    /\ UNCHANGED <<service, running, cache, seen, produced, failed, lost, asks, faults>>

-----------------------------------------------------------------------------
\* maxSurge 1, maxUnavailable 0: v2 comes before v1 goes; requests that v1
\* has in hand are finished in its grace period.
Rollout ==
    /\ "rollout" \in service.faults
    /\ \/ running = {"v1"} /\ running' = Versions
       \/ running = Versions /\ running' = {"v2"}
    /\ UNCHANGED <<service, cache, call, seen, produced, failed, lost, asks, faults>>

\* The cache evicts a key, or it expires.
Evict(l, db, k) ==
    /\ cache[l][db][k] # Nil /\ Fault("evict") /\ lost' = TRUE
    /\ cache' = [cache EXCEPT ![l][db][k] = Nil]
    /\ UNCHANGED <<service, running, call, seen, produced, failed, asks>>

-----------------------------------------------------------------------------
Handler(c, l) ==
    \/ Lookup(c, l) \/ Synthesise(c, l) \/ CallNext(c, l) \/ CallReturns(c, l)
    \/ CallFails(c, l) \/ Set(c, l) \/ Abandoned(c, l)

Next ==
    \/ \E c \in Clients, k \in Keys : Ask(c, k)
    \/ \E c \in Clients, l \in Layers : Handler(c, l)
    \/ \E c \in Clients : Answer(c)
    \/ Rollout
    \/ \E l \in Layers, db \in Dbs, k \in Keys : Evict(l, db, k)

Spec == Init /\ [][Next]_vars

\* The threads of the services run.
FairSpec ==
    /\ Spec
    /\ \A c \in Clients : WF_vars(Answer(c))
    /\ \A c \in Clients, l \in Layers : WF_vars(Handler(c, l))

-----------------------------------------------------------------------------
\* The class of a row of the probe.  An error page names no version.
Class(row) ==
    CASE row[2] = Nil -> "unknown"
      [] row[2] # Nil /\ row[1] = "v1" -> "v1"
      [] row[1] = "v2" /\ row[2] = "v2" -> "fresh-v2"
      [] row[1] = "v2" /\ row[2] \notin {"v2", Nil} -> "stale-v2"

\* exp_5_3_rolling/app.py:16-18: with a DB of its own, v2 never answers
\* with a payload of v1, however the rollout and the requests meet.
NoStaleReads ==
    \A row \in seen : Class(row) # "stale-v2"

\* exp_5_2_chain/app.py:44-53: an error is answered only for a key whose
\* call has failed once; (and then it may be answered for ever: err_k is
\* cached in every layer above the failure).
ErrorsHaveACause == \A row \in seen : row[2] = Err => row[3] \in failed

\* Cache-aside pays: while the caches keep what they are given, no client
\* makes the backend produce a key twice.
BackendIsSpared ==
    ~lost /\ running = {"v1"} => \A c \in Clients, k \in Keys : produced[c][k] <= 1

\* Every request is answered, by v1 or v2, with the payload or an error.
RequestsEnd == \A c \in Clients : call[c][1] # Idle ~> call[c][1] = Idle
=============================================================================
