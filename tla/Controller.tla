--------------------------- MODULE Controller ---------------------------
(***************************************************************************)
(* The SentryCache controller (controller/main.py): one watch thread that  *)
(* handles pod events in order, drains a leaving pod before it forgets it, *)
(* and spawns one prefetch thread per pod that becomes Ready.  Around it:  *)
(* the cluster whose events it watches, the per-pod sidecar caches it      *)
(* copies keys between, and the L2 metadata Redis it writes.               *)
(*                                                                         *)
(* A step is one call the code makes on another process (one sidecar or L2 *)
(* round trip, or a few whose interleavings no other process can see).     *)
(***************************************************************************)
EXTENDS HashRing, Sequences

CONSTANTS
    NoPod,             \* the watch thread handles no pod
    Version,           \* Version[p]: the pod's sc-version label
    InitPhase,         \* the cluster and its caches when the controller
    InitCache,         \*   starts
    EnablePrefetch,    \* not --no-prefetch
    EnableMigration,   \* not --no-migration
    Backend,           \* CACHE_BACKEND
    TopN,              \* PREFETCH_TOPN
    RMin,              \* R_MIN
    Threads,           \* bound: prefetch threads alive at once
    Timeouts,          \* bound: do watch requests ever time out?
    MaxEvents,         \* bound: undelivered watch events
    Changes,           \* kinds of cluster and cache change that may happen,
    MaxChanges,        \*   and a bound on how many do
    Faults,            \* kinds of failure that may happen,
    MaxFaults          \*   and a bound on how many do

Phases == {"pending", "booting", "ready", "leaving", "stopping", "gone"}

ASSUME ControllerAssumption ==
    /\ NoPod \notin Pods
    /\ InitPhase \in [Pods -> Phases \ {"gone"}]
    /\ InitCache \in [Pods -> SUBSET Keys]
    /\ EnablePrefetch \in BOOLEAN /\ EnableMigration \in BOOLEAN
    /\ Timeouts \in BOOLEAN
    /\ Backend \in {"redis", "memcached"}
    /\ TopN \in Nat /\ RMin \in Nat /\ MaxEvents \in Nat
    /\ MaxChanges \in Nat /\ MaxFaults \in Nat

VARIABLES
    \* the cluster, and the watch stream from the API server
    phase,       \* what Kubernetes says of each pod
    stream,      \* is a watch request open?
    events,      \* events sent on the stream and not yet handled
    \* the watch thread
    pods,        \* self.pods: "unknown", or the ready flag of the PodInfo
    pc,          \* where the thread is
    leaving,     \* the pod on_pod_terminating was called for
    survivors,   \* _migrate_out's receivers
    snap,        \* keys of the snapshot still to be scored
    mandatory,   \* keys still to be moved, classified mandatory
    optional,    \* keys still to be moved, the others
    unswept,     \* replicas:* hashes the SCAN has still to return
    \* the prefetch threads
    prefetch,    \* locals of each _prefetch_into
    \* the L2 metadata Redis
    l2pods,      \* fields of pods:{deployment}
    l2versions,  \* fields of versions:{deployment}
    sk,          \* sk[k]: fields of replicas:{deployment}:{k}
    \* the sidecars
    cache,       \* cache[p]: keys in p's sidecar
    \* history and bounds
    held,        \* held[p]: keys p's sidecar ever had
    missed,      \* pods whose DELETED event was or will never be delivered
    changes,     \* changes so far
    faults       \* failures so far

cluster  == <<phase, stream, events, missed>>
job      == <<leaving, survivors, snap, mandatory, optional, unswept>>
watcher  == <<pods, pc, job>>
l2       == <<l2pods, l2versions, sk>>
sidecars == <<cache, held>>
vars     == <<cluster, watcher, prefetch, l2, sidecars, changes, faults>>

Arrangements(S, n) ==
    {s \in [1..n -> S] : \A i, j \in 1..n : s[i] = s[j] => i = j}

NoPrefetch == [st |-> "free", target |-> NoPod, source |-> NoPod,
               siblings |-> {}, topn |-> <<>>, next |-> 1, ok |-> 0]

Init ==
    /\ phase = InitPhase /\ stream = FALSE /\ events = <<>>
    /\ pods = [p \in Pods |-> "unknown"] /\ pc = "idle"
    /\ leaving = NoPod /\ survivors = {} /\ snap = {}
    /\ mandatory = {} /\ optional = {} /\ unswept = {}
    /\ prefetch = [t \in Threads |-> NoPrefetch]
    /\ l2pods = {} /\ l2versions = {} /\ sk = [k \in Keys |-> {}]
    /\ cache = InitCache /\ held = InitCache
    /\ missed = {} /\ changes = 0 /\ faults = 0

-----------------------------------------------------------------------------
(* Bounds, and the answers of the processes the controller calls.          *)

Change(kind) ==
    /\ kind \in Changes /\ changes < MaxChanges
    /\ changes' = changes + 1

Fault(kind) ==
    /\ kind \in Faults /\ faults < MaxFaults
    /\ faults' = faults + 1

Gone == {p \in Pods : phase[p] = "gone"}
Known == {p \in Pods : pods[p] # "unknown"}

\* A sidecar answers while its container runs; a pod that is not Ready may
\* or may not have it up yet.
CanAnswer(p) == phase[p] \in {"booting", "ready", "leaving"}

\* The call raises: nobody is there, or it times out (socket_timeout=2).
CallFails(p) ==
    \/ phase[p] \notin {"ready", "leaving"} /\ UNCHANGED faults
    \/ phase[p] \in {"ready", "leaving"} /\ Fault("call")

\* Mutant of Copied: a key missing at the source counts as transferred.
CopiedOrMissing(protocol, source, target, k) ==
    /\ protocol = Backend /\ CanAnswer(source) /\ CanAnswer(target)
    /\ IF k \in cache[source]
       THEN /\ cache' = [cache EXCEPT ![target] = @ \cup {k}]
            /\ held' = [held EXCEPT ![target] = @ \cup {k}]
       ELSE UNCHANGED sidecars

\* One key of transfer_keys (DUMP, RESTORE) or memcached_transfer (get,
\* set), any exception caught; both sidecars must speak the protocol.
Copied(protocol, source, target, k) ==
    /\ protocol = Backend
    /\ k \in cache[source] /\ CanAnswer(source) /\ CanAnswer(target)
    /\ cache' = [cache EXCEPT ![target] = @ \cup {k}]
    /\ held' = [held EXCEPT ![target] = @ \cup {k}]

NotCopied(protocol, source, target, k) ==
    /\ \/ (protocol # Backend \/ k \notin cache[source]) /\ UNCHANGED faults
       \/ CallFails(source)
       \/ CallFails(target)
    /\ UNCHANGED sidecars

-----------------------------------------------------------------------------
(* The cluster, its clients and the watch stream.                          *)

\* p enters a new phase (or is merely updated); the watch, if open, says so.
Announce(p, new) ==
    /\ phase' = [phase EXCEPT ![p] = new]
    /\ IF stream
       THEN /\ Len(events) < MaxEvents
            /\ events' = Append(events, [pod |-> p, phase |-> new])
            /\ UNCHANGED missed
       ELSE /\ missed' = IF new = "gone" THEN missed \cup {p} ELSE missed
            /\ UNCHANGED events
    /\ UNCHANGED stream

Successors(ph) ==
    CASE ph = "pending"  -> {"booting", "gone"}
      [] ph = "booting"  -> {"ready", "stopping"}
      [] ph = "ready"    -> {"leaving"}
      [] ph = "leaving"  -> {"stopping", "gone"}
      [] ph = "stopping" -> {"gone"}
      [] ph = "gone"     -> {}

\* The kubelet and the controllers of the cluster move a pod on; a stopped
\* sidecar's keys are gone.
Lifecycle(p) ==
    /\ \E new \in Successors(phase[p]) :
         /\ Announce(p, new)
         /\ cache' = IF new \in {"stopping", "gone"}
                     THEN [cache EXCEPT ![p] = {}] ELSE cache
    /\ UNCHANGED <<watcher, prefetch, l2, held, changes, faults>>

\* A container of a Ready pod restarts (the sidecar's, with its keys, or
\* another), and the pod is not Ready until it is back.
Flap(p) ==
    /\ phase[p] = "ready" /\ Change("flap")
    /\ Announce(p, "booting")
    /\ cache' \in {cache, [cache EXCEPT ![p] = {}]}
    /\ UNCHANGED <<watcher, prefetch, l2, held, faults>>

\* An update of the pod object that changes nothing modelled here.
Touch(p) ==
    /\ phase[p] \notin {"pending", "gone"} /\ Change("touch")
    /\ stream /\ Announce(p, phase[p])
    /\ UNCHANGED <<watcher, prefetch, l2, sidecars, faults>>

\* The application stores a key in its own sidecar after a miss.
Fill(p, k) ==
    /\ phase[p] = "ready" /\ k \notin cache[p] /\ Change("fill")
    /\ cache' = [cache EXCEPT ![p] = @ \cup {k}]
    /\ held' = [held EXCEPT ![p] = @ \cup {k}]
    /\ UNCHANGED <<cluster, watcher, prefetch, l2, faults>>

\* The sidecar evicts a key, or the application deletes it.
Drop(p, k) ==
    /\ k \in cache[p] /\ Change("drop")
    /\ cache' = [cache EXCEPT ![p] = @ \ {k}]
    /\ UNCHANGED <<cluster, watcher, prefetch, l2, held, faults>>

\* timeout_seconds=60: the API server ends the request.  What it has sent
\* is still read.
StreamTimeout ==
    /\ Timeouts /\ stream /\ stream' = FALSE
    /\ UNCHANGED <<phase, events, missed, watcher, prefetch, l2, sidecars,
                   changes, faults>>

\* Mutant of StreamOpen: the watch resumes where it was, without a relist.
StreamResume ==
    /\ ~stream /\ pc = "idle" /\ events = <<>> /\ stream' = TRUE
    /\ UNCHANGED <<phase, events, missed, watcher, prefetch, l2, sidecars,
                   changes, faults>>

\* The next w.stream(): a request without a resourceVersion, answered with
\* an ADDED event for every pod that exists, in any order.
StreamOpen ==
    /\ ~stream /\ pc = "idle" /\ events = <<>>
    /\ stream' = TRUE
    /\ LET existing == Pods \ Gone IN
       \E s \in Arrangements(existing, Cardinality(existing)) :
         events' = [i \in DOMAIN s |-> [pod |-> s[i], phase |-> phase[s[i]]]]
    /\ UNCHANGED <<phase, missed, watcher, prefetch, l2, sidecars,
                   changes, faults>>

-----------------------------------------------------------------------------
(* The watch thread.                                                       *)

\* Mutant of EndJob: the pod stays in hand.
EndJobKeepsPod ==
    /\ pc' = "idle" /\ survivors' = {} /\ snap' = {} /\ UNCHANGED leaving
    /\ mandatory' = {} /\ optional' = {} /\ unswept' = {}

EndJob ==
    /\ pc' = "idle" /\ leaving' = NoPod /\ survivors' = {} /\ snap' = {}
    /\ mandatory' = {} /\ optional' = {} /\ unswept' = {}

\* An exception reaches watch_pods: the handler is abandoned and the stream
\* with everything still unread in it is dropped.
Interrupted ==
    /\ EndJob
    /\ stream' = FALSE /\ events' = <<>> /\ missed' = missed \cup Gone
    /\ UNCHANGED phase

Observed(ph) ==
    IF ph = "pending" THEN "unknown"          \* no IP yet: not recorded
    ELSE IF ph \in {"ready", "leaving"} THEN "ready" ELSE "notReady"

\* Mutant of Terminating: only DELETED is handled.
OnlyDeleted(ph) == FALSE
Terminating(ph) == ph \in {"leaving", "stopping"}   \* deletion_timestamp

Siblings(p) ==
    {q \in Pods \ {p} : pods[q] = "ready" /\ Version[q] = Version[p]}

\* The spawn at the end of on_pod_event: siblings[0] is the source.
SpawnPrefetch(p, becameReady) ==
    IF EnablePrefetch /\ becameReady /\ Siblings(p) # {}
    THEN \E t \in Threads, source \in Siblings(p) :
           /\ prefetch[t] = NoPrefetch
           /\ prefetch' = [prefetch EXCEPT ![t] =
                [st |-> "settle", target |-> p, source |-> source,
                 siblings |-> Siblings(p), topn |-> <<>>, next |-> 1, ok |-> 0]]
    ELSE UNCHANGED prefetch

\* on_pod_event once its two HSETs are done, and the branch after it to
\* on_pod_terminating.
Registered(p, ph) ==
    /\ l2pods' = l2pods \cup {p} /\ l2versions' = l2versions \cup {p}
    /\ SpawnPrefetch(p, Observed(ph) = "ready" /\ pods[p] # "ready")
    /\ IF Terminating(ph)
       THEN pc' = "terminate" /\ leaving' = p
       ELSE UNCHANGED <<pc, leaving>>
    /\ events' = Tail(events)
    /\ UNCHANGED <<phase, stream, missed, survivors, snap, mandatory,
                   optional, unswept, faults>>

\* One of the HSETs raises.
NotRegistered(p) ==
    /\ Fault("l2") /\ Interrupted
    /\ l2pods' \in {l2pods, l2pods \cup {p}}
    /\ UNCHANGED <<l2versions, prefetch>>

\* Mutant of OnPodEvent: the HSETs come before self.pods.
OnPodEventLate(p, ph) ==
    /\ \/ Registered(p, ph) /\ pods' = [pods EXCEPT ![p] = Observed(ph)]
       \/ NotRegistered(p) /\ UNCHANGED pods
    /\ UNCHANGED <<sk, sidecars, changes>>

\* self.pods is written before the HSETs.
OnPodEvent(p, ph) ==
    /\ pods' = [pods EXCEPT ![p] = Observed(ph)]
    /\ Registered(p, ph) \/ NotRegistered(p)
    /\ UNCHANGED <<sk, sidecars, changes>>

\* The next event of the stream.
HandleEvent ==
    /\ pc = "idle" /\ events # <<>>
    /\ LET p == Head(events).pod
           ph == Head(events).phase
       IN \/ /\ ph = "pending"                \* no IP: on_pod_event returns
             /\ events' = Tail(events)
             /\ UNCHANGED <<phase, stream, missed, watcher, prefetch, l2,
                            sidecars, changes, faults>>
          \/ /\ ph \notin {"pending", "gone"} /\ OnPodEvent(p, ph)
          \/ /\ ph = "gone"                   \* DELETED
             /\ pc' = "terminate" /\ leaving' = p /\ events' = Tail(events)
             /\ UNCHANGED <<phase, stream, missed, pods, survivors, snap,
                            mandatory, optional, unswept, prefetch, l2,
                            sidecars, changes, faults>>

\* Mutant of Receivers: the leaving pod is its own survivor.
ReceiversAll == {q \in Pods : pods[q] = "ready"}
Receivers == {q \in Pods \ {leaving} : pods[q] = "ready"}

\* on_pod_terminating up to _migrate_out's choice of survivors.
OnPodTerminating ==
    /\ pc = "terminate"
    /\ \/ pods[leaving] = "unknown" /\ EndJob
       \/ /\ pods[leaving] # "unknown"
          /\ IF EnableMigration /\ Receivers # {}
             THEN pc' = "snapshot" /\ survivors' = Receivers
             ELSE pc' = "remove" /\ UNCHANGED survivors
          /\ UNCHANGED <<leaving, snap, mandatory, optional, unswept>>
    /\ UNCHANGED <<cluster, pods, prefetch, l2, sidecars, changes, faults>>

\* lfu_snapshot of the leaving pod; if it raises there is no migration.
SnapshotLeaving ==
    /\ pc = "snapshot"
    /\ \/ /\ CanAnswer(leaving) /\ UNCHANGED faults
          /\ snap' = cache[leaving] /\ pc' = "score"
       \/ CallFails(leaving) /\ pc' = "remove" /\ UNCHANGED snap
    /\ UNCHANGED <<cluster, pods, leaving, survivors, mandatory, optional,
                   unswept, prefetch, l2, sidecars, changes>>

\* l2_get_sk of one key, and whether it is short of R_MIN other replicas.
ScoreKey(k) ==
    /\ pc = "score" /\ k \in snap
    /\ \/ /\ snap' = snap \ {k}
          /\ IF Cardinality(sk[k] \ {leaving}) < RMin
             THEN mandatory' = mandatory \cup {k} /\ UNCHANGED optional
             ELSE optional' = optional \cup {k} /\ UNCHANGED mandatory
          /\ UNCHANGED <<cluster, pc, leaving, survivors, unswept, faults>>
       \/ Fault("l2") /\ Interrupted
    /\ UNCHANGED <<pods, prefetch, l2, sidecars, changes>>

StartMoving ==
    /\ pc = "score" /\ snap = {} /\ pc' = "move"
    /\ UNCHANGED <<cluster, pods, job, prefetch, l2, sidecars, changes,
                   faults>>

\* Mutant of NextToMove: the list is not sorted.
NextUnsorted == mandatory \cup optional

\* scored.sort(): every mandatory key before the first optional one.
NextToMove == IF mandatory # {} THEN mandatory ELSE optional

\* The loop goes on to the next key.
Attempted(k) ==
    /\ mandatory' = mandatory \ {k} /\ optional' = optional \ {k}
    /\ UNCHANGED <<cluster, pc, leaving, survivors, snap, unswept>>

\* One turn of the transfer loop.  transfer_keys speaks Redis whatever the
\* backend; after a copy the receiver is added to Sk.
MoveKey(k) ==
    /\ pc = "move" /\ k \in NextToMove
    /\ LET receiver == HashTarget(survivors, k) IN
       \/ /\ NotCopied("redis", leaving, receiver, k)
          /\ Attempted(k) /\ UNCHANGED sk
       \/ /\ Copied("redis", leaving, receiver, k)
          /\ sk' = [sk EXCEPT ![k] = @ \cup {receiver}]
          /\ Attempted(k) /\ UNCHANGED faults
       \/ /\ Copied("redis", leaving, receiver, k)
          /\ Fault("l2") /\ Interrupted /\ UNCHANGED sk
    /\ UNCHANGED <<pods, prefetch, l2pods, l2versions, changes>>

\* The loop ends, or MIGRATE_GRACE_S is over.
StopMoving ==
    /\ pc = "move"
    /\ \/ mandatory \cup optional = {} /\ UNCHANGED faults
       \/ mandatory \cup optional # {} /\ Fault("deadline")
    /\ pc' = "remove"
    /\ UNCHANGED <<cluster, pods, job, prefetch, l2, sidecars, changes>>

\* Mutant of Unregister: versions:{deployment} keeps the pod.
UnregisterPodOnly ==
    /\ pc = "remove" /\ pc' = "sweep" /\ l2pods' = l2pods \ {leaving}
    /\ unswept' = {k \in Keys : sk[k] # {}}
    /\ UNCHANGED <<cluster, pods, leaving, survivors, snap, mandatory, optional,
                   l2versions, prefetch, sk, sidecars, changes, faults>>

\* l2_remove_pod: two HDELs, then the SCAN, which returns every replicas:*
\* hash that is there throughout and may return one that appears meanwhile.
Unregister ==
    /\ pc = "remove"
    /\ \/ /\ l2pods' = l2pods \ {leaving}
          /\ l2versions' = l2versions \ {leaving}
          /\ pc' = "sweep"
          /\ unswept' \in {S \in SUBSET Keys : {k \in Keys : sk[k] # {}} \subseteq S}
          /\ UNCHANGED <<cluster, leaving, survivors, snap, mandatory,
                         optional, faults>>
       \/ /\ Fault("l2") /\ Interrupted
          /\ l2pods' \in {l2pods, l2pods \ {leaving}}
          /\ UNCHANGED l2versions
    /\ UNCHANGED <<pods, prefetch, sk, sidecars, changes>>

SweepKey(k) ==
    /\ pc = "sweep" /\ k \in unswept
    /\ \/ /\ sk' = [sk EXCEPT ![k] = @ \ {leaving}]
          /\ unswept' = unswept \ {k}
          /\ UNCHANGED <<cluster, pc, leaving, survivors, snap, mandatory,
                         optional, faults>>
       \/ Fault("l2") /\ Interrupted /\ UNCHANGED sk
    /\ UNCHANGED <<pods, prefetch, l2pods, l2versions, sidecars, changes>>

\* Mutant of ForgetPod: the pop is missing.
ForgetNothing ==
    /\ pc = "sweep" /\ unswept = {} /\ EndJob
    /\ UNCHANGED <<cluster, pods, prefetch, l2, sidecars, changes, faults>>

\* self.pods.pop, at the end of on_pod_terminating.
ForgetPod ==
    /\ pc = "sweep" /\ unswept = {}
    /\ pods' = [pods EXCEPT ![leaving] = "unknown"]
    /\ EndJob
    /\ UNCHANGED <<cluster, prefetch, l2, sidecars, changes, faults>>

-----------------------------------------------------------------------------
(* A prefetch thread.                                                      *)

Becomes(t, rec) == prefetch' = [prefetch EXCEPT ![t] = rec]
ThreadEnds(t) == Becomes(t, NoPrefetch)

\* The settle delay and up to 60 pings of the target's sidecar.
ProbeTarget(t) ==
    /\ prefetch[t].st = "settle"
    /\ \/ /\ CanAnswer(prefetch[t].target) /\ UNCHANGED faults
          /\ Becomes(t, [prefetch[t] EXCEPT !.st = "snapshot"])
       \/ CallFails(prefetch[t].target) /\ ThreadEnds(t)
    /\ UNCHANGED <<cluster, watcher, l2, sidecars, changes>>

\* Mutant of Filtered: every key of the sibling.
Unfiltered(rec) == cache[rec.source]

\* The keys of the snapshot that hash to the target's slot of the new ring.
Filtered(rec) ==
    {k \in cache[rec.source] :
        HashesTo(rec.siblings \cup {rec.target}, k, rec.target)}

\* topn: the PREFETCH_TOPN best scores in order; scores are data, so any
\* keys in any order.
SnapshotSibling(t) ==
    /\ prefetch[t].st = "snapshot"
    /\ LET rec == prefetch[t]
           n == Cardinality(Filtered(rec))
       IN \/ CallFails(rec.source) /\ ThreadEnds(t)
          \/ /\ CanAnswer(rec.source) /\ UNCHANGED faults
             /\ \E topn \in Arrangements(Filtered(rec),
                                         IF n < TopN THEN n ELSE TopN) :
                  IF topn = <<>> THEN ThreadEnds(t)
                  ELSE Becomes(t, [rec EXCEPT !.st = "copy", !.topn = topn])
    /\ UNCHANGED <<cluster, watcher, l2, sidecars, changes>>

\* Mutant of Advance: ok counts the attempts.
AdvanceCounting(t, ok) ==
    LET rec == prefetch[t] IN
    Becomes(t, IF rec.next < Len(rec.topn)
               THEN [rec EXCEPT !.next = @ + 1, !.ok = @ + 1]
               ELSE [rec EXCEPT !.st = "register", !.next = 1, !.ok = @ + 1])

\* On to the next key, or to the registrations.
Advance(t, ok) ==
    LET rec == prefetch[t] IN
    Becomes(t, IF rec.next < Len(rec.topn)
               THEN [rec EXCEPT !.next = @ + 1, !.ok = ok]
               ELSE [rec EXCEPT !.st = "register", !.next = 1, !.ok = ok])

\* One key of the transfer: `ok' counts the copies, not which they are.
CopyKey(t) ==
    /\ prefetch[t].st = "copy"
    /\ LET rec == prefetch[t]
           k == rec.topn[rec.next]
       IN \/ /\ Copied(Backend, rec.source, rec.target, k) /\ UNCHANGED faults
             /\ Advance(t, rec.ok + 1)
          \/ NotCopied(Backend, rec.source, rec.target, k) /\ Advance(t, rec.ok)
    /\ UNCHANGED <<cluster, watcher, l2, changes>>

\* for k in topn[:ok]: l2_register_key.  An exception ends the thread.
RegisterKey(t) ==
    /\ prefetch[t].st = "register"
    /\ LET rec == prefetch[t] IN
       \/ /\ rec.next <= rec.ok /\ UNCHANGED faults
          /\ sk' = [sk EXCEPT ![rec.topn[rec.next]] = @ \cup {rec.target}]
          /\ Becomes(t, [rec EXCEPT !.next = @ + 1])
       \/ rec.next <= rec.ok /\ Fault("l2") /\ ThreadEnds(t) /\ UNCHANGED sk
       \/ rec.next > rec.ok /\ ThreadEnds(t) /\ UNCHANGED <<sk, faults>>
    /\ UNCHANGED <<cluster, watcher, l2pods, l2versions, sidecars, changes>>

-----------------------------------------------------------------------------
(* Failures of whole processes.                                            *)

\* The API server's connection breaks: watch_pods sleeps and asks again.
WatchError ==
    /\ pc = "idle" /\ stream /\ Fault("watch") /\ Interrupted
    /\ UNCHANGED <<pods, prefetch, l2, sidecars, changes>>

\* The controller's process is restarted; only L2 and the sidecars persist.
Restart ==
    /\ Fault("restart") /\ Interrupted
    /\ pods' = [p \in Pods |-> "unknown"]
    /\ prefetch' = [t \in Threads |-> NoPrefetch]
    /\ UNCHANGED <<l2, sidecars, changes>>

\* L2 runs without persistence: its pod restarts empty.
L2Restart ==
    /\ Fault("l2restart")
    /\ l2pods' = {} /\ l2versions' = {} /\ sk' = [k \in Keys |-> {}]
    /\ UNCHANGED <<cluster, watcher, prefetch, sidecars, changes>>

-----------------------------------------------------------------------------
Cluster ==
    \/ \E p \in Pods : Lifecycle(p) \/ Flap(p) \/ Touch(p)
    \/ \E p \in Pods, k \in Keys : Fill(p, k) \/ Drop(p, k)

WatchThread ==
    \/ HandleEvent \/ OnPodTerminating \/ SnapshotLeaving \/ StartMoving
    \/ StopMoving \/ Unregister \/ ForgetPod
    \/ \E k \in Keys : ScoreKey(k) \/ MoveKey(k) \/ SweepKey(k)

PrefetchThread(t) ==
    ProbeTarget(t) \/ SnapshotSibling(t) \/ CopyKey(t) \/ RegisterKey(t)

Next ==
    \/ Cluster \/ StreamTimeout \/ StreamOpen
    \/ WatchThread \/ \E t \in Threads : PrefetchThread(t)
    \/ WatchError \/ Restart \/ L2Restart

Spec == Init /\ [][Next]_vars

\* Both kinds of thread run, and the watch request ends and is repeated
\* (timeout_seconds=60).  Nothing is assumed of the cluster.
FairSpec ==
    /\ Spec
    /\ WF_vars(WatchThread) /\ WF_vars(StreamTimeout) /\ WF_vars(StreamOpen)
    /\ \A t \in Threads : WF_vars(PrefetchThread(t))

-----------------------------------------------------------------------------
(* Types.                                                                  *)

PCs == {"idle", "terminate", "snapshot", "score", "move", "remove", "sweep"}
Events == [pod : Pods, phase : Phases]

\* A free slot, or the locals of a running _prefetch_into.
Running == [st : {"settle", "snapshot", "copy", "register"},
            target : Pods, source : Pods, siblings : SUBSET Pods,
            topn : Seq(Keys), next : Nat, ok : Nat]
PrefetchLocals == {NoPrefetch} \cup Running

\* Every variable has the shape the code gives it, and the watch thread has
\* a pod in hand exactly while it is inside on_pod_terminating.
TypeOK ==
    /\ phase \in [Pods -> Phases] /\ stream \in BOOLEAN
    /\ events \in Seq(Events)
    /\ pods \in [Pods -> {"unknown", "notReady", "ready"}]
    /\ pc \in PCs
    /\ IF pc = "idle" THEN leaving = NoPod ELSE leaving \in Pods
    /\ survivors \subseteq Pods /\ snap \subseteq Keys
    /\ mandatory \subseteq Keys /\ optional \subseteq Keys
    /\ unswept \subseteq Keys
    /\ prefetch \in [Threads -> PrefetchLocals]
    /\ l2pods \subseteq Pods /\ l2versions \subseteq Pods
    /\ sk \in [Keys -> SUBSET Pods]
    /\ cache \in [Pods -> SUBSET Keys] /\ held \in [Pods -> SUBSET Keys]
    /\ missed \subseteq Pods
    /\ changes \in Nat /\ faults \in Nat

-----------------------------------------------------------------------------
(* The watch and the controller's view.                                    *)

\* A pod that is gone and still in self.pods is about to be handled, or its
\* DELETED fell into a gap of the watch (on_pod_terminating, watch_pods).
GoneIsNoticed ==
    \A p \in Gone \cap Known :
        \/ p \in missed
        \/ leaving = p
        \/ \E i \in DOMAIN events : events[i] = [pod |-> p, phase |-> "gone"]

\* With every event handled and the stream open, self.pods is the cluster:
\* each live pod with its readiness, no terminating pod, and a pod that is
\* gone only if its DELETED was lost.  Holds across failures, since an
\* exception always reopens the stream and the relist repairs the view.
ViewFollowsCluster ==
    stream /\ events = <<>> /\ pc = "idle" =>
        \A p \in Pods :
            \/ p \in missed
            \/ pods[p] = CASE phase[p] = "ready"   -> "ready"
                           [] phase[p] = "booting" -> "notReady"
                           [] OTHER                -> "unknown"

\* pods: and versions: list exactly self.pods between two events, as long
\* as no call failed.
RegistryMatchesView ==
    pc = "idle" /\ faults = 0 => l2pods = Known /\ l2versions = Known

\* Without prefetch, whatever calls fail, L2 never holds a record of a pod
\* the controller has forgotten: it is always still able to remove it.
L2NamesKnownPods ==
    /\ l2pods \cup l2versions \subseteq Known
    /\ \A k \in Keys : sk[k] \subseteq Known

-----------------------------------------------------------------------------
(* The replica sets Sk.                                                    *)

\* main.py:5-6: L2 "records the replica set Sk for each cached key": a pod
\* in Sk(k) has held k.
SkBacked == \A k \in Keys : \A p \in sk[k] : k \in held[p]

\* A key whose Sk names R_MIN other pods is not moved while a key with fewer
\* is still waiting: what the deadline cuts off are the spare copies.
SoleCopiesFirst ==
    [][\A k \in optional \ optional' :
         pc = "move" /\ pc' = "move" =>
           \A j \in mandatory \cup optional :
             Cardinality(sk[j] \ {leaving}) >= RMin]_vars

-----------------------------------------------------------------------------
(* Where the keys land.                                                    *)

\* The pods eval/exp_5_4_migration/loadgen.py routes to.
RouterRing == {p \in Pods : phase[p] = "ready"}

\* When a migration no call failed in ends and nothing else has changed in
\* the cluster, every key the leaving pod still holds is cached where the
\* load generator now looks for it.
MigrationServesRouting ==
    /\ pc = "remove" /\ faults = 0 /\ stream /\ events = <<>> /\ missed = {}
    /\ EnableMigration /\ RouterRing # {}
    => \A k \in cache[leaving] : k \in cache[HashTarget(RouterRing, k)]

\* While the ready pods are those the prefetch was started with, it only
\* copies keys that are routed to its target.
PrefetchAgreesWithRouting ==
    \A t \in Threads :
        LET rec == prefetch[t] IN
        rec.siblings \cup {rec.target} = RouterRing =>
            \A i \in DOMAIN rec.topn :
                HashTarget(RouterRing, rec.topn[i]) = rec.target

-----------------------------------------------------------------------------
(* Liveness, under FairSpec.                                               *)

\* A deleted pod leaves no trace in the controller or in L2, and never comes
\* back, unless the watch missed its DELETED.  Without prefetch only.
Forgotten(p) ==
    /\ pods[p] = "unknown" /\ p \notin l2pods \cup l2versions
    /\ \A k \in Keys : p \notin sk[k]

DeletedPodIsForgotten ==
    \A p \in Pods :
        phase[p] = "gone" ~> [](Forgotten(p) \/ p \in missed)

\* Whatever the controller and L2 went through, a pod that stays Ready ends
\* up, for good, in self.pods and in the L2 registry: the relist every
\* timeout_seconds=60 registers it again.
ReadyPodIsRegistered ==
    \A p \in Pods :
        <>[](phase[p] = "ready") =>
            <>[](pods[p] = "ready" /\ p \in l2pods /\ p \in l2versions)
=============================================================================
