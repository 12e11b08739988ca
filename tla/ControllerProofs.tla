------------------------ MODULE ControllerProofs ------------------------
(* Theorems about Controller for every deployment, backend and bound, and *)
(* about the ring it places keys on: every key has exactly one owner in a *)
(* ring of any size.                                                      *)
EXTENDS Controller, FiniteSetTheorems, SequenceTheorems, TLAPS

LEMMA RingFinite ==
    ASSUME NEW ring \in SUBSET Pods
    PROVE  IsFiniteSet(ring) /\ Cardinality(ring) \in Nat
BY RingAssumption, FS_Subset, FS_CardinalityType

\* The positions of a ring's pods are 0 .. |ring| - 1: RingIndex is the
\* index ring.index() finds in the sorted list of IPs (main.py:330-331).
LEMMA RingIndexRange ==
    ASSUME NEW ring \in SUBSET Pods, NEW p \in ring
    PROVE  RingIndex(ring, p) \in 0 .. (Cardinality(ring) - 1)
<1> DEFINE below == {q \in ring : Ip[q] < Ip[p]}
<1>1. IsFiniteSet(ring) /\ Cardinality(ring) \in Nat
  BY RingFinite
<1>2. p \notin below
  BY RingAssumption
<1>3. below \in SUBSET ring /\ IsFiniteSet(below) /\ Cardinality(below) \in Nat
  BY <1>1, FS_Subset, FS_CardinalityType
<1>4. Cardinality(below) <= Cardinality(ring)
  BY <1>1, <1>3, FS_Subset
<1>5. Cardinality(below) # Cardinality(ring)
  BY <1>1, <1>2, <1>3, FS_Subset
<1> QED
  BY <1>1, <1>3, <1>4, <1>5 DEF RingIndex

\* No two pods of a ring share a position.
LEMMA RingIndexInjective ==
    ASSUME NEW ring \in SUBSET Pods, NEW p \in ring, NEW q \in ring, p # q
    PROVE  RingIndex(ring, p) # RingIndex(ring, q)
<1>1. \A s, t \in ring : Ip[s] < Ip[t] => RingIndex(ring, s) # RingIndex(ring, t)
  <2> SUFFICES ASSUME NEW s \in ring, NEW t \in ring, Ip[s] < Ip[t]
               PROVE  RingIndex(ring, s) # RingIndex(ring, t)
    OBVIOUS
  <2> DEFINE belowS == {r \in ring : Ip[r] < Ip[s]}
             belowT == {r \in ring : Ip[r] < Ip[t]}
  <2>1. belowS \in SUBSET belowT
    BY RingAssumption
  <2>2. s \in belowT /\ s \notin belowS
    BY RingAssumption
  <2>3. IsFiniteSet(belowT)
    BY RingFinite, FS_Subset
  <2>4. Cardinality(belowT) # Cardinality(belowS)
    BY <2>1, <2>2, <2>3, FS_Subset
  <2> QED
    BY <2>4 DEF RingIndex
<1>2. Ip[p] < Ip[q] \/ Ip[q] < Ip[p]
  BY RingAssumption
<1> QED
  BY <1>1, <1>2

\* In every non-empty ring every key hashes to exactly one pod, so
\* survivors[h % len(survivors)] (main.py:432), the prefetch filter
\* hash_idx(k) == new_idx (main.py:374) and the load generator's
\* pod_ips[h % len(pod_ips)] never disagree about the same ring.
THEOREM EveryKeyHasOneOwner ==
    ASSUME NEW ring \in SUBSET Pods, ring # {}, NEW k \in Keys
    PROVE  /\ HashTarget(ring, k) \in ring
           /\ \A p \in ring : HashesTo(ring, k, p) <=> p = HashTarget(ring, k)
<1> DEFINE n == Cardinality(ring)
           f == [p \in ring |-> RingIndex(ring, p)]
<1>1. IsFiniteSet(ring) /\ n \in Nat /\ n # 0
  BY RingFinite, FS_EmptySet
<1>2. Slot(ring, k) \in 0 .. (n - 1)
  <2>1. Hash[k] \in Nat
    BY RingAssumption
  <2>2. Hash[k] % n \in 0 .. (n - 1)
    BY <1>1, <2>1
  <2> QED
    BY <2>2 DEF Slot
<1>3. f \in Injection(ring, 0 .. (n - 1))
  <2>1. f \in [ring -> 0 .. (n - 1)]
    BY RingIndexRange
  <2>2. \A p, q \in ring : f[p] = f[q] => p = q
    BY RingIndexInjective
  <2> QED
    BY <2>1, <2>2 DEF Injection, IsInjective
<1>4. IsFiniteSet(0 .. (n - 1)) /\ Cardinality(0 .. (n - 1)) = n
  BY <1>1, FS_Interval
<1>5. f \in Surjection(ring, 0 .. (n - 1))
  BY <1>3, <1>4, FS_Injection
<1>6. PICK p \in ring : f[p] = Slot(ring, k)
  BY <1>2, <1>5 DEF Surjection
<1>7. HashTarget(ring, k) \in ring /\ HashesTo(ring, k, HashTarget(ring, k))
  BY <1>6 DEF HashTarget, HashesTo
<1>8. \A q \in ring : HashesTo(ring, k, q) => q = HashTarget(ring, k)
  BY <1>7, RingIndexInjective DEF HashesTo
<1> QED
  BY <1>7, <1>8

-----------------------------------------------------------------------------

\* A migration that has chosen survivors has at least one.
TypeInv ==
    /\ TypeOK
    /\ pc \in {"snapshot", "score", "move"} => survivors # {}

USE ControllerAssumption, RingAssumption

LEMMA NoPrefetchType == NoPrefetch \in PrefetchLocals
BY DEF PrefetchLocals

LEMMA ArrangementType ==
    ASSUME NEW S, NEW n \in Nat, NEW s \in Arrangements(S, n)
    PROVE  s \in Seq(S) /\ Len(s) = n /\ s \in [1..n -> S]
BY DEF Arrangements

LEMMA TypeInit == Init => TypeInv
<1> SUFFICES ASSUME Init PROVE TypeInv
  OBVIOUS
<1>1. prefetch \in [Threads -> PrefetchLocals]
  BY NoPrefetchType DEF Init
<1>2. events \in Seq(Events)
  BY DEF Init
<1> QED
  BY <1>1, <1>2 DEF Init, TypeInv, TypeOK, PCs, Phases

\* The parts of TypeOK an announcement touches.
LEMMA AnnounceType ==
    ASSUME TypeOK, NEW p \in Pods, NEW new \in Phases, Announce(p, new)
    PROVE  /\ phase' \in [Pods -> Phases] /\ stream' \in BOOLEAN
           /\ events' \in Seq(Events) /\ missed' \subseteq Pods
<1> DEFINE e == [pod |-> p, phase |-> new]
<1>1. e \in Events /\ events \in Seq(Events)
  BY DEF Events, TypeOK
<1>2. events' \in Seq(Events)
  <2>1. Append(events, e) \in Seq(Events)
    BY <1>1, AppendProperties
  <2>2. events' = Append(events, e) \/ events' = events
    BY DEF Announce
  <2> QED
    BY <1>1, <2>1, <2>2
<1> QED
  BY <1>2 DEF TypeOK, Announce

\* The parts of TypeOK an abandoned handler touches.
LEMMA InterruptedType ==
    ASSUME TypeOK, Interrupted
    PROVE  /\ phase' \in [Pods -> Phases] /\ stream' \in BOOLEAN
           /\ events' \in Seq(Events) /\ missed' \subseteq Pods
           /\ pc' = "idle" /\ leaving' = NoPod
           /\ survivors' \subseteq Pods /\ snap' \subseteq Keys
           /\ mandatory' \subseteq Keys /\ optional' \subseteq Keys
           /\ unswept' \subseteq Keys
<1>1. events' \in Seq(Events)
  BY DEF Interrupted
<1>2. phase' = phase /\ missed' = missed \cup Gone /\ stream' = FALSE
  BY DEF Interrupted
<1> QED
  BY <1>1, <1>2 DEF TypeOK, Interrupted, EndJob, Gone

LEMMA FaultType ==
    ASSUME TypeOK
    PROVE  /\ \A kind : Fault(kind) => faults' \in Nat
           /\ \A kind : Change(kind) => changes' \in Nat
           /\ \A p : CallFails(p) => faults' \in Nat
BY DEF TypeOK, Fault, Change, CallFails

LEMMA HeadType ==
    ASSUME TypeOK, events # <<>>
    PROVE  /\ Head(events) \in Events /\ Tail(events) \in Seq(Events)
           /\ Head(events).pod \in Pods /\ Head(events).phase \in Phases
<1>1. Head(events) \in Events /\ Tail(events) \in Seq(Events)
  BY HeadTailProperties DEF TypeOK
<1> QED
  BY <1>1 DEF Events

\* What _migrate_out and transfer_keys do to the sidecars keeps their type.
LEMMA CopiedType ==
    ASSUME TypeOK, NEW protocol, NEW source, NEW target \in Pods,
           NEW k \in Keys, Copied(protocol, source, target, k)
    PROVE  cache' \in [Pods -> SUBSET Keys] /\ held' \in [Pods -> SUBSET Keys]
BY DEF TypeOK, Copied

\* The receiver of every key is one of the survivors.
LEMMA ReceiverIsSurvivor ==
    ASSUME TypeInv, pc = "move", NEW k \in Keys
    PROVE  HashTarget(survivors, k) \in survivors
BY EveryKeyHasOneOwner DEF TypeInv, TypeOK

LEMMA BecomesType ==
    ASSUME TypeOK, NEW t \in Threads, NEW rec \in PrefetchLocals, Becomes(t, rec)
    PROVE  prefetch' \in [Threads -> PrefetchLocals]
BY DEF TypeOK, Becomes

LEMMA RunningType ==
    ASSUME TypeOK, NEW t \in Threads, prefetch[t].st # "free"
    PROVE  prefetch[t] \in Running
<1>1. prefetch[t] \in {NoPrefetch} \cup Running
  BY DEF TypeOK, PrefetchLocals, Running
<1>2. NoPrefetch.st = "free"
  BY DEF NoPrefetch
<1> QED
  BY <1>1, <1>2

LEMMA RunningIsLocals == Running \subseteq PrefetchLocals
BY DEF Running, PrefetchLocals

LEMMA NewThreadType ==
    ASSUME NEW p \in Pods, NEW source \in Pods, NEW siblings \in SUBSET Pods
    PROVE  [st |-> "settle", target |-> p, source |-> source,
            siblings |-> siblings, topn |-> <<>>, next |-> 1, ok |-> 0]
           \in Running
<1>1. <<>> \in Seq(Keys)
  BY EmptySeq
<1>2. \A empty \in Seq(Keys) :
        [st |-> "settle", target |-> p, source |-> source,
         siblings |-> siblings, topn |-> empty, next |-> 1, ok |-> 0]
        \in Running
  BY DEF Running
<1> QED
  BY <1>1, <1>2

\* The updates a thread makes to its locals.
LEMMA RunningUpdate ==
    ASSUME NEW rec \in Running, NEW ok \in Nat
    PROVE  /\ [rec EXCEPT !.next = @ + 1] \in Running
           /\ [rec EXCEPT !.next = @ + 1, !.ok = ok] \in Running
           /\ [rec EXCEPT !.st = "register", !.next = 1, !.ok = ok] \in Running
<1>1. rec.next + 1 \in Nat
  BY DEF Running
<1>2. [rec EXCEPT !.next = @ + 1] \in Running
  BY <1>1 DEF Running
<1>3. [rec EXCEPT !.next = @ + 1, !.ok = ok] \in Running
  BY <1>1 DEF Running
<1>4. [rec EXCEPT !.st = "register", !.next = 1, !.ok = ok] \in Running
  BY DEF Running
<1> QED
  BY <1>2, <1>3, <1>4

LEMMA AddReplicaType ==
    ASSUME TypeOK, NEW k, NEW p \in Pods, sk' = [sk EXCEPT ![k] = @ \cup {p}]
    PROVE  sk' \in [Keys -> SUBSET Pods]
<1>1. CASE k \in Keys
  BY <1>1 DEF TypeOK
<1>2. CASE k \notin Keys
  BY <1>2 DEF TypeOK
<1> QED
  BY <1>1, <1>2

LEMMA SpawnType ==
    ASSUME TypeOK, NEW p \in Pods, NEW became \in BOOLEAN,
           SpawnPrefetch(p, became)
    PROVE  prefetch' \in [Threads -> PrefetchLocals]
<1>1. Siblings(p) \in SUBSET Pods
  BY DEF Siblings
<1>2. \A source \in Siblings(p) :
        [st |-> "settle", target |-> p, source |-> source,
         siblings |-> Siblings(p), topn |-> <<>>, next |-> 1, ok |-> 0]
        \in PrefetchLocals
  BY <1>1, NewThreadType, RunningIsLocals
<1>3. prefetch \in [Threads -> PrefetchLocals]
  BY DEF TypeOK
<1> QED
  BY <1>2, <1>3 DEF SpawnPrefetch

LEMMA TypeStep == TypeInv /\ [Next]_vars => TypeInv'
<1> SUFFICES ASSUME TypeInv, [Next]_vars PROVE TypeInv'
  OBVIOUS
<1> USE DEF TypeInv, TypeOK, PCs, Phases, cluster, job, watcher, l2, sidecars
<1>1. ASSUME NEW p \in Pods, Lifecycle(p) PROVE TypeInv'
  <2>1. PICK new \in Successors(phase[p]) : Announce(p, new)
    BY <1>1 DEF Lifecycle
  <2>2. new \in Phases
    BY <2>1 DEF Successors
  <2> QED
    BY <1>1, <2>1, <2>2, AnnounceType DEF Lifecycle
<1>2. ASSUME NEW p \in Pods, Flap(p) PROVE TypeInv'
  BY <1>2, AnnounceType, FaultType DEF Flap
<1>3. ASSUME NEW p \in Pods, Touch(p) PROVE TypeInv'
  <2>1. phase[p] \in Phases /\ Announce(p, phase[p]) /\ Change("touch")
    BY <1>3 DEF Touch
  <2> QED
    BY <1>3, <2>1, AnnounceType, FaultType DEF Touch
<1>4. ASSUME NEW p \in Pods, NEW k \in Keys, Fill(p, k) PROVE TypeInv'
  BY <1>4 DEF Fill, Change
<1>5. ASSUME NEW p \in Pods, NEW k \in Keys, Drop(p, k) PROVE TypeInv'
  BY <1>5 DEF Drop, Change
<1>6. CASE StreamTimeout
  BY <1>6 DEF StreamTimeout
<1>7. CASE StreamOpen
  <2>1. events' \in Seq(Events)
    <3> DEFINE existing == Pods \ Gone
               n == Cardinality(existing)
    <3>1. n \in Nat
      BY RingFinite
    <3>2. PICK s \in Arrangements(existing, n) :
            events' = [i \in DOMAIN s |-> [pod |-> s[i], phase |-> phase[s[i]]]]
      BY <1>7 DEF StreamOpen
    <3>3. s \in [1..n -> existing]
      BY <3>2 DEF Arrangements
    <3>4. \A i \in 1..n : [pod |-> s[i], phase |-> phase[s[i]]] \in Events
      BY <3>3 DEF Events
    <3>5. events' \in [1..n -> Events]
      BY <3>2, <3>3, <3>4
    <3> HIDE DEF n
    <3> QED
      BY <3>1, <3>5, SeqDef
  <2> QED
    BY <1>7, <2>1 DEF StreamOpen
<1>8. CASE HandleEvent
  <2> DEFINE p == Head(events).pod
             ph == Head(events).phase
  <2>1. pc = "idle" /\ events # <<>>
    BY <1>8 DEF HandleEvent
  <2>2. p \in Pods /\ ph \in Phases /\ Tail(events) \in Seq(Events)
    BY <2>1, HeadType
  <2>3. CASE OnPodEvent(p, ph) /\ ph \notin {"pending", "gone"}
    <3>1. /\ pods' = [pods EXCEPT ![p] = Observed(ph)]
          /\ UNCHANGED <<sk, sidecars, changes>>
      BY <2>3 DEF OnPodEvent
    <3>2. pods' \in [Pods -> {"unknown", "notReady", "ready"}]
      BY <2>2, <3>1 DEF Observed
    <3>3. CASE Registered(p, ph)
      <4>1. prefetch' \in [Threads -> PrefetchLocals]
        BY <2>2, <3>3, SpawnType DEF Registered
      <4> QED
        BY <2>1, <2>2, <3>1, <3>2, <3>3, <4>1 DEF Registered
    <3>4. CASE NotRegistered(p)
      BY <2>2, <3>1, <3>2, <3>4, InterruptedType, FaultType DEF NotRegistered
    <3> QED
      BY <2>3, <3>3, <3>4 DEF OnPodEvent
  <2>4. CASE /\ ph = "pending" /\ events' = Tail(events)
             /\ UNCHANGED <<phase, stream, missed, watcher, prefetch, l2,
                            sidecars, changes, faults>>
    BY <2>1, <2>2, <2>4
  <2>5. CASE /\ ph = "gone" /\ pc' = "terminate" /\ leaving' = p
             /\ events' = Tail(events)
             /\ UNCHANGED <<phase, stream, missed, pods, survivors, snap,
                            mandatory, optional, unswept, prefetch, l2,
                            sidecars, changes, faults>>
    BY <2>1, <2>2, <2>5
  <2> QED
    BY <1>8, <2>3, <2>4, <2>5 DEF HandleEvent
<1>9. CASE OnPodTerminating
  BY <1>9 DEF OnPodTerminating, Receivers, EndJob
<1>10. CASE SnapshotLeaving
  BY <1>10 DEF SnapshotLeaving, CallFails, Fault
<1>11. ASSUME NEW k \in Keys, ScoreKey(k) PROVE TypeInv'
  BY <1>11, InterruptedType, FaultType DEF ScoreKey
<1>12. CASE StartMoving
  BY <1>12 DEF StartMoving
<1>13. ASSUME NEW k \in Keys, MoveKey(k) PROVE TypeInv'
  <2> DEFINE receiver == HashTarget(survivors, k)
  <2>1. receiver \in Pods
    BY <1>13, ReceiverIsSurvivor DEF MoveKey
  <2>2. UNCHANGED <<pods, prefetch, l2pods, l2versions, changes>>
    BY <1>13 DEF MoveKey
  <2>3. CASE NotCopied("redis", leaving, receiver, k) /\ Attempted(k) /\ UNCHANGED sk
    <3>1. faults' \in Nat /\ UNCHANGED sidecars
      BY <2>3, FaultType DEF NotCopied
    <3> QED
      BY <2>2, <2>3, <3>1 DEF Attempted
  <2>4. CASE /\ Copied("redis", leaving, receiver, k)
             /\ sk' = [sk EXCEPT ![k] = @ \cup {receiver}]
             /\ Attempted(k) /\ UNCHANGED faults
    <3>1. cache' \in [Pods -> SUBSET Keys] /\ held' \in [Pods -> SUBSET Keys]
      BY <2>1, <2>4, CopiedType
    <3> QED
      BY <2>1, <2>2, <2>4, <3>1 DEF Attempted
  <2>5. CASE /\ Copied("redis", leaving, receiver, k)
             /\ Fault("l2") /\ Interrupted /\ UNCHANGED sk
    <3>1. cache' \in [Pods -> SUBSET Keys] /\ held' \in [Pods -> SUBSET Keys]
      BY <2>1, <2>5, CopiedType
    <3> QED
      BY <2>2, <2>5, <3>1, InterruptedType, FaultType
  <2> QED
    BY <1>13, <2>3, <2>4, <2>5 DEF MoveKey
<1>14. CASE StopMoving
  BY <1>14 DEF StopMoving, Fault
<1>15. CASE Unregister
  BY <1>15, InterruptedType, FaultType DEF Unregister
<1>16. ASSUME NEW k \in Keys, SweepKey(k) PROVE TypeInv'
  <2>1. CASE sk' = [sk EXCEPT ![k] = @ \ {leaving}]
    BY <1>16, <2>1, InterruptedType, FaultType DEF SweepKey
  <2>2. CASE Fault("l2") /\ Interrupted /\ UNCHANGED sk
    BY <1>16, <2>2, InterruptedType, FaultType DEF SweepKey
  <2> QED
    BY <1>16, <2>1, <2>2 DEF SweepKey
<1>17. CASE ForgetPod
  BY <1>17 DEF ForgetPod, EndJob
<1>18. ASSUME NEW t \in Threads, ProbeTarget(t) PROVE TypeInv'
  <2>1. prefetch[t] \in Running
    BY <1>18, RunningType DEF ProbeTarget
  <2>2. prefetch' \in [Threads -> PrefetchLocals]
    <3>1. [prefetch[t] EXCEPT !.st = "snapshot"] \in PrefetchLocals
      BY <2>1, RunningIsLocals DEF Running
    <3> QED
      BY <1>18, <3>1, BecomesType, NoPrefetchType DEF ProbeTarget, ThreadEnds
  <2> QED
    BY <1>18, <2>2, FaultType DEF ProbeTarget
<1>19. ASSUME NEW t \in Threads, SnapshotSibling(t) PROVE TypeInv'
  <2> DEFINE rec == prefetch[t]
             n == Cardinality(Filtered(rec))
             m == IF n < TopN THEN n ELSE TopN
  <2>1. rec \in Running
    BY <1>19, RunningType DEF SnapshotSibling
  <2>2. Filtered(rec) \subseteq Keys /\ m \in Nat
    <3>1. Filtered(rec) \subseteq Keys
      BY <2>1 DEF Filtered, Running
    <3> QED
      BY <3>1, FS_Subset, FS_CardinalityType
  <2>3. \A topn \in Arrangements(Filtered(rec), m) :
          [rec EXCEPT !.st = "copy", !.topn = topn] \in PrefetchLocals
    <3>1. \A topn \in Arrangements(Filtered(rec), m) : topn \in Seq(Keys)
      BY <2>2, ArrangementType, SeqMonotonic
    <3> QED
      BY <2>1, <3>1, RunningIsLocals DEF Running
  <2>4. prefetch' \in [Threads -> PrefetchLocals]
    BY <1>19, <2>3, BecomesType, NoPrefetchType DEF SnapshotSibling, ThreadEnds
  <2>5. faults' \in Nat
    BY <1>19, FaultType DEF SnapshotSibling
  <2> QED
    BY <1>19, <2>4, <2>5 DEF SnapshotSibling
<1>20. ASSUME NEW t \in Threads, CopyKey(t) PROVE TypeInv'
  <2> DEFINE rec == prefetch[t]
             k == rec.topn[rec.next]
             after(ok) == IF rec.next < Len(rec.topn)
                          THEN [rec EXCEPT !.next = @ + 1, !.ok = ok]
                          ELSE [rec EXCEPT !.st = "register", !.next = 1, !.ok = ok]
  <2>1. rec \in Running
    BY <1>20, RunningType DEF CopyKey
  <2>2. \A ok \in Nat : after(ok) \in PrefetchLocals
    <3> TAKE ok \in Nat
    <3> HIDE DEF rec
    <3> QED
      BY <2>1, RunningUpdate, RunningIsLocals
  <2>3. CASE /\ Copied(Backend, rec.source, rec.target, k) /\ UNCHANGED faults
             /\ Advance(t, rec.ok + 1)
    <3>1. k \in Keys /\ rec.target \in Pods /\ rec.ok + 1 \in Nat
      <4>1. rec.source \in Pods /\ rec.target \in Pods /\ rec.ok \in Nat
        BY <2>1 DEF Running
      <4>2. k \in cache[rec.source]
        BY <2>3 DEF Copied
      <4> HIDE DEF k, rec
      <4> QED
        BY <4>1, <4>2
    <3>2. cache' \in [Pods -> SUBSET Keys] /\ held' \in [Pods -> SUBSET Keys]
      BY <2>3, <3>1, CopiedType
    <3>3. prefetch' \in [Threads -> PrefetchLocals]
      BY <2>2, <2>3, <3>1, BecomesType DEF Advance
    <3> QED
      BY <1>20, <2>3, <3>2, <3>3 DEF CopyKey
  <2>4. CASE NotCopied(Backend, rec.source, rec.target, k) /\ Advance(t, rec.ok)
    <3>1. faults' \in Nat /\ UNCHANGED sidecars
      BY <2>4, FaultType DEF NotCopied
    <3>2. prefetch' \in [Threads -> PrefetchLocals]
      BY <2>1, <2>2, <2>4, BecomesType DEF Running, Advance
    <3> QED
      BY <1>20, <3>1, <3>2 DEF CopyKey
  <2> QED
    BY <1>20, <2>3, <2>4 DEF CopyKey
<1>21. ASSUME NEW t \in Threads, RegisterKey(t) PROVE TypeInv'
  <2> DEFINE rec == prefetch[t]
  <2>1. rec \in Running
    BY <1>21, RunningType DEF RegisterKey
  <2>2. [rec EXCEPT !.next = @ + 1] \in PrefetchLocals
    <3> HIDE DEF rec
    <3> QED
      BY <2>1, RunningUpdate, RunningIsLocals
  <2>3. prefetch' \in [Threads -> PrefetchLocals]
    BY <1>21, <2>2, BecomesType, NoPrefetchType DEF RegisterKey, ThreadEnds
  <2>4. sk' \in [Keys -> SUBSET Pods]
    <3>1. rec.target \in Pods
      BY <2>1 DEF Running
    <3>2. sk' = [sk EXCEPT ![rec.topn[rec.next]] = @ \cup {rec.target}] \/ sk' = sk
      BY <1>21 DEF RegisterKey
    <3> HIDE DEF rec
    <3> QED
      BY <3>1, <3>2, AddReplicaType
  <2>5. faults' \in Nat
    BY <1>21, FaultType DEF RegisterKey
  <2> QED
    BY <1>21, <2>3, <2>4, <2>5 DEF RegisterKey
<1>22. CASE WatchError
  BY <1>22, InterruptedType, FaultType DEF WatchError
<1>23. CASE Restart
  BY <1>23, InterruptedType, FaultType, NoPrefetchType DEF Restart
<1>24. CASE L2Restart
  BY <1>24 DEF L2Restart, Fault
<1>25. CASE UNCHANGED vars
  BY <1>25 DEF vars
<1> QED
  BY <1>1, <1>2, <1>3, <1>4, <1>5, <1>6, <1>7, <1>8, <1>9, <1>10, <1>11,
     <1>12, <1>13, <1>14, <1>15, <1>16, <1>17, <1>18, <1>19, <1>20, <1>21,
     <1>22, <1>23, <1>24, <1>25 DEF Next, Cluster, WatchThread, PrefetchThread

\* Every variable keeps the type the code gives it; in particular the
\* receiver of a migrated key is always a pod, because the ring of survivors
\* is not empty and every key has an owner in it.
THEOREM TypeCorrect == Spec => []TypeOK
<1>1. TypeInv => TypeOK
  BY DEF TypeInv
<1> QED
  BY <1>1, TypeInit, TypeStep, PTL DEF Spec

-----------------------------------------------------------------------------
(* GoneIsNoticed.  A pod's DELETED is the last event the watch sends for   *)
(* it, so once it is handled nothing puts the pod back into self.pods.     *)

GoneInv ==
    /\ \A i, j \in DOMAIN events :
         i < j /\ events[i].phase = "gone" => events[j].pod # events[i].pod
    /\ \A i \in DOMAIN events :
         events[i].phase = "gone" => phase[events[i].pod] = "gone"
    /\ \A p \in Gone :
         \/ p \in missed
         \/ \E i \in DOMAIN events : events[i] = [pod |-> p, phase |-> "gone"]
         \/ /\ \A i \in DOMAIN events : events[i].pod # p
            /\ pods[p] = "unknown" \/ leaving = p

LEMMA GoneFrame ==
    ASSUME GoneInv, UNCHANGED <<phase, events, missed, pods, leaving>>
    PROVE  GoneInv'
BY DEF GoneInv, Gone

LEMMA GoneInterrupted ==
    ASSUME GoneInv, Interrupted
    PROVE  GoneInv'
BY DEF GoneInv, Interrupted, Gone

\* A pod that is not gone may move on, or be updated, in any way.
LEMMA GoneAnnounce ==
    ASSUME TypeOK, GoneInv, NEW p \in Pods, NEW new \in Phases,
           phase[p] # "gone", Announce(p, new), UNCHANGED <<pods, leaving>>
    PROVE  GoneInv'
<1> DEFINE e == [pod |-> p, phase |-> new]
<1>1. phase' = [phase EXCEPT ![p] = new] /\ phase \in [Pods -> Phases]
  BY DEF TypeOK, Announce
<1>2. CASE stream
  <2>1. events' = Append(events, e) /\ UNCHANGED missed
    BY <1>2 DEF Announce
  <2>2. /\ events \in Seq(Events) /\ e \in Events
    BY DEF TypeOK, Events
  <2>3. /\ DOMAIN events = 1..Len(events) /\ Len(events) \in Nat
        /\ DOMAIN events' = 1..(Len(events) + 1)
        /\ \A i \in DOMAIN events : events'[i] = events[i]
        /\ events'[Len(events) + 1] = e
    BY <2>1, <2>2, AppendProperties, LenProperties
  <2>4. \A i, j \in DOMAIN events' :
          i < j /\ events'[i].phase = "gone" => events'[j].pod # events'[i].pod
    BY <2>3 DEF GoneInv
  <2>5. \A i \in DOMAIN events' :
          events'[i].phase = "gone" => phase'[events'[i].pod] = "gone"
    BY <1>1, <2>2, <2>3, ElementOfSeq DEF GoneInv, Events
  <2>6. ASSUME NEW q \in Gone'
        PROVE  \/ q \in missed'
               \/ \E i \in DOMAIN events' : events'[i] = [pod |-> q, phase |-> "gone"]
               \/ /\ \A i \in DOMAIN events' : events'[i].pod # q
                  /\ pods'[q] = "unknown" \/ leaving' = q
    <3>1. CASE q = p
      <4>1. new = "gone"
        BY <1>1, <2>6, <3>1 DEF Gone
      <4>2. events'[Len(events) + 1] = [pod |-> q, phase |-> "gone"]
        BY <2>3, <3>1, <4>1
      <4>3. Len(events) + 1 \in DOMAIN events'
        BY <2>3
      <4> QED
        BY <4>2, <4>3
    <3>2. CASE q # p
      <4>1. q \in Gone
        BY <1>1, <2>6, <3>2 DEF Gone
      <4> QED
        BY <2>1, <2>3, <3>2, <4>1 DEF GoneInv
    <3> QED
      BY <3>1, <3>2
  <2> QED
    BY <2>4, <2>5, <2>6 DEF GoneInv
<1>3. CASE ~stream
  <2>1. UNCHANGED events /\ missed' = IF new = "gone" THEN missed \cup {p} ELSE missed
    BY <1>3 DEF Announce
  <2>2. \A i \in DOMAIN events : events[i].pod \in Pods
    <3>1. events \in Seq(Events)
      BY DEF TypeOK
    <3>2. \A i \in DOMAIN events : events[i] \in Events
      BY <3>1, ElementOfSeq, LenProperties
    <3> QED
      BY <3>2 DEF Events
  <2> QED
    BY <1>1, <2>1, <2>2 DEF GoneInv, Gone
<1> QED
  BY <1>2, <1>3

\* The relist starts from an empty queue and names no pod that is gone.
LEMMA GoneStreamOpen ==
    ASSUME TypeOK, GoneInv, StreamOpen
    PROVE  GoneInv'
<1> DEFINE existing == Pods \ Gone
           n == Cardinality(existing)
<1>1. /\ events = <<>> /\ UNCHANGED <<phase, missed, pods, leaving>>
  BY DEF StreamOpen, watcher, job
<1>2. PICK s \in Arrangements(existing, n) :
        events' = [i \in DOMAIN s |-> [pod |-> s[i], phase |-> phase[s[i]]]]
  BY DEF StreamOpen
<1>3. s \in [1..n -> existing]
  BY <1>2 DEF Arrangements
<1>4. \A i \in DOMAIN events' :
        events'[i].pod \in existing /\ events'[i].phase # "gone"
  BY <1>2, <1>3 DEF Gone
<1>5. \A p \in Gone' :
        p \in missed \/ pods[p] = "unknown" \/ leaving = p
  BY <1>1 DEF GoneInv, Gone
<1> QED
  BY <1>1, <1>4, <1>5 DEF GoneInv, Gone

\* Taking the next event off the queue.
LEMMA GoneHandleEvent ==
    ASSUME TypeOK, GoneInv, HandleEvent
    PROVE  GoneInv'
<1> DEFINE e == Head(events)
<1>1. /\ pc = "idle" /\ events # <<>> /\ events \in Seq(Events)
      /\ leaving = NoPod
  BY DEF HandleEvent, TypeOK
<1>2. e \in Events /\ e.pod \in Pods /\ e = events[1]
  BY <1>1, HeadType
<1>3. CASE NotRegistered(e.pod)
  BY <1>3, GoneInterrupted DEF NotRegistered
<1>4. CASE ~ NotRegistered(e.pod)
  <2>1. events' = Tail(events) /\ UNCHANGED <<phase, missed>>
    BY <1>4 DEF HandleEvent, OnPodEvent, Registered
  <2>2. /\ \A q \in Pods \ {e.pod} : pods'[q] = pods[q]
        /\ e.phase = "gone" => leaving' = e.pod
    BY <1>1, <1>2, <1>4 DEF HandleEvent, OnPodEvent, Registered, TypeOK, watcher
  <2>3. /\ Len(events) \in Nat /\ Len(events) > 0
        /\ DOMAIN events = 1..Len(events)
        /\ DOMAIN events' = 1..(Len(events) - 1)
        /\ \A i \in DOMAIN events' : events'[i] = events[i + 1]
    BY <1>1, <2>1, HeadTailProperties, LenProperties, EmptySeq
  <2>a. \A i \in DOMAIN events' :
          /\ i \in Nat /\ i + 1 \in DOMAIN events /\ 1 < i + 1
          /\ 1 \in DOMAIN events
    BY <2>3
  <2>4. \A i, j \in DOMAIN events' :
          i < j /\ events'[i].phase = "gone" => events'[j].pod # events'[i].pod
    BY <2>3, <2>a DEF GoneInv
  <2>5. \A i \in DOMAIN events' :
          events'[i].phase = "gone" => phase'[events'[i].pod] = "gone"
    BY <2>1, <2>3 DEF GoneInv
  <2>6. ASSUME NEW q \in Gone'
        PROVE  \/ q \in missed'
               \/ \E i \in DOMAIN events' : events'[i] = [pod |-> q, phase |-> "gone"]
               \/ /\ \A i \in DOMAIN events' : events'[i].pod # q
                  /\ pods'[q] = "unknown" \/ leaving' = q
    <3>1. q \in Gone /\ q \in Pods /\ q # NoPod
      BY <2>1, <2>6 DEF Gone
    <3>2. CASE q \in missed
      BY <2>1, <3>2
    <3>3. CASE e = [pod |-> q, phase |-> "gone"]
      <4>1. \A i \in DOMAIN events' : events'[i].pod # q
        <5> TAKE i \in DOMAIN events'
        <5>1. /\ events'[i] = events[i + 1] /\ i + 1 \in DOMAIN events
              /\ 1 < i + 1 /\ 1 \in DOMAIN events
          BY <2>3, <2>a
        <5>2. events[1].pod = q /\ events[1].phase = "gone"
          BY <1>2, <3>3
        <5> QED
          BY <5>1, <5>2 DEF GoneInv
      <4> QED
        BY <2>2, <3>3, <4>1
    <3>4. CASE /\ e # [pod |-> q, phase |-> "gone"]
               /\ \E i \in DOMAIN events : events[i] = [pod |-> q, phase |-> "gone"]
      <4>1. PICK i \in DOMAIN events : events[i] = [pod |-> q, phase |-> "gone"]
        BY <3>4
      <4>2. i # 1
        BY <1>2, <3>4, <4>1
      <4>3. i - 1 \in DOMAIN events' /\ events'[i - 1] = events[i]
        BY <2>3, <4>2
      <4> QED
        BY <4>1, <4>3
    <3>5. CASE /\ \A i \in DOMAIN events : events[i].pod # q
               /\ pods[q] = "unknown" \/ leaving = q
      <4>1. e.pod # q
        BY <1>2, <2>3, <3>5
      <4> QED
        <5>1. \A i \in DOMAIN events' : events'[i].pod # q
          BY <2>3, <2>a, <3>5
        <5>2. pods'[q] = "unknown"
          BY <1>1, <2>2, <3>1, <3>5, <4>1
        <5> QED
          BY <5>1, <5>2
    <3> QED
      BY <3>1, <3>2, <3>3, <3>4, <3>5 DEF GoneInv
  <2> QED
    BY <2>4, <2>5, <2>6 DEF GoneInv
<1> QED
  BY <1>3, <1>4

LEMMA GoneInit == Init => GoneInv
BY DEF Init, GoneInv, Gone

LEMMA GoneStep == TypeInv /\ GoneInv /\ [Next]_vars => GoneInv'
<1> SUFFICES ASSUME TypeInv, GoneInv, [Next]_vars PROVE GoneInv'
  OBVIOUS
<1>a. TypeOK
  BY DEF TypeInv
<1> USE DEF cluster, job, watcher
<1>1. ASSUME NEW p \in Pods, Lifecycle(p) PROVE GoneInv'
  <2>1. PICK new \in Successors(phase[p]) : Announce(p, new)
    BY <1>1 DEF Lifecycle
  <2>2. new \in Phases /\ phase[p] # "gone"
    BY <1>a, <2>1 DEF Successors, Phases, TypeOK
  <2> QED
    BY <1>a, <1>1, <2>1, <2>2, GoneAnnounce DEF Lifecycle
<1>2. ASSUME NEW p \in Pods, Flap(p) PROVE GoneInv'
  <2>1. phase[p] # "gone" /\ "booting" \in Phases /\ Announce(p, "booting")
    BY <1>2 DEF Flap, Phases
  <2> QED
    BY <1>a, <1>2, <2>1, GoneAnnounce DEF Flap
<1>3. ASSUME NEW p \in Pods, Touch(p) PROVE GoneInv'
  <2>1. phase[p] # "gone" /\ phase[p] \in Phases /\ Announce(p, phase[p])
    BY <1>a, <1>3 DEF Touch, TypeOK
  <2> QED
    BY <1>a, <1>3, <2>1, GoneAnnounce DEF Touch
<1>4. ASSUME NEW p \in Pods, NEW k \in Keys, Fill(p, k) \/ Drop(p, k) PROVE GoneInv'
  BY <1>4, GoneFrame DEF Fill, Drop
<1>5. CASE StreamTimeout
  BY <1>5, GoneFrame DEF StreamTimeout
<1>6. CASE StreamOpen
  BY <1>a, <1>6, GoneStreamOpen
<1>7. CASE HandleEvent
  BY <1>a, <1>7, GoneHandleEvent
<1>8. CASE OnPodTerminating
  <2>1. CASE pods[leaving] = "unknown" /\ EndJob
    BY <1>8, <2>1 DEF OnPodTerminating, EndJob, GoneInv, Gone
  <2>2. CASE UNCHANGED leaving
    BY <1>8, <2>2, GoneFrame DEF OnPodTerminating
  <2> QED
    BY <1>8, <2>1, <2>2 DEF OnPodTerminating
<1>9. CASE SnapshotLeaving \/ StartMoving \/ StopMoving
  BY <1>9, GoneFrame DEF SnapshotLeaving, StartMoving, StopMoving
<1>10. ASSUME NEW k \in Keys, ScoreKey(k) \/ MoveKey(k) \/ SweepKey(k)
       PROVE  GoneInv'
  <2>1. UNCHANGED pods /\ (Interrupted \/ UNCHANGED <<cluster, leaving>>)
    BY <1>10 DEF ScoreKey, MoveKey, Attempted, SweepKey
  <2> QED
    BY <2>1, GoneFrame, GoneInterrupted
<1>11. CASE Unregister
  BY <1>11, GoneFrame, GoneInterrupted DEF Unregister
<1>12. CASE ForgetPod
  <2>1. leaving \in Pods
    BY <1>a, <1>12 DEF ForgetPod, TypeOK
  <2>2. pods' = [pods EXCEPT ![leaving] = "unknown"] /\ UNCHANGED cluster
    BY <1>12 DEF ForgetPod
  <2> QED
    BY <1>a, <2>1, <2>2 DEF GoneInv, Gone, TypeOK
<1>13. ASSUME NEW t \in Threads, PrefetchThread(t) PROVE GoneInv'
  BY <1>13, GoneFrame
     DEF PrefetchThread, ProbeTarget, SnapshotSibling, CopyKey, RegisterKey
<1>14. CASE WatchError \/ Restart
  BY <1>14, GoneInterrupted DEF WatchError, Restart
<1>15. CASE L2Restart
  BY <1>15, GoneFrame DEF L2Restart
<1>16. CASE UNCHANGED vars
  BY <1>16, GoneFrame DEF vars
<1> QED
  BY <1>1, <1>2, <1>3, <1>4, <1>5, <1>6, <1>7, <1>8, <1>9, <1>10, <1>11,
     <1>12, <1>13, <1>14, <1>15, <1>16 DEF Next, Cluster, WatchThread

\* A pod that is gone is forgotten, being forgotten, or about to be, unless
\* its DELETED fell into a gap of the watch: whatever calls fail, and however
\* often a terminating pod's event puts it back into self.pods.
THEOREM GoneAlwaysNoticed == Spec => []GoneIsNoticed
<1>1. GoneInv => GoneIsNoticed
  BY DEF GoneInv, GoneIsNoticed, Known
<1> QED
  BY <1>1, TypeInit, TypeStep, GoneInit, GoneStep, PTL DEF Spec

-----------------------------------------------------------------------------
(* What L2 says, in a controller that only migrates.                       *)

NoThreads == \A t \in Threads : prefetch[t] = NoPrefetch

LEMMA NoThreadsInit == Init => NoThreads
BY DEF Init, NoThreads

LEMMA NoThreadStep ==
    ASSUME NoThreads, NEW t \in Threads
    PROVE  ~ PrefetchThread(t)
<1>1. prefetch[t].st = "free"
  BY DEF NoThreads, NoPrefetch
<1> QED
  BY <1>1 DEF PrefetchThread, ProbeTarget, SnapshotSibling, CopyKey, RegisterKey

LEMMA NoThreadsStep ==
    ~EnablePrefetch /\ NoThreads /\ [Next]_vars => NoThreads'
<1> SUFFICES ASSUME ~EnablePrefetch, NoThreads, [Next]_vars PROVE NoThreads'
  OBVIOUS
<1>1. \A t \in Threads : ~ PrefetchThread(t)
  BY NoThreadStep
<1>2. CASE HandleEvent
  <2>1. UNCHANGED prefetch
    BY <1>2 DEF HandleEvent, OnPodEvent, Registered, NotRegistered, SpawnPrefetch
  <2> QED
    BY <2>1 DEF NoThreads
<1>3. CASE Restart
  BY <1>3 DEF Restart, NoThreads
<1>4. CASE UNCHANGED prefetch
  BY <1>4 DEF NoThreads
<1>5. CASE Cluster \/ StreamTimeout \/ StreamOpen \/ WatchError \/ L2Restart
  BY <1>4, <1>5 DEF Cluster, Lifecycle, Flap, Touch, Fill, Drop, StreamTimeout,
                    StreamOpen, WatchError, L2Restart
<1>6. CASE WatchThread
  BY <1>2, <1>4, <1>6
     DEF WatchThread, OnPodTerminating, SnapshotLeaving, StartMoving, StopMoving,
         Unregister, ForgetPod, ScoreKey, MoveKey, SweepKey
<1> QED
  BY <1>1, <1>3, <1>4, <1>5, <1>6 DEF Next, vars

\* The records of the pod being removed shrink to nothing before the pod is
\* forgotten, and a receiver is a pod that is known and is not that pod.
L2Inv ==
    /\ L2NamesKnownPods
    /\ survivors \subseteq Known \ {leaving}
    /\ pc \in {"idle", "terminate"} => survivors = {}
    /\ pc = "sweep" =>
         /\ leaving \notin l2pods \cup l2versions
         /\ \A k \in Keys : leaving \in sk[k] => k \in unswept

LEMMA L2Init == Init => L2Inv
BY DEF Init, L2Inv, L2NamesKnownPods

LEMMA L2Frame ==
    ASSUME L2Inv, UNCHANGED <<watcher, l2>>
    PROVE  L2Inv'
BY DEF L2Inv, L2NamesKnownPods, Known, watcher, job, l2

\* An abandoned handler leaves L2 with at most what it had.
LEMMA L2Interrupted ==
    ASSUME L2Inv, Interrupted, UNCHANGED pods, l2pods' \subseteq l2pods,
           l2versions' \subseteq l2versions, UNCHANGED sk
    PROVE  L2Inv'
BY DEF L2Inv, L2NamesKnownPods, Known, Interrupted, EndJob

LEMMA L2HandleEvent ==
    ASSUME TypeOK, L2Inv, HandleEvent
    PROVE  L2Inv'
<1> DEFINE p == Head(events).pod
           ph == Head(events).phase
<1>1. pc = "idle" /\ events # <<>> /\ leaving = NoPod /\ survivors = {}
  BY DEF HandleEvent, TypeOK, L2Inv
<1>2. p \in Pods
  BY <1>1, HeadType
<1>3. CASE OnPodEvent(p, ph) /\ ph \notin {"pending", "gone"}
  <2>1. Known' = Known \cup {p}
    BY <1>2, <1>3 DEF OnPodEvent, Observed, Known, TypeOK
  <2>2. /\ l2pods' \subseteq l2pods \cup {p}
        /\ l2versions' \subseteq l2versions \cup {p} /\ UNCHANGED sk
    BY <1>3 DEF OnPodEvent, Registered, NotRegistered
  <2>3. survivors' = {} /\ pc' # "sweep"
    BY <1>1, <1>3 DEF OnPodEvent, Registered, NotRegistered, Interrupted, EndJob
  <2> QED
    BY <2>1, <2>2, <2>3 DEF L2Inv, L2NamesKnownPods
<1>4. CASE ph = "pending" /\ UNCHANGED <<watcher, l2>>
  BY <1>4, L2Frame
<1>5. CASE pc' = "terminate" /\ UNCHANGED <<pods, survivors, l2>>
  BY <1>1, <1>5 DEF L2Inv, L2NamesKnownPods, Known, l2
<1> QED
  BY <1>3, <1>4, <1>5 DEF HandleEvent

LEMMA L2MoveKey ==
    ASSUME TypeInv, L2Inv, NEW k \in Keys, MoveKey(k)
    PROVE  L2Inv'
<1> DEFINE receiver == HashTarget(survivors, k)
<1>1. pc = "move" /\ UNCHANGED <<pods, l2pods, l2versions>>
  BY DEF MoveKey
<1>2. receiver \in Known
  BY <1>1, ReceiverIsSurvivor DEF L2Inv
<1>3. CASE Interrupted /\ UNCHANGED sk
  BY <1>1, <1>3, L2Interrupted
<1>4. CASE Attempted(k) /\ UNCHANGED sk
  BY <1>1, <1>4 DEF L2Inv, L2NamesKnownPods, Known, Attempted
<1>5. CASE Attempted(k) /\ sk' = [sk EXCEPT ![k] = @ \cup {receiver}]
  <2>1. \A j \in Keys : sk'[j] \subseteq Known
    BY <1>2, <1>5 DEF L2Inv, L2NamesKnownPods, TypeInv, TypeOK
  <2> QED
    BY <1>1, <1>5, <2>1 DEF L2Inv, L2NamesKnownPods, Known, Attempted
<1> QED
  BY <1>3, <1>4, <1>5 DEF MoveKey

LEMMA L2SweepKey ==
    ASSUME TypeOK, L2Inv, NEW k \in Keys, SweepKey(k)
    PROVE  L2Inv'
<1>1. pc = "sweep" /\ UNCHANGED <<pods, l2pods, l2versions>>
  BY DEF SweepKey
<1>2. CASE Interrupted /\ UNCHANGED sk
  BY <1>1, <1>2, L2Interrupted
<1>3. CASE /\ sk' = [sk EXCEPT ![k] = @ \ {leaving}] /\ unswept' = unswept \ {k}
           /\ UNCHANGED <<pc, leaving, survivors>>
  <2>1. \A j \in Keys : sk'[j] = IF j = k THEN sk[j] \ {leaving} ELSE sk[j]
    BY <1>3 DEF TypeOK
  <2> QED
    BY <1>1, <1>3, <2>1 DEF L2Inv, L2NamesKnownPods, Known
<1> QED
  BY <1>2, <1>3 DEF SweepKey

LEMMA L2Step ==
    ASSUME "restart" \notin Faults
    PROVE  TypeInv /\ NoThreads /\ L2Inv /\ [Next]_vars => L2Inv'
<1> SUFFICES ASSUME TypeInv, NoThreads, L2Inv, [Next]_vars PROVE L2Inv'
  OBVIOUS
<1>a. TypeOK
  BY DEF TypeInv
<1>1. CASE Cluster \/ StreamTimeout \/ StreamOpen \/ UNCHANGED vars
  <2>1. UNCHANGED <<watcher, l2>>
    BY <1>1 DEF Cluster, Lifecycle, Flap, Touch, Fill, Drop, StreamTimeout,
                StreamOpen, vars
  <2> QED
    BY <2>1, L2Frame
<1>2. CASE HandleEvent
  BY <1>a, <1>2, L2HandleEvent
<1>3. CASE OnPodTerminating
  BY <1>3 DEF OnPodTerminating, Receivers, EndJob, L2Inv, L2NamesKnownPods, Known, job, l2
<1>4. CASE SnapshotLeaving \/ StartMoving \/ StopMoving
  BY <1>4 DEF SnapshotLeaving, StartMoving, StopMoving, L2Inv,
              L2NamesKnownPods, Known, job, l2
<1>5. ASSUME NEW k \in Keys, ScoreKey(k) PROVE L2Inv'
  <2>1. UNCHANGED <<pods, l2>>
    BY <1>5 DEF ScoreKey
  <2>2. CASE Interrupted
    BY <2>1, <2>2, L2Interrupted DEF l2
  <2>3. CASE UNCHANGED <<pc, leaving, survivors>> /\ pc = "score"
    BY <2>1, <2>3 DEF L2Inv, L2NamesKnownPods, Known, l2
  <2> QED
    BY <1>5, <2>2, <2>3 DEF ScoreKey
<1>6. ASSUME NEW k \in Keys, MoveKey(k) PROVE L2Inv'
  BY <1>6, L2MoveKey
<1>7. CASE Unregister
  <2>1. UNCHANGED <<pods, sk>>
    BY <1>7 DEF Unregister
  <2>2. CASE Interrupted /\ l2pods' \subseteq l2pods /\ UNCHANGED l2versions
    BY <2>1, <2>2, L2Interrupted
  <2>3. CASE /\ l2pods' = l2pods \ {leaving} /\ l2versions' = l2versions \ {leaving}
             /\ pc' = "sweep" /\ UNCHANGED <<leaving, survivors>>
             /\ {k \in Keys : sk[k] # {}} \subseteq unswept'
    BY <2>1, <2>3 DEF L2Inv, L2NamesKnownPods, Known
  <2> QED
    BY <1>7, <2>2, <2>3 DEF Unregister
<1>8. ASSUME NEW k \in Keys, SweepKey(k) PROVE L2Inv'
  BY <1>a, <1>8, L2SweepKey
<1>9. CASE ForgetPod
  <2>1. /\ pods' = [pods EXCEPT ![leaving] = "unknown"] /\ EndJob
        /\ UNCHANGED l2 /\ pc = "sweep" /\ unswept = {}
    BY <1>9 DEF ForgetPod
  <2>2. Known' = Known \ {leaving}
    BY <1>a, <2>1 DEF Known, TypeOK
  <2> QED
    BY <2>1, <2>2 DEF L2Inv, L2NamesKnownPods, EndJob, l2
<1>10. CASE WatchError
  <2>1. Interrupted /\ UNCHANGED <<pods, l2>>
    BY <1>10 DEF WatchError
  <2> QED
    BY <2>1, L2Interrupted DEF l2
<1>11. CASE L2Restart
  BY <1>11 DEF L2Restart, L2Inv, L2NamesKnownPods, Known, watcher, job
<1>12. ~ Restart
  BY DEF Restart, Fault
<1> QED
  BY <1>1, <1>2, <1>3, <1>4, <1>5, <1>6, <1>7, <1>8, <1>9, <1>10, <1>11,
     <1>12, NoThreadStep DEF Next, WatchThread

\* L2 never names a pod the controller has forgotten, whichever of its calls
\* fail, as long as the process itself lives and starts no prefetch.
THEOREM L2Clean ==
    ~EnablePrefetch /\ "restart" \notin Faults /\ Spec => []L2NamesKnownPods
<1> SUFFICES ASSUME ~EnablePrefetch, "restart" \notin Faults
             PROVE  Spec => []L2NamesKnownPods
  OBVIOUS
<1>1. TypeInv /\ NoThreads /\ L2Inv /\ [Next]_vars => L2Inv'
  BY L2Step
<1>2. NoThreads /\ [Next]_vars => NoThreads'
  BY NoThreadsStep
<1>3. L2Inv => L2NamesKnownPods
  BY DEF L2Inv
<1> QED
  BY <1>1, <1>2, <1>3, TypeInit, TypeStep, NoThreadsInit, L2Init, PTL DEF Spec

-----------------------------------------------------------------------------
(* SkBacked, in a controller that only migrates.                           *)

LEMMA SkInit == Init => SkBacked
BY DEF Init, SkBacked

LEMMA SkStep ==
    TypeInv /\ NoThreads /\ SkBacked /\ [Next]_vars => SkBacked'
<1> SUFFICES ASSUME TypeInv, NoThreads, SkBacked, [Next]_vars PROVE SkBacked'
  OBVIOUS
<1>a. TypeOK
  BY DEF TypeInv
<1>1. CASE UNCHANGED <<sk, held>>
  BY <1>1 DEF SkBacked
<1>2. ASSUME NEW p \in Pods, NEW k \in Keys, Fill(p, k) PROVE SkBacked'
  BY <1>a, <1>2 DEF Fill, SkBacked, TypeOK, l2
<1>3. ASSUME NEW k \in Keys, MoveKey(k) PROVE SkBacked'
  <2> DEFINE receiver == HashTarget(survivors, k)
  <2>1. receiver \in Pods
    BY <1>a, <1>3, ReceiverIsSurvivor DEF MoveKey, TypeOK
  <2>2. CASE UNCHANGED <<sidecars, sk>>
    BY <1>1, <2>2 DEF sidecars
  <2>3. CASE /\ held' = [held EXCEPT ![receiver] = @ \cup {k}]
             /\ UNCHANGED sk \/ sk' = [sk EXCEPT ![k] = @ \cup {receiver}]
    <3>1. \A p \in Pods : held[p] \subseteq held'[p]
      BY <1>a, <2>3 DEF TypeOK
    <3>2. k \in held'[receiver]
      BY <1>a, <2>1, <2>3 DEF TypeOK
    <3>3. \A j \in Keys : sk'[j] \subseteq sk[j] \/ (j = k /\ sk'[j] = sk[j] \cup {receiver})
      BY <1>a, <2>3 DEF TypeOK
    <3>4. ASSUME NEW j \in Keys, NEW p \in sk'[j] PROVE j \in held'[p]
      <4>1. CASE p \in sk[j]
        <5>1. p \in Pods /\ j \in held[p]
          BY <1>a, <4>1 DEF SkBacked, TypeOK
        <5> QED
          BY <3>1, <5>1
      <4>2. CASE j = k /\ p = receiver
        BY <3>2, <4>2
      <4> HIDE DEF receiver
      <4> QED
        BY <3>3, <4>1, <4>2
    <3> QED
      BY <3>4 DEF SkBacked
  <2> QED
    BY <1>3, <2>2, <2>3 DEF MoveKey, Copied, NotCopied
<1>4. CASE UNCHANGED held /\ \A k \in Keys : sk'[k] \subseteq sk[k]
  BY <1>4 DEF SkBacked
<1>5. ASSUME NEW k \in Keys, SweepKey(k) PROVE SkBacked'
  <2>1. UNCHANGED held /\ \A j \in Keys : sk'[j] \subseteq sk[j]
    BY <1>a, <1>5 DEF SweepKey, sidecars, TypeOK
  <2> QED
    BY <1>4, <2>1
<1>6. CASE L2Restart
  <2>1. UNCHANGED held /\ \A k \in Keys : sk'[k] = {}
    BY <1>6 DEF L2Restart, sidecars
  <2> QED
    BY <1>4, <2>1
<1>7. CASE \E p \in Pods : \/ Lifecycle(p) \/ Flap(p) \/ Touch(p)
                           \/ \E k \in Keys : Drop(p, k)
  BY <1>1, <1>7 DEF Lifecycle, Flap, Touch, Drop, l2, sidecars
<1>8. CASE StreamTimeout \/ StreamOpen \/ WatchError \/ Restart \/ UNCHANGED vars
  BY <1>1, <1>8 DEF StreamTimeout, StreamOpen, WatchError, Restart, vars, l2,
                    sidecars
<1>9. CASE \/ HandleEvent \/ OnPodTerminating \/ SnapshotLeaving \/ StartMoving
           \/ StopMoving \/ Unregister \/ ForgetPod \/ \E k \in Keys : ScoreKey(k)
  BY <1>1, <1>9 DEF HandleEvent, OnPodEvent, OnPodTerminating, SnapshotLeaving,
                    StartMoving, StopMoving, Unregister, ForgetPod, ScoreKey,
                    l2, sidecars
<1> QED
  BY <1>2, <1>3, <1>5, <1>6, <1>7, <1>8, <1>9, NoThreadStep
     DEF Next, Cluster, WatchThread

\* Every replica migration records in Sk was really copied: the receiver has
\* held the key, whatever failed, restarted or was evicted before or after.
THEOREM MigrationBacksSk == ~EnablePrefetch /\ Spec => []SkBacked
<1> SUFFICES ASSUME ~EnablePrefetch PROVE Spec => []SkBacked
  OBVIOUS
<1>1. NoThreads /\ [Next]_vars => NoThreads'
  BY NoThreadsStep
<1> QED
  BY <1>1, TypeInit, TypeStep, NoThreadsInit, SkInit, SkStep, PTL DEF Spec
=============================================================================
