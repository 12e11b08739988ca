---------------------- MODULE ControllerViewProofs ----------------------
(* The controller's view of the cluster, its registry in L2, the ring of   *)
(* its prefetches, and the order and the result of its migrations:         *)
(* theorems about Controller for every deployment and bound.               *)
EXTENDS ControllerProofs

USE ControllerAssumption, RingAssumption

-----------------------------------------------------------------------------
(* ViewFollowsCluster.  While the stream is open, the last event of a pod  *)
(* that is still queued says what the pod is now; and if there is none,    *)
(* self.pods says it, or the watch thread is about to forget the pod.      *)

\* Phases of a pod with a deletion timestamp, and of a deleted one; a pod
\* never leaves them.
Ending == {"leaving", "stopping", "gone"}

\* What self.pods says of a pod whose events are all handled.
Expected(ph) ==
    CASE ph = "ready"   -> "ready"
      [] ph = "booting" -> "notReady"
      [] OTHER          -> "unknown"

\* The event at i is the last one of p, and says what p is now.
IsLast(p, i) ==
    /\ events[i] = [pod |-> p, phase |-> phase[p]]
    /\ \A j \in DOMAIN events : i < j => events[j].pod # p

Settled(p) ==
    /\ \A i \in DOMAIN events : events[i].pod # p
    /\ leaving = p \/ pods[p] = Expected(phase[p])

\* A pod without an IP was never recorded; an event of a pod that is ending
\* says no less of it than is true; only a pod that is ending is drained.
PhaseInv ==
    /\ \A p \in Pods : phase[p] = "pending" => pods[p] = "unknown"
    /\ \A i \in DOMAIN events :
         /\ phase[events[i].pod] = "pending" => events[i].phase = "pending"
         /\ events[i].phase \in Ending => phase[events[i].pod] \in Ending
    /\ leaving \in Pods => phase[leaving] \in Ending

ViewInv ==
    stream => \A p \in Pods \ missed :
                 (\E i \in DOMAIN events : IsLast(p, i)) \/ Settled(p)

LEMMA ViewInit == Init => PhaseInv /\ ViewInv
BY DEF Init, PhaseInv, ViewInv

LEMMA ViewFrame ==
    ASSUME PhaseInv, ViewInv,
           UNCHANGED <<phase, stream, events, missed, pods, leaving>>
    PROVE  PhaseInv' /\ ViewInv'
BY DEF PhaseInv, ViewInv, IsLast, Settled

\* A dropped stream promises nothing until the relist.
LEMMA ViewInterrupted ==
    ASSUME Interrupted,
           \A p \in Pods : phase[p] = "pending" => pods'[p] = "unknown"
    PROVE  PhaseInv' /\ ViewInv'
BY DEF Interrupted, EndJob, PhaseInv, ViewInv

LEMMA EventType ==
    ASSUME TypeOK
    PROVE  /\ Len(events) \in Nat /\ DOMAIN events = 1..Len(events)
           /\ \A i \in DOMAIN events :
                events[i] \in Events /\ events[i].pod \in Pods
<1>1. events \in Seq(Events)
  BY DEF TypeOK
<1>2. \A i \in DOMAIN events : events[i] \in Events
  BY <1>1, ElementOfSeq, LenProperties
<1> QED
  BY <1>1, <1>2, LenProperties DEF Events

\* A pod moves on or is updated.  If it is ending it stays so.
LEMMA ViewAnnounce ==
    ASSUME TypeOK, PhaseInv, ViewInv, NEW p \in Pods, NEW new \in Phases,
           new # "pending", phase[p] \in Ending => new \in Ending,
           Announce(p, new), UNCHANGED <<pods, leaving>>
    PROVE  PhaseInv' /\ ViewInv'
<1> DEFINE e == [pod |-> p, phase |-> new]
<1>1. phase' = [phase EXCEPT ![p] = new] /\ phase \in [Pods -> Phases]
  BY DEF TypeOK, Announce
<1>2. /\ \A q \in Pods : phase'[q] = "pending" => pods'[q] = "unknown"
      /\ leaving' \in Pods => phase'[leaving'] \in Ending
  BY <1>1 DEF PhaseInv
<1>3. \A i \in DOMAIN events :
        /\ phase'[events[i].pod] = "pending" => events[i].phase = "pending"
        /\ events[i].phase \in Ending => phase'[events[i].pod] \in Ending
  BY <1>1, EventType DEF PhaseInv
<1>4. CASE stream
  <2>1. events' = Append(events, e) /\ UNCHANGED <<missed, stream>>
    BY <1>4 DEF Announce
  <2>2. events \in Seq(Events) /\ e \in Events
    BY DEF TypeOK, Events
  <2>3. /\ DOMAIN events = 1..Len(events) /\ Len(events) \in Nat
        /\ DOMAIN events' = 1..(Len(events) + 1)
        /\ \A i \in DOMAIN events : events'[i] = events[i]
        /\ events'[Len(events) + 1] = e
    BY <2>1, <2>2, AppendProperties, LenProperties
  <2>4. \A i \in DOMAIN events' :
          /\ phase'[events'[i].pod] = "pending" => events'[i].phase = "pending"
          /\ events'[i].phase \in Ending => phase'[events'[i].pod] \in Ending
    <3> SUFFICES ASSUME NEW i \in DOMAIN events'
                 PROVE  /\ phase'[events'[i].pod] = "pending" => events'[i].phase = "pending"
                        /\ events'[i].phase \in Ending => phase'[events'[i].pod] \in Ending
      OBVIOUS
    <3>1. CASE i \in DOMAIN events
      BY <1>3, <2>3, <3>1
    <3>2. CASE i = Len(events) + 1
      BY <1>1, <2>3, <3>2
    <3> QED
      BY <2>3, <3>1, <3>2
  <2>5. ASSUME NEW q \in Pods \ missed'
        PROVE  (\E i \in DOMAIN events' : IsLast(q, i)') \/ Settled(q)'
    <3>1. CASE q = p
      <4>1. Len(events) + 1 \in DOMAIN events'
        BY <2>3
      <4>2. events'[Len(events) + 1] = [pod |-> q, phase |-> phase'[q]]
        BY <1>1, <2>3, <3>1
      <4>3. \A j \in DOMAIN events' : ~(Len(events) + 1 < j)
        BY <2>3
      <4> QED
        BY <4>1, <4>2, <4>3 DEF IsLast
    <3>2. CASE q # p
      <4>1. phase'[q] = phase[q] /\ q \in Pods \ missed
        BY <1>1, <2>1, <3>2
      <4>2. CASE \E i \in DOMAIN events : IsLast(q, i)
        <5>1. PICK i \in DOMAIN events : IsLast(q, i)
          BY <4>2
        <5>2. i \in DOMAIN events' /\ events'[i] = [pod |-> q, phase |-> phase'[q]]
          BY <2>3, <4>1, <5>1 DEF IsLast
        <5>3. \A j \in DOMAIN events' : i < j => events'[j].pod # q
          <6> TAKE j \in DOMAIN events'
          <6>1. CASE j \in DOMAIN events
            BY <2>3, <5>1, <6>1 DEF IsLast
          <6>2. CASE j = Len(events) + 1
            BY <2>3, <3>2, <6>2
          <6> QED
            BY <2>3, <6>1, <6>2
        <5> QED
          BY <5>2, <5>3 DEF IsLast
      <4>3. CASE Settled(q)
        <5>1. \A i \in DOMAIN events' : events'[i].pod # q
          <6> TAKE i \in DOMAIN events'
          <6>1. CASE i \in DOMAIN events
            BY <2>3, <4>3, <6>1 DEF Settled
          <6>2. CASE i = Len(events) + 1
            BY <2>3, <3>2, <6>2
          <6> QED
            BY <2>3, <6>1, <6>2
        <5> QED
          BY <4>1, <4>3, <5>1 DEF Settled
      <4> QED
        BY <1>4, <4>1, <4>2, <4>3 DEF ViewInv
    <3> QED
      BY <3>1, <3>2
  <2> QED
    BY <1>2, <2>4, <2>5 DEF PhaseInv, ViewInv
<1>5. CASE ~stream
  <2>1. UNCHANGED <<events, stream>>
    BY <1>5 DEF Announce
  <2> QED
    BY <1>2, <1>3, <1>5, <2>1 DEF PhaseInv, ViewInv
<1> QED
  BY <1>4, <1>5

\* The relist names every pod that exists, once and as it is.
LEMMA ViewStreamOpen ==
    ASSUME TypeOK, GoneInv, PhaseInv, StreamOpen
    PROVE  PhaseInv' /\ ViewInv'
<1> DEFINE existing == Pods \ Gone
           n == Cardinality(existing)
<1>1. /\ events = <<>> /\ leaving = NoPod
      /\ UNCHANGED <<phase, missed, pods, leaving>>
  BY DEF StreamOpen, watcher, job, TypeOK
<1>2. PICK s \in Arrangements(existing, n) :
        events' = [i \in DOMAIN s |-> [pod |-> s[i], phase |-> phase[s[i]]]]
  BY DEF StreamOpen
<1>3. /\ s \in [1..n -> existing]
      /\ \A i, j \in 1..n : s[i] = s[j] => i = j
  BY <1>2 DEF Arrangements
<1>4. /\ DOMAIN events' = 1..n
      /\ \A i \in 1..n : events'[i] = [pod |-> s[i], phase |-> phase[s[i]]]
  BY <1>2, <1>3
<1>c. \A i \in DOMAIN events' : i \in 1..n /\ events'[i].pod = s[i] /\ s[i] \in existing
  <2> HIDE DEF n, existing
  <2> QED
    BY <1>3, <1>4
<1>5. \A p \in existing : \E i \in 1..n : s[i] = p
  <2>1. n \in Nat /\ IsFiniteSet(existing)
    BY RingFinite
  <2>2. IsFiniteSet(1..n) /\ Cardinality(1..n) = n
    BY <2>1, FS_Interval
  <2>3. s \in Injection(1..n, existing)
    BY <1>3 DEF Injection, IsInjective
  <2>4. s \in Surjection(1..n, existing)
    BY <2>1, <2>2, <2>3, FS_Injection
  <2> QED
    BY <2>4 DEF Surjection
<1>6. PhaseInv'
  <2> HIDE DEF n
  <2> QED
    BY <1>1, <1>4 DEF PhaseInv
<1>7. ASSUME NEW p \in Pods \ missed'
      PROVE  (\E i \in DOMAIN events' : IsLast(p, i)') \/ Settled(p)'
  <2>1. CASE p \in existing
    <3>1. PICK i \in 1..n : s[i] = p
      BY <1>5, <2>1
    <3>2. events'[i] = [pod |-> p, phase |-> phase'[p]]
      BY <1>1, <1>4, <3>1
    <3>3. \A j \in DOMAIN events' : i < j => events'[j].pod # p
      <4> TAKE j \in DOMAIN events'
      <4>1. j \in 1..n /\ events'[j].pod = s[j]
        BY <1>c
      <4>2. i # j => s[j] # p
        BY <1>3, <3>1, <4>1
      <4> QED
        BY <4>1, <4>2
    <3> QED
      BY <1>4, <3>1, <3>2, <3>3 DEF IsLast
  <2>2. CASE p \in Gone
    <3>1. pods[p] = "unknown" /\ phase[p] = "gone"
      BY <1>1, <1>7, <2>2 DEF GoneInv, Gone
    <3>2. \A i \in DOMAIN events' : events'[i].pod # p
      BY <1>c, <2>2
    <3> QED
      BY <1>1, <3>1, <3>2 DEF Settled, Expected
  <2> QED
    BY <1>7, <2>1, <2>2 DEF Gone
<1> QED
  BY <1>6, <1>7 DEF ViewInv

\* The next event is handled.
LEMMA ViewHandleEvent ==
    ASSUME TypeOK, PhaseInv, ViewInv, HandleEvent
    PROVE  PhaseInv' /\ ViewInv'
<1> DEFINE e == Head(events)
<1>1. /\ pc = "idle" /\ events # <<>> /\ events \in Seq(Events)
      /\ leaving = NoPod /\ NoPod \notin Pods
  BY DEF HandleEvent, TypeOK
<1>2. e \in Events /\ e.pod \in Pods /\ e.phase \in Phases /\ e = events[1]
  BY <1>1, HeadType
<1>3. /\ Len(events) \in Nat /\ Len(events) > 0
      /\ DOMAIN events = 1..Len(events) /\ 1 \in DOMAIN events
  BY <1>1, HeadTailProperties, LenProperties, EmptySeq
<1>4. /\ phase[e.pod] = "pending" => e.phase = "pending"
      /\ e.phase \in Ending => phase[e.pod] \in Ending
  BY <1>2, <1>3 DEF PhaseInv
<1>5. /\ \A q \in Pods \ {e.pod} : pods'[q] = pods[q]
      /\ \A q \in Pods : phase[q] = "pending" => pods'[q] = "unknown"
      /\ e.phase \in {"ready", "booting"} => pods'[e.pod] = Expected(e.phase)
      /\ e.phase \in {"pending", "gone"} => pods'[e.pod] = pods[e.pod]
  <2>1. pods \in [Pods -> {"unknown", "notReady", "ready"}]
    BY DEF TypeOK
  <2>2. \/ e.phase \in {"pending", "gone"} /\ pods' = pods
        \/ /\ e.phase \notin {"pending", "gone"}
           /\ pods' = [pods EXCEPT ![e.pod] = Observed(e.phase)]
    BY DEF HandleEvent, OnPodEvent, watcher
  <2>3. \A q \in Pods \ {e.pod} : pods'[q] = pods[q]
    BY <2>1, <2>2
  <2>4. e.phase \in {"ready", "booting"} => pods'[e.pod] = Expected(e.phase)
    BY <1>2, <2>1, <2>2 DEF Observed, Expected
  <2>5. ASSUME NEW q \in Pods, phase[q] = "pending" PROVE pods'[q] = "unknown"
    <3>1. pods[q] = "unknown"
      BY <2>5 DEF PhaseInv
    <3>2. q = e.pod => pods' = pods
      BY <1>4, <2>2, <2>5
    <3> QED
      BY <2>3, <3>1, <3>2
  <2>6. e.phase \in {"pending", "gone"} => pods'[e.pod] = pods[e.pod]
    BY <2>2
  <2> QED
    BY <2>3, <2>4, <2>5, <2>6
<1>6. CASE NotRegistered(e.pod)
  BY <1>5, <1>6, ViewInterrupted DEF NotRegistered
<1>7. CASE ~ NotRegistered(e.pod)
  <2>1. events' = Tail(events) /\ UNCHANGED <<phase, stream, missed>>
    BY <1>7 DEF HandleEvent, OnPodEvent, Registered
  <2>2. IF e.phase \in Ending THEN leaving' = e.pod ELSE leaving' = leaving
    BY <1>2, <1>7 DEF HandleEvent, OnPodEvent, Registered, Terminating, Ending,
                      Phases, watcher, job
  <2>3. /\ DOMAIN events' = 1..(Len(events) - 1)
        /\ \A i \in DOMAIN events' : events'[i] = events[i + 1]
    BY <1>1, <1>3, <2>1, HeadTailProperties, LenProperties
  <2>4. \A i \in DOMAIN events' :
          i \in Nat /\ i + 1 \in DOMAIN events /\ 1 < i + 1
    BY <1>3, <2>3
  <2>5. \A i \in DOMAIN events : i # 1 => i - 1 \in DOMAIN events' /\ events'[i - 1] = events[i]
    BY <1>3, <2>3
  <2>6. PhaseInv'
    <3>1. \A i \in DOMAIN events' :
            /\ phase'[events'[i].pod] = "pending" => events'[i].phase = "pending"
            /\ events'[i].phase \in Ending => phase'[events'[i].pod] \in Ending
      BY <2>1, <2>3, <2>4 DEF PhaseInv
    <3>2. leaving' \in Pods => phase'[leaving'] \in Ending
      BY <1>1, <1>4, <2>1, <2>2
    <3> QED
      BY <1>5, <2>1, <3>1, <3>2 DEF PhaseInv
  <2>7. ASSUME NEW q \in Pods \ missed', stream'
        PROVE  (\E i \in DOMAIN events' : IsLast(q, i)') \/ Settled(q)'
    <3>1. CASE \E i \in DOMAIN events : IsLast(q, i)
      <4>1. PICK i \in DOMAIN events : IsLast(q, i)
        BY <3>1
      <4>2. CASE i = 1
        <5>1. e = [pod |-> q, phase |-> phase[q]]
          BY <1>2, <4>1, <4>2 DEF IsLast
        <5>2. \A j \in DOMAIN events' : events'[j].pod # q
          BY <2>3, <2>4, <4>1, <4>2 DEF IsLast
        <5>3. leaving' = q \/ pods'[q] = Expected(phase'[q])
          <6>1. e.pod = q /\ e.phase = phase[q] /\ phase' = phase
            BY <2>1, <5>1
          <6>2. CASE e.phase \in Ending
            BY <2>2, <6>1, <6>2
          <6>3. CASE e.phase \in {"ready", "booting"}
            BY <1>5, <6>1, <6>3
          <6>4. CASE e.phase = "pending"
            BY <1>5, <6>1, <6>4 DEF Expected
          <6> QED
            BY <1>2, <6>2, <6>3, <6>4 DEF Phases, Ending
        <5> QED
          BY <5>2, <5>3 DEF Settled
      <4>3. CASE i # 1
        <5>1. i - 1 \in DOMAIN events' /\ events'[i - 1] = [pod |-> q, phase |-> phase'[q]]
          BY <2>1, <2>5, <4>1, <4>3 DEF IsLast
        <5>2. \A j \in DOMAIN events' : i - 1 < j => events'[j].pod # q
          <6> TAKE j \in DOMAIN events'
          <6> HAVE i - 1 < j
          <6>1. i < j + 1 /\ j + 1 \in DOMAIN events /\ events'[j] = events[j + 1]
            BY <1>3, <2>3, <2>4
          <6> QED
            BY <4>1, <6>1 DEF IsLast
        <5> QED
          BY <5>1, <5>2 DEF IsLast
      <4> QED
        BY <4>2, <4>3
    <3>2. CASE Settled(q)
      <4>1. /\ \A i \in DOMAIN events : events[i].pod # q
            /\ pods[q] = Expected(phase[q])
        BY <1>1, <2>7, <3>2 DEF Settled
      <4>2. e.pod # q
        BY <1>2, <1>3, <4>1
      <4>3. \A i \in DOMAIN events' : events'[i].pod # q
        BY <2>3, <2>4, <4>1
      <4>4. pods'[q] = Expected(phase'[q])
        BY <1>5, <2>1, <4>1, <4>2
      <4> QED
        BY <4>3, <4>4 DEF Settled
    <3> QED
      BY <2>1, <2>7, <3>1, <3>2 DEF ViewInv
  <2> QED
    BY <2>6, <2>7 DEF ViewInv
<1> QED
  BY <1>6, <1>7

\* The pod in hand is forgotten, or was already: both are what self.pods
\* should say of a pod that is ending.
LEMMA ViewForgotten ==
    ASSUME TypeOK, PhaseInv, ViewInv, leaving \in Pods, leaving' = NoPod,
           pods' = [pods EXCEPT ![leaving] = "unknown"],
           UNCHANGED <<phase, stream, events, missed>>
    PROVE  PhaseInv' /\ ViewInv'
<1>1. pods \in [Pods -> {"unknown", "notReady", "ready"}] /\ NoPod \notin Pods
  BY DEF TypeOK
<1>2. PhaseInv'
  BY <1>1 DEF PhaseInv
<1>3. ASSUME NEW q \in Pods \ missed, stream
      PROVE  (\E i \in DOMAIN events : IsLast(q, i)') \/ Settled(q)'
  <2>1. CASE \E i \in DOMAIN events : IsLast(q, i)
    BY <2>1 DEF IsLast
  <2>2. CASE Settled(q)
    <3>1. CASE q = leaving
      <4>1. phase[q] \in Ending /\ pods'[q] = "unknown"
        BY <1>1, <3>1 DEF PhaseInv
      <4>2. pods'[q] = Expected(phase[q])
        BY <4>1 DEF Ending, Expected
      <4> QED
        BY <2>2, <4>2 DEF Settled
    <3>2. CASE q # leaving
      BY <1>1, <2>2, <3>2 DEF Settled
    <3> QED
      BY <3>1, <3>2
  <2> QED
    BY <1>3, <2>1, <2>2 DEF ViewInv
<1> QED
  BY <1>2, <1>3 DEF ViewInv

LEMMA ViewStep ==
    TypeInv /\ GoneInv /\ PhaseInv /\ ViewInv /\ [Next]_vars => PhaseInv' /\ ViewInv'
<1> SUFFICES ASSUME TypeInv, GoneInv, PhaseInv, ViewInv, [Next]_vars
             PROVE  PhaseInv' /\ ViewInv'
  OBVIOUS
<1>a. TypeOK
  BY DEF TypeInv
<1> USE DEF cluster, job, watcher
<1>1. ASSUME NEW p \in Pods, Lifecycle(p) PROVE PhaseInv' /\ ViewInv'
  <2>1. PICK new \in Successors(phase[p]) : Announce(p, new)
    BY <1>1 DEF Lifecycle
  <2>2. /\ new \in Phases /\ new # "pending"
        /\ phase[p] \in Ending => new \in Ending
    BY <1>a, <2>1 DEF Successors, Phases, Ending, TypeOK
  <2> QED
    BY <1>a, <1>1, <2>1, <2>2, ViewAnnounce DEF Lifecycle
<1>2. ASSUME NEW p \in Pods, Flap(p) PROVE PhaseInv' /\ ViewInv'
  <2>1. phase[p] \notin Ending /\ "booting" \in Phases /\ Announce(p, "booting")
    BY <1>2 DEF Flap, Phases, Ending
  <2> QED
    BY <1>a, <1>2, <2>1, ViewAnnounce DEF Flap
<1>3. ASSUME NEW p \in Pods, Touch(p) PROVE PhaseInv' /\ ViewInv'
  <2>1. phase[p] # "pending" /\ phase[p] \in Phases /\ Announce(p, phase[p])
    BY <1>a, <1>3 DEF Touch, TypeOK
  <2> QED
    BY <1>a, <1>3, <2>1, ViewAnnounce DEF Touch
<1>4. ASSUME NEW p \in Pods, NEW k \in Keys, Fill(p, k) \/ Drop(p, k)
      PROVE  PhaseInv' /\ ViewInv'
  BY <1>4, ViewFrame DEF Fill, Drop
<1>5. CASE StreamTimeout
  BY <1>5 DEF StreamTimeout, PhaseInv, ViewInv
<1>6. CASE StreamOpen
  BY <1>a, <1>6, ViewStreamOpen
<1>7. CASE HandleEvent
  BY <1>a, <1>7, ViewHandleEvent
<1>8. CASE OnPodTerminating
  <2>1. CASE pods[leaving] = "unknown" /\ EndJob
    <3>1. /\ leaving \in Pods /\ leaving' = NoPod
          /\ UNCHANGED <<phase, stream, events, missed>>
          /\ pods' = [pods EXCEPT ![leaving] = "unknown"]
      BY <1>a, <1>8, <2>1 DEF OnPodTerminating, EndJob, TypeOK
    <3> QED
      BY <1>a, <3>1, ViewForgotten
  <2>2. CASE UNCHANGED leaving
    BY <1>8, <2>2, ViewFrame DEF OnPodTerminating
  <2> QED
    BY <1>8, <2>1, <2>2 DEF OnPodTerminating
<1>9. CASE SnapshotLeaving \/ StartMoving \/ StopMoving
  BY <1>9, ViewFrame DEF SnapshotLeaving, StartMoving, StopMoving
<1>b. ASSUME Interrupted, UNCHANGED pods PROVE PhaseInv' /\ ViewInv'
  BY <1>b, ViewInterrupted DEF PhaseInv
<1>10. ASSUME NEW k \in Keys, ScoreKey(k) \/ MoveKey(k) \/ SweepKey(k)
       PROVE  PhaseInv' /\ ViewInv'
  <2>1. UNCHANGED pods /\ (Interrupted \/ UNCHANGED <<cluster, leaving>>)
    BY <1>10 DEF ScoreKey, MoveKey, Attempted, SweepKey
  <2> QED
    BY <1>b, <2>1, ViewFrame
<1>11. CASE Unregister
  BY <1>b, <1>11, ViewFrame DEF Unregister
<1>12. CASE ForgetPod
  <2>1. leaving \in Pods
    BY <1>a, <1>12 DEF ForgetPod, TypeOK
  <2>2. /\ pods' = [pods EXCEPT ![leaving] = "unknown"] /\ leaving' = NoPod
        /\ UNCHANGED cluster
    BY <1>12 DEF ForgetPod, EndJob
  <2> QED
    BY <1>a, <2>1, <2>2, ViewForgotten
<1>13. ASSUME NEW t \in Threads, PrefetchThread(t) PROVE PhaseInv' /\ ViewInv'
  BY <1>13, ViewFrame
     DEF PrefetchThread, ProbeTarget, SnapshotSibling, CopyKey, RegisterKey
<1>14. CASE WatchError
  BY <1>b, <1>14 DEF WatchError
<1>15. CASE Restart
  BY <1>15, ViewInterrupted DEF Restart
<1>16. CASE L2Restart
  BY <1>16, ViewFrame DEF L2Restart
<1>17. CASE UNCHANGED vars
  BY <1>17, ViewFrame DEF vars
<1> QED
  BY <1>1, <1>2, <1>3, <1>4, <1>5, <1>6, <1>7, <1>8, <1>9, <1>10, <1>11,
     <1>12, <1>13, <1>14, <1>15, <1>16, <1>17 DEF Next, Cluster, WatchThread

\* Whenever the watch thread has handled all that an open stream has sent,
\* self.pods is the cluster, whatever failed before: no exception, restart or
\* gap of the watch leaves a lasting error in it but a pod whose DELETED was
\* lost (on_pod_event, on_pod_terminating, watch_pods).
THEOREM ViewFollows == Spec => []ViewFollowsCluster
<1>1. TypeInv /\ ViewInv => ViewFollowsCluster
  <2> SUFFICES ASSUME TypeInv, ViewInv, stream, events = <<>>, pc = "idle",
                      NEW p \in Pods \ missed
               PROVE  pods[p] = Expected(phase[p])
    BY DEF ViewFollowsCluster, Expected
  <2>1. leaving = NoPod /\ NoPod \notin Pods
    BY DEF TypeInv, TypeOK
  <2>2. Settled(p)
    BY DEF ViewInv
  <2> QED
    BY <2>1, <2>2 DEF Settled
<1> QED
  BY <1>1, TypeInit, TypeStep, GoneInit, GoneStep, ViewInit, ViewStep, PTL DEF Spec

-----------------------------------------------------------------------------
(* PrefetchAgreesWithRouting.                                              *)

\* The ring of the spawn, and what it picks.
RingOf(rec) == rec.siblings \cup {rec.target}
Routed(rec) ==
    \A i \in DOMAIN rec.topn : HashesTo(RingOf(rec), rec.topn[i], rec.target)

TopnInv == \A t \in Threads : Routed(prefetch[t])

LEMMA NoneRouted == Routed(NoPrefetch)
BY DEF Routed, NoPrefetch

\* What the transfer and the registrations change keeps the keys and the ring.
LEMMA SameRouted ==
    ASSUME NEW rec \in Running, Routed(rec), NEW n, NEW ok, NEW st
    PROVE  /\ Routed([rec EXCEPT !.st = st])
           /\ Routed([rec EXCEPT !.next = n])
           /\ Routed([rec EXCEPT !.next = n, !.ok = ok])
           /\ Routed([rec EXCEPT !.st = st, !.next = n, !.ok = ok])
BY DEF Running, Routed, RingOf

LEMMA BecomesRouted ==
    ASSUME TypeOK, TopnInv, NEW t \in Threads, NEW rec, Routed(rec), Becomes(t, rec)
    PROVE  TopnInv'
BY DEF TypeOK, TopnInv, Becomes

LEMMA TopnInit == Init => TopnInv
BY NoneRouted DEF Init, TopnInv

LEMMA TopnStep == TypeInv /\ TopnInv /\ [Next]_vars => TopnInv'
<1> SUFFICES ASSUME TypeInv, TopnInv, [Next]_vars PROVE TopnInv'
  OBVIOUS
<1>a. TypeOK
  BY DEF TypeInv
<1>b. ASSUME UNCHANGED prefetch PROVE TopnInv'
  BY <1>b DEF TopnInv
<1>c. ASSUME NEW t \in Threads, ThreadEnds(t) PROVE TopnInv'
  BY <1>a, <1>c, NoneRouted, BecomesRouted DEF ThreadEnds
<1>1. CASE HandleEvent
  <2> DEFINE p == Head(events).pod
             became == Observed(Head(events).phase) = "ready" /\ pods[p] # "ready"
  <2>1. UNCHANGED prefetch \/ SpawnPrefetch(p, became)
    BY <1>1 DEF HandleEvent, OnPodEvent, Registered, NotRegistered
  <2>2. \A source : Routed([st |-> "settle", target |-> p, source |-> source,
                            siblings |-> Siblings(p), topn |-> <<>>, next |-> 1, ok |-> 0])
    BY DEF Routed
  <2>3. ASSUME SpawnPrefetch(p, became) PROVE TopnInv'
    <3>1. CASE UNCHANGED prefetch
      BY <1>b, <3>1
    <3>2. ASSUME NEW t \in Threads, NEW source,
                 Becomes(t, [st |-> "settle", target |-> p, source |-> source,
                             siblings |-> Siblings(p), topn |-> <<>>, next |-> 1, ok |-> 0])
          PROVE  TopnInv'
      BY <1>a, <2>2, <3>2, BecomesRouted
    <3> QED
      BY <2>3, <3>1, <3>2 DEF SpawnPrefetch, Becomes
  <2> QED
    BY <1>b, <2>1, <2>3
<1>2. ASSUME NEW t \in Threads, ProbeTarget(t) PROVE TopnInv'
  <2>1. prefetch[t] \in Running /\ Routed(prefetch[t])
    BY <1>a, <1>2, RunningType DEF ProbeTarget, TopnInv
  <2>2. Routed([prefetch[t] EXCEPT !.st = "snapshot"])
    BY <2>1, SameRouted
  <2> QED
    BY <1>a, <1>c, <1>2, <2>2, BecomesRouted DEF ProbeTarget
<1>3. ASSUME NEW t \in Threads, SnapshotSibling(t) PROVE TopnInv'
  <2> DEFINE rec == prefetch[t]
             n == Cardinality(Filtered(rec))
             m == IF n < TopN THEN n ELSE TopN
  <2>1. rec \in Running
    BY <1>a, <1>3, RunningType DEF SnapshotSibling
  <2>2. ASSUME NEW topn \in Arrangements(Filtered(rec), m)
        PROVE  Routed([rec EXCEPT !.st = "copy", !.topn = topn])
    <3>1. \A i \in DOMAIN topn : topn[i] \in Filtered(rec)
      BY DEF Arrangements
    <3>2. \A i \in DOMAIN topn : HashesTo(RingOf(rec), topn[i], rec.target)
      BY <3>1 DEF Filtered, RingOf
    <3> QED
      BY <2>1, <3>2 DEF Routed, RingOf, Running
  <2>3. \/ ThreadEnds(t)
        \/ \E topn \in Arrangements(Filtered(rec), m) :
             Becomes(t, [rec EXCEPT !.st = "copy", !.topn = topn])
    BY <1>3 DEF SnapshotSibling
  <2> QED
    BY <1>a, <1>c, <2>2, <2>3, BecomesRouted
<1>4. ASSUME NEW t \in Threads, CopyKey(t) PROVE TopnInv'
  <2> DEFINE rec == prefetch[t]
  <2>1. rec \in Running /\ Routed(rec)
    BY <1>a, <1>4, RunningType DEF CopyKey, TopnInv
  <2>2. \A ok : /\ Routed([rec EXCEPT !.next = @ + 1, !.ok = ok])
                /\ Routed([rec EXCEPT !.st = "register", !.next = 1, !.ok = ok])
    <3> HIDE DEF rec
    <3> QED
      BY <2>1, SameRouted
  <2>3. PICK ok : Advance(t, ok)
    BY <1>4 DEF CopyKey
  <2> QED
    BY <1>a, <2>2, <2>3, BecomesRouted DEF Advance
<1>5. ASSUME NEW t \in Threads, RegisterKey(t) PROVE TopnInv'
  <2>1. prefetch[t] \in Running /\ Routed(prefetch[t])
    BY <1>a, <1>5, RunningType DEF RegisterKey, TopnInv
  <2>2. Routed([prefetch[t] EXCEPT !.next = @ + 1])
    BY <2>1, SameRouted
  <2> QED
    BY <1>a, <1>c, <1>5, <2>2, BecomesRouted DEF RegisterKey
<1>6. CASE Restart
  BY <1>6, NoneRouted DEF Restart, TopnInv
<1>7. CASE \/ Cluster \/ StreamTimeout \/ StreamOpen \/ WatchError \/ L2Restart
           \/ UNCHANGED vars
  BY <1>b, <1>7 DEF Cluster, Lifecycle, Flap, Touch, Fill, Drop, StreamTimeout,
                    StreamOpen, WatchError, L2Restart, vars
<1>8. CASE \/ OnPodTerminating \/ SnapshotLeaving \/ StartMoving \/ StopMoving
           \/ Unregister \/ ForgetPod
           \/ \E k \in Keys : ScoreKey(k) \/ MoveKey(k) \/ SweepKey(k)
  BY <1>b, <1>8 DEF OnPodTerminating, SnapshotLeaving, StartMoving, StopMoving,
                    Unregister, ForgetPod, ScoreKey, MoveKey, SweepKey
<1> QED
  BY <1>1, <1>2, <1>3, <1>4, <1>5, <1>6, <1>7, <1>8
     DEF Next, WatchThread, PrefetchThread

\* As long as the ready pods are those of the spawn, the controller copies to
\* a new pod only keys that the load generator sends there: both take the
\* index of the sorted IPs for the key's hash (_prefetch_into, pick_pod).
THEOREM PrefetchAgrees == Spec => []PrefetchAgreesWithRouting
<1>1. TypeInv /\ TopnInv => PrefetchAgreesWithRouting
  <2> SUFFICES ASSUME TypeInv, TopnInv, NEW t \in Threads,
                      RingOf(prefetch[t]) = RouterRing,
                      NEW i \in DOMAIN prefetch[t].topn
               PROVE  HashTarget(RouterRing, prefetch[t].topn[i]) = prefetch[t].target
    BY DEF PrefetchAgreesWithRouting, RingOf
  <2> DEFINE rec == prefetch[t]
  <2>1. rec \in Running
    <3>1. rec # NoPrefetch
      BY DEF NoPrefetch
    <3> QED
      BY <3>1 DEF TypeInv, TypeOK, PrefetchLocals
  <2>2. rec.topn[i] \in Keys
    <3>1. rec.topn \in Seq(Keys)
      BY <2>1 DEF Running
    <3>2. i \in DOMAIN rec.topn
      OBVIOUS
    <3> HIDE DEF rec
    <3> QED
      BY <3>1, <3>2, ElementOfSeq, LenProperties
  <2>3. HashesTo(RouterRing, rec.topn[i], rec.target)
    BY DEF TopnInv, Routed
  <2>4. RouterRing \in SUBSET Pods /\ rec.target \in RouterRing
    BY DEF RouterRing, RingOf
  <2> QED
    BY <2>2, <2>3, <2>4, EveryKeyHasOneOwner
<1> QED
  BY <1>1, TypeInit, TypeStep, TopnInit, TopnStep, PTL DEF Spec

-----------------------------------------------------------------------------
(* RegistryMatchesView.                                                    *)

\* Until a call fails, the registry lists self.pods, less the pod whose
\* replicas are being swept.
Listed == IF pc = "sweep" THEN Known \ {leaving} ELSE Known
RegistryInv == faults = 0 => l2pods = Listed /\ l2versions = Listed

LEMMA FaultIsSeen ==
    ASSUME TypeOK, NEW kind, Fault(kind)
    PROVE  RegistryInv'
BY DEF TypeOK, Fault, RegistryInv

LEMMA RegistryFrame ==
    ASSUME TypeOK, RegistryInv, UNCHANGED <<pods, leaving, l2pods, l2versions>>,
           pc' = pc \/ "sweep" \notin {pc, pc'},
           UNCHANGED faults \/ \E kind \in Faults : Fault(kind)
    PROVE  RegistryInv'
<1>1. CASE UNCHANGED faults
  BY <1>1 DEF RegistryInv, Listed, Known
<1>2. CASE \E kind \in Faults : Fault(kind)
  BY <1>2, FaultIsSeen
<1> QED
  BY <1>1, <1>2

LEMMA RegistryHandleEvent ==
    ASSUME TypeOK, RegistryInv, HandleEvent
    PROVE  RegistryInv'
<1> DEFINE p == Head(events).pod
           ph == Head(events).phase
<1>1. pc = "idle" /\ p \in Pods
  BY HeadType DEF HandleEvent
<1>2. CASE OnPodEvent(p, ph) /\ ph \notin {"pending", "gone"}
  <2>1. Known' = Known \cup {p}
    BY <1>1, <1>2 DEF OnPodEvent, Observed, Known, TypeOK
  <2>2. CASE NotRegistered(p)
    BY <2>2, FaultIsSeen DEF NotRegistered
  <2>3. CASE Registered(p, ph)
    <3>1. /\ l2pods' = l2pods \cup {p} /\ l2versions' = l2versions \cup {p}
          /\ pc' # "sweep" /\ UNCHANGED faults
      BY <1>1, <2>3 DEF Registered
    <3> QED
      BY <1>1, <2>1, <3>1 DEF RegistryInv, Listed
  <2> QED
    BY <1>2, <2>2, <2>3 DEF OnPodEvent
<1>3. CASE pc' \in {"idle", "terminate"} /\ UNCHANGED <<pods, l2, faults>>
  BY <1>1, <1>3 DEF RegistryInv, Listed, Known, l2
<1>4. CASE ph = "pending" /\ UNCHANGED <<watcher, l2, faults>>
  BY <1>1, <1>3, <1>4 DEF watcher
<1> QED
  BY <1>2, <1>3, <1>4 DEF HandleEvent

LEMMA RegistryStep == TypeInv /\ RegistryInv /\ [Next]_vars => RegistryInv'
<1> SUFFICES ASSUME TypeInv, RegistryInv, [Next]_vars PROVE RegistryInv'
  OBVIOUS
<1>a. TypeOK
  BY DEF TypeInv
<1>b. ASSUME NEW p, CallFails(p)
      PROVE  UNCHANGED faults \/ \E kind \in Faults : Fault(kind)
  BY <1>b DEF CallFails, Fault
<1>1. CASE Cluster \/ StreamTimeout \/ StreamOpen \/ UNCHANGED vars
  <2>1. UNCHANGED <<watcher, l2, faults>>
    BY <1>1 DEF Cluster, Lifecycle, Flap, Touch, Fill, Drop, StreamTimeout,
                StreamOpen, vars
  <2> QED
    BY <1>a, <2>1, RegistryFrame DEF watcher, job, l2
<1>2. CASE HandleEvent
  BY <1>a, <1>2, RegistryHandleEvent
<1>3. CASE OnPodTerminating
  BY <1>3 DEF OnPodTerminating, EndJob, RegistryInv, Listed, Known, l2
<1>4. CASE SnapshotLeaving
  <2>1. /\ UNCHANGED <<pods, leaving, l2pods, l2versions>>
        /\ pc = "snapshot" /\ pc' \in {"score", "remove"}
        /\ UNCHANGED faults \/ CallFails(leaving)
    BY <1>4 DEF SnapshotLeaving, l2
  <2> QED
    BY <1>a, <1>b, <2>1, RegistryFrame
<1>5. CASE StartMoving \/ StopMoving
  <2>1. /\ UNCHANGED <<pods, leaving, l2pods, l2versions>>
        /\ "sweep" \notin {pc, pc'}
        /\ UNCHANGED faults \/ Fault("deadline")
    BY <1>5 DEF StartMoving, StopMoving, job, l2
  <2> QED
    BY <1>a, <2>1, RegistryFrame DEF Fault
<1>6. ASSUME NEW k \in Keys, ScoreKey(k) PROVE RegistryInv'
  <2>1. CASE Fault("l2")
    BY <1>a, <2>1, FaultIsSeen
  <2>2. CASE UNCHANGED <<pc, leaving, faults>>
    BY <1>a, <1>6, <2>2, RegistryFrame DEF ScoreKey, l2
  <2> QED
    BY <1>6, <2>1, <2>2 DEF ScoreKey
<1>7. ASSUME NEW k \in Keys, MoveKey(k) PROVE RegistryInv'
  <2>1. CASE Fault("l2")
    BY <1>a, <2>1, FaultIsSeen
  <2>2. CASE /\ Attempted(k)
             /\ \/ UNCHANGED faults
                \/ CallFails(leaving) \/ CallFails(HashTarget(survivors, k))
    BY <1>a, <1>b, <1>7, <2>2, RegistryFrame DEF MoveKey, Attempted
  <2> QED
    BY <1>7, <2>1, <2>2 DEF MoveKey, NotCopied
<1>8. CASE Unregister
  <2>1. CASE Fault("l2")
    BY <1>a, <2>1, FaultIsSeen
  <2>2. CASE /\ l2pods' = l2pods \ {leaving} /\ l2versions' = l2versions \ {leaving}
             /\ pc' = "sweep" /\ UNCHANGED <<leaving, faults>>
    BY <1>8, <2>2 DEF Unregister, RegistryInv, Listed, Known
  <2> QED
    BY <1>8, <2>1, <2>2 DEF Unregister
<1>9. ASSUME NEW k \in Keys, SweepKey(k) PROVE RegistryInv'
  <2>1. CASE Fault("l2")
    BY <1>a, <2>1, FaultIsSeen
  <2>2. CASE UNCHANGED <<pc, leaving, faults>>
    BY <1>a, <1>9, <2>2, RegistryFrame DEF SweepKey
  <2> QED
    BY <1>9, <2>1, <2>2 DEF SweepKey
<1>10. CASE ForgetPod
  <2>1. /\ pods' = [pods EXCEPT ![leaving] = "unknown"] /\ pc' = "idle"
        /\ UNCHANGED <<l2pods, l2versions, faults>> /\ pc = "sweep"
    BY <1>10 DEF ForgetPod, EndJob, l2
  <2>2. Known' = Known \ {leaving}
    BY <1>a, <2>1 DEF Known, TypeOK
  <2> QED
    BY <2>1, <2>2 DEF RegistryInv, Listed
<1>11. ASSUME NEW t \in Threads, PrefetchThread(t) PROVE RegistryInv'
  <2>1. UNCHANGED <<watcher, l2pods, l2versions>>
    BY <1>11 DEF PrefetchThread, ProbeTarget, SnapshotSibling, CopyKey, RegisterKey, l2
  <2>2. UNCHANGED faults \/ \E kind \in Faults : Fault(kind)
    BY <1>b, <1>11 DEF PrefetchThread, ProbeTarget, SnapshotSibling, CopyKey,
                       RegisterKey, NotCopied, Fault
  <2> QED
    BY <1>a, <2>1, <2>2, RegistryFrame DEF watcher, job
<1>12. CASE WatchError \/ Restart \/ L2Restart
  BY <1>a, <1>12, FaultIsSeen DEF WatchError, Restart, L2Restart
<1> QED
  BY <1>1, <1>2, <1>3, <1>4, <1>5, <1>6, <1>7, <1>8, <1>9, <1>10, <1>11, <1>12
     DEF Next, WatchThread

\* Between two events, as long as no call failed, both hashes of L2 list
\* exactly self.pods (l2_register_pod, l2_remove_pod, self.pods.pop).
THEOREM RegistryMatches == Spec => []RegistryMatchesView
<1>1. Init => RegistryInv
  BY DEF Init, RegistryInv, Listed, Known
<1>2. RegistryInv => RegistryMatchesView
  BY DEF RegistryInv, Listed, RegistryMatchesView
<1> QED
  BY <1>1, <1>2, TypeInit, TypeStep, RegistryStep, PTL DEF Spec

-----------------------------------------------------------------------------
(* SoleCopiesFirst.                                                        *)

Spare(k) == Cardinality(sk[k] \ {leaving}) >= RMin

\* A key is in one of the three lists, and what was spare stays so: until L2
\* restarts, Sk only grows but for the leaving pod.
RankInv ==
    /\ pc \in {"idle", "terminate", "snapshot"} =>
         snap = {} /\ mandatory = {} /\ optional = {}
    /\ snap \cap (mandatory \cup optional) = {}
    /\ mandatory \cap optional = {}
    /\ \A k \in optional : Spare(k)

LEMMA SpareType ==
    ASSUME TypeOK, NEW k \in Keys
    PROVE  Cardinality(sk[k] \ {leaving}) \in Nat
BY RingFinite DEF TypeOK

LEMMA StaysSpare ==
    ASSUME TypeOK, TypeOK', NEW k \in Keys, Spare(k),
           sk[k] \ {leaving} \subseteq sk'[k] \ {leaving'}
    PROVE  Spare(k)'
<1> DEFINE S == sk'[k] \ {leaving'}
           T == sk[k] \ {leaving}
<1>1. S \in SUBSET Pods /\ IsFiniteSet(S) /\ Cardinality(S) \in Nat
  BY RingFinite DEF TypeOK
<1>2. T \in SUBSET S /\ Cardinality(T) \in Nat /\ Cardinality(T) >= RMin
  BY SpareType DEF Spare
<1>3. Cardinality(T) <= Cardinality(S)
  BY <1>1, <1>2, FS_Subset
<1>4. Cardinality(S) >= RMin
  <2> HIDE DEF S, T
  <2> QED
    BY <1>1, <1>2, <1>3
<1> QED
  BY <1>4 DEF Spare

\* Sk may grow, and it may lose the leaving pod.
LEMMA RankFrame ==
    ASSUME TypeOK, TypeOK', RankInv, UNCHANGED <<snap, mandatory, optional, leaving>>,
           \A k \in Keys : sk[k] \ {leaving} \subseteq sk'[k],
           pc' = pc \/ pc' \notin {"idle", "terminate", "snapshot"}
                    \/ pc \in {"idle", "terminate", "snapshot"}
    PROVE  RankInv'
<1>1. \A k \in optional : k \in Keys /\ Spare(k)
  BY DEF TypeOK, RankInv
<1>2. \A k \in optional' : Spare(k)'
  BY <1>1, StaysSpare
<1> QED
  BY <1>2 DEF RankInv

LEMMA RankEnds == ASSUME EndJob PROVE RankInv'
BY DEF EndJob, RankInv

LEMMA RankStep ==
    ASSUME "l2restart" \notin Faults, TypeInv, TypeOK', RankInv, [Next]_vars
    PROVE  RankInv'
<1>a. TypeOK
  BY DEF TypeInv
<1>b. ASSUME NEW k, NEW p \in Pods, sk' = [sk EXCEPT ![k] = @ \cup {p}]
      PROVE  \A j \in Keys : sk[j] \ {leaving} \subseteq sk'[j]
  BY <1>a, <1>b DEF TypeOK
<1>1. CASE Cluster \/ StreamTimeout \/ StreamOpen \/ UNCHANGED vars
  <2>1. UNCHANGED <<watcher, sk>>
    BY <1>1 DEF Cluster, Lifecycle, Flap, Touch, Fill, Drop, StreamTimeout,
                StreamOpen, l2, vars
  <2> QED
    BY <1>a, <2>1, RankFrame DEF watcher, job
<1>2. CASE HandleEvent
  <2>1. snap = {} /\ mandatory = {} /\ optional = {}
    BY <1>2 DEF HandleEvent, RankInv
  <2>2. \/ UNCHANGED <<snap, mandatory, optional>>
        \/ snap' = {} /\ mandatory' = {} /\ optional' = {}
    BY <1>2 DEF HandleEvent, OnPodEvent, Registered, NotRegistered, Interrupted,
                EndJob, watcher, job
  <2> QED
    BY <2>1, <2>2 DEF RankInv
<1>3. CASE OnPodTerminating
  <2>1. CASE EndJob
    BY <2>1, RankEnds
  <2>2. CASE UNCHANGED <<leaving, snap, mandatory, optional>>
    <3>1. pc = "terminate" /\ UNCHANGED sk
      BY <1>3 DEF OnPodTerminating, l2
    <3> QED
      BY <1>a, <2>2, <3>1, RankFrame
  <2> QED
    BY <1>3, <2>1, <2>2 DEF OnPodTerminating
<1>4. CASE SnapshotLeaving
  <2>1. pc = "snapshot" /\ pc' \in {"score", "remove"} /\ UNCHANGED <<mandatory, optional>>
    BY <1>4 DEF SnapshotLeaving
  <2> QED
    BY <2>1 DEF RankInv
<1>5. CASE StartMoving \/ StopMoving
  <2>1. /\ UNCHANGED <<snap, mandatory, optional, leaving, sk>>
        /\ pc' \in {"move", "remove"}
    BY <1>5 DEF StartMoving, StopMoving, job, l2
  <2> QED
    BY <1>a, <2>1, RankFrame
<1>6. ASSUME NEW k \in Keys, ScoreKey(k) PROVE RankInv'
  <2>1. CASE Interrupted
    BY <2>1, RankEnds DEF Interrupted
  <2>2. CASE /\ snap' = snap \ {k} /\ UNCHANGED <<pc, leaving>>
             /\ IF Cardinality(sk[k] \ {leaving}) < RMin
                THEN mandatory' = mandatory \cup {k} /\ UNCHANGED optional
                ELSE optional' = optional \cup {k} /\ UNCHANGED mandatory
    <3>1. pc = "score" /\ k \in snap /\ UNCHANGED sk
      BY <1>6 DEF ScoreKey, l2
    <3>2. \A j \in optional' : Spare(j)'
      <4> SUFFICES ASSUME NEW j \in optional' PROVE Spare(j)'
        OBVIOUS
      <4>1. CASE j \in optional
        BY <2>2, <3>1, <4>1 DEF RankInv, Spare
      <4>2. CASE j \notin optional
        <5>1. j = k /\ ~(Cardinality(sk[k] \ {leaving}) < RMin)
          BY <2>2, <4>2
        <5>2. Cardinality(sk[k] \ {leaving}) \in Nat /\ RMin \in Nat
          BY <1>a, SpareType
        <5>3. Spare(k)
          BY <5>1, <5>2 DEF Spare
        <5> QED
          BY <2>2, <3>1, <5>1, <5>3 DEF Spare
      <4> QED
        BY <4>1, <4>2
    <3> QED
      BY <2>2, <3>1, <3>2 DEF RankInv
  <2> QED
    BY <1>6, <2>1, <2>2 DEF ScoreKey
<1>7. ASSUME NEW k \in Keys, MoveKey(k) PROVE RankInv'
  <2> DEFINE receiver == HashTarget(survivors, k)
  <2>1. CASE Interrupted
    BY <2>1, RankEnds DEF Interrupted
  <2>2. CASE Attempted(k) /\ (UNCHANGED sk \/ sk' = [sk EXCEPT ![k] = @ \cup {receiver}])
    <3>1. /\ pc' = pc /\ pc = "move" /\ leaving' = leaving /\ snap' = snap
          /\ mandatory' = mandatory \ {k} /\ optional' = optional \ {k}
      BY <1>7, <2>2 DEF Attempted, MoveKey
    <3>2. receiver \in Pods
      BY <3>1, ReceiverIsSurvivor DEF TypeInv, TypeOK
    <3>3. \A j \in Keys : sk[j] \ {leaving} \subseteq sk'[j] \ {leaving'}
      BY <1>b, <2>2, <3>1, <3>2
    <3>4. \A j \in optional' : j \in Keys /\ Spare(j)
      BY <1>a, <3>1 DEF RankInv, TypeOK
    <3>5. \A j \in optional' : Spare(j)'
      BY <1>a, <3>3, <3>4, StaysSpare
    <3> QED
      BY <3>1, <3>5 DEF RankInv
  <2> QED
    BY <1>7, <2>1, <2>2 DEF MoveKey
<1>8. CASE Unregister
  <2>1. CASE Interrupted
    BY <2>1, RankEnds DEF Interrupted
  <2>2. CASE pc' = "sweep" /\ UNCHANGED <<leaving, snap, mandatory, optional, sk>>
    BY <1>a, <2>2, RankFrame
  <2> QED
    BY <1>8, <2>1, <2>2 DEF Unregister
<1>9. ASSUME NEW k \in Keys, SweepKey(k) PROVE RankInv'
  <2>1. CASE Interrupted
    BY <2>1, RankEnds DEF Interrupted
  <2>2. CASE /\ sk' = [sk EXCEPT ![k] = @ \ {leaving}]
             /\ UNCHANGED <<pc, leaving, snap, mandatory, optional>>
    <3>1. \A j \in Keys : sk[j] \ {leaving} \subseteq sk'[j]
      BY <1>a, <2>2 DEF TypeOK
    <3> QED
      BY <1>a, <2>2, <3>1, RankFrame
  <2> QED
    BY <1>9, <2>1, <2>2 DEF SweepKey
<1>10. CASE ForgetPod \/ WatchError \/ Restart
  BY <1>10, RankEnds DEF ForgetPod, WatchError, Restart, Interrupted
<1>11. ASSUME NEW t \in Threads, PrefetchThread(t) PROVE RankInv'
  <2>1. UNCHANGED watcher
    BY <1>11 DEF PrefetchThread, ProbeTarget, SnapshotSibling, CopyKey, RegisterKey
  <2>2. \A j \in Keys : sk[j] \ {leaving} \subseteq sk'[j]
    <3>1. CASE UNCHANGED sk
      BY <3>1
    <3>2. CASE ~ UNCHANGED sk
      <4> DEFINE rec == prefetch[t]
      <4>1. RegisterKey(t) /\ sk' = [sk EXCEPT ![rec.topn[rec.next]] = @ \cup {rec.target}]
        BY <1>11, <3>2 DEF PrefetchThread, ProbeTarget, SnapshotSibling, CopyKey,
                           RegisterKey, l2
      <4>2. rec \in Running
        BY <1>a, <4>1, RunningType DEF RegisterKey
      <4>3. rec.target \in Pods
        BY <4>2 DEF Running
      <4> QED
        BY <1>b, <4>1, <4>3
    <3> QED
      BY <3>1, <3>2
  <2> QED
    BY <1>a, <2>1, <2>2, RankFrame DEF watcher, job
<1>12. ~ L2Restart
  BY DEF L2Restart, Fault
<1> QED
  BY <1>1, <1>2, <1>3, <1>4, <1>5, <1>6, <1>7, <1>8, <1>9, <1>10, <1>11, <1>12
     DEF Next, WatchThread

\* A key leaves `optional' during the moves in MoveKey only, and then no
\* mandatory key is left.
LEMMA OnlySpareMoved ==
    ASSUME TypeOK, RankInv, Next, pc = "move", pc' = "move",
           NEW k \in optional \ optional'
    PROVE  \A j \in mandatory \cup optional : Cardinality(sk[j] \ {leaving}) >= RMin
<1>1. PICK m \in Keys : MoveKey(m)
  <2>1. ~ UNCHANGED optional
    OBVIOUS
  <2>2. ~ (Cluster \/ StreamTimeout \/ StreamOpen \/ L2Restart)
    BY <2>1 DEF Cluster, Lifecycle, Flap, Touch, Fill, Drop, StreamTimeout,
                StreamOpen, L2Restart, watcher, job
  <2>3. ~ (\E t \in Threads : PrefetchThread(t))
    BY <2>1 DEF PrefetchThread, ProbeTarget, SnapshotSibling, CopyKey, RegisterKey,
                watcher, job
  <2>4. ~ (WatchError \/ Restart)
    BY DEF WatchError, Restart, Interrupted, EndJob
  <2>5. WatchThread
    BY <2>2, <2>3, <2>4 DEF Next
  <2> QED
    BY <2>5 DEF WatchThread, HandleEvent, OnPodTerminating, SnapshotLeaving,
                StartMoving, StopMoving, Unregister, ForgetPod, ScoreKey, SweepKey
<1>2. m \in NextToMove /\ optional' = optional \ {m}
  BY <1>1 DEF MoveKey, Attempted, Interrupted, EndJob
<1>3. m = k
  BY <1>2
<1>4. k \notin mandatory
  BY DEF RankInv
<1>5. mandatory = {}
  BY <1>2, <1>3, <1>4 DEF NextToMove
<1> QED
  BY <1>5 DEF RankInv, Spare

\* Unless L2 restarts, a migration moves no spare copy while a key with fewer
\* than R_MIN other replicas is waiting, whatever prefetches and failures
\* come in between: scored.sort() and the Sk read before it suffice.
THEOREM SoleCopiesGoFirst == "l2restart" \notin Faults /\ Spec => SoleCopiesFirst
<1> SUFFICES ASSUME "l2restart" \notin Faults PROVE Spec => SoleCopiesFirst
  OBVIOUS
<1> DEFINE Step ==
      \A k \in optional \ optional' :
         pc = "move" /\ pc' = "move" =>
           \A j \in mandatory \cup optional :
             Cardinality(sk[j] \ {leaving}) >= RMin
<1>1. Init => RankInv
  BY DEF Init, RankInv
<1>2. TypeInv /\ TypeInv' /\ RankInv /\ [Next]_vars => RankInv'
  BY RankStep DEF TypeInv
<1>3. TypeInv /\ RankInv /\ [Next]_vars => [Step]_vars
  BY OnlySpareMoved DEF TypeInv
<1>4. SoleCopiesFirst <=> [][Step]_vars
  BY DEF SoleCopiesFirst
<1> HIDE DEF Step
<1> QED
  BY <1>1, <1>2, <1>3, <1>4, TypeInit, TypeStep, PTL DEF Spec

-----------------------------------------------------------------------------
(* MigrationServesRouting.  In a deployment that only migrates, on Redis,  *)
(* and whose sidecars evict nothing.                                       *)

OnlyMigrates ==
    /\ ~EnablePrefetch /\ Backend = "redis" /\ "drop" \notin Changes
    /\ \A p \in Pods : InitPhase[p] = "stopping" => InitCache[p] = {}

\* While a pod is drained nothing reads events, so if there are none now the
\* cluster is what it was when the survivors were chosen.
Undisturbed ==
    /\ faults = 0 /\ stream /\ events = <<>> /\ missed = {}
    /\ EnableMigration /\ RouterRing # {}

Served(k) == k \in cache[HashTarget(RouterRing, k)]

StoppedEmpty == \A p \in Pods : phase[p] \in {"stopping", "gone"} => cache[p] = {}

\* Every key of the leaving pod is still to be scored or moved, or is where
\* it is routed.
Kept ==
    /\ pc \in {"snapshot", "score", "move"} => survivors = Receivers
    /\ Undisturbed =>
         /\ pc = "score" => cache[leaving] \subseteq snap \cup mandatory \cup optional
         /\ pc = "move" =>
              \A k \in cache[leaving] : k \in mandatory \cup optional \/ Served(k)
         /\ pc = "remove" => \A k \in cache[leaving] : Served(k)

ServeInv == StoppedEmpty /\ Kept
ServePremises == TypeInv /\ PhaseInv /\ ViewInv /\ NoThreads

LEMMA QuietRing ==
    ASSUME ServePremises, Undisturbed, pc # "idle"
    PROVE  Receivers = RouterRing /\ leaving \in Pods /\ phase[leaving] \in Ending
<1>1. leaving \in Pods /\ phase[leaving] \in Ending
  BY DEF ServePremises, TypeInv, TypeOK, PhaseInv
<1>2. ASSUME NEW q \in Pods, q # leaving PROVE pods[q] = "ready" <=> phase[q] = "ready"
  <2>1. (\E i \in DOMAIN events : IsLast(q, i)) \/ Settled(q)
    BY DEF ServePremises, ViewInv, Undisturbed
  <2>2. pods[q] = Expected(phase[q])
    BY <1>2, <2>1 DEF Settled, Undisturbed
  <2> QED
    BY <2>2 DEF Expected
<1> QED
  BY <1>1, <1>2 DEF Receivers, RouterRing, Ending

\* A call fails without a fault only if the callee is not serving.
LEMMA FailsForAReason ==
    ASSUME TypeOK, NEW p, CallFails(p), faults' = 0
    PROVE  phase[p] \notin {"ready", "leaving"} /\ faults = 0
BY DEF TypeOK, CallFails, Fault

\* While the controller is draining, only the application's fills change
\* the cluster without an event.
LEMMA ClusterIsQuiet ==
    ASSUME TypeOK, "drop" \notin Changes, Cluster \/ StreamTimeout \/ StreamOpen,
           pc # "idle", Undisturbed'
    PROVE  \E p \in Pods, k \in Keys : Fill(p, k)
<1>1. ASSUME NEW p \in Pods, NEW new, Announce(p, new) PROVE FALSE
  <2>1. CASE stream
    <3>1. events' = Append(events, [pod |-> p, phase |-> new]) /\ events' = <<>>
      BY <1>1, <2>1 DEF Announce, Undisturbed
    <3>2. Len(events') = Len(events) + 1 /\ Len(events) \in Nat
      BY <3>1, LenProperties DEF TypeOK
    <3> QED
      BY <3>1, <3>2, EmptySeq
  <2>2. CASE ~stream
    BY <1>1, <2>2 DEF Announce, Undisturbed
  <2> QED
    BY <2>1, <2>2
<1>2. ~ (StreamTimeout \/ StreamOpen)
  BY DEF StreamTimeout, StreamOpen, Undisturbed
<1>3. \A p \in Pods : ~ (Lifecycle(p) \/ Flap(p) \/ Touch(p))
  BY <1>1 DEF Lifecycle, Flap, Touch
<1>4. \A p \in Pods, k \in Keys : ~ Drop(p, k)
  BY DEF Drop, Change
<1> QED
  BY <1>2, <1>3, <1>4 DEF Cluster

LEMMA StoppedAreEmpty ==
    ASSUME ServePremises, ServeInv, [Next]_vars
    PROVE  StoppedEmpty'
<1>1. StoppedEmpty /\ TypeOK
  BY DEF ServeInv, ServePremises, TypeInv
<1>2. CASE UNCHANGED <<phase, cache>>
  BY <1>1, <1>2 DEF StoppedEmpty
<1>3. ASSUME NEW p \in Pods, Lifecycle(p) \/ Flap(p) \/ Touch(p) PROVE StoppedEmpty'
  <2>1. PICK new : /\ phase' = [phase EXCEPT ![p] = new]
                   /\ \/ new \notin {"stopping", "gone"}
                      \/ cache' = [cache EXCEPT ![p] = {}]
                      \/ new = phase[p] /\ cache' = cache
                   /\ \A q \in Pods : cache[q] = {} => cache'[q] = {}
    BY <1>1, <1>3 DEF Lifecycle, Flap, Touch, Announce, sidecars, TypeOK
  <2> QED
    BY <1>1, <2>1 DEF TypeOK, StoppedEmpty
<1>4. ASSUME NEW p \in Pods, NEW k \in Keys, Fill(p, k) \/ Drop(p, k) PROVE StoppedEmpty'
  <2>1. /\ phase' = phase
        /\ \A q \in Pods : cache'[q] = cache[q] \/ phase[q] = "ready" \/ cache'[q] \subseteq cache[q]
    BY <1>1, <1>4 DEF Fill, Drop, cluster, TypeOK
  <2> QED
    BY <1>1, <2>1 DEF StoppedEmpty
<1>5. ASSUME NEW k \in Keys, MoveKey(k) PROVE StoppedEmpty'
  <2> DEFINE r == HashTarget(survivors, k)
  <2>1. phase' = phase
    BY <1>5 DEF MoveKey, Attempted, Interrupted, cluster
  <2>2. CASE UNCHANGED cache
    BY <1>2, <2>1, <2>2
  <2>3. CASE CanAnswer(r) /\ cache' = [cache EXCEPT ![r] = @ \cup {k}]
    <3>1. \A q \in Pods : cache'[q] = cache[q] \/ q = r
      BY <1>1, <2>3 DEF TypeOK
    <3> QED
      BY <1>1, <2>1, <2>3, <3>1 DEF CanAnswer, StoppedEmpty
  <2> QED
    BY <1>5, <2>2, <2>3 DEF MoveKey, NotCopied, Copied, sidecars
<1>6. \A t \in Threads : ~ PrefetchThread(t)
  BY NoThreadStep DEF ServePremises
<1>7. CASE HandleEvent
  BY <1>2, <1>7 DEF HandleEvent, OnPodEvent, Registered, NotRegistered, Interrupted, sidecars
<1>8. CASE \/ OnPodTerminating \/ SnapshotLeaving \/ StartMoving \/ StopMoving
           \/ Unregister \/ ForgetPod \/ \E k \in Keys : ScoreKey(k) \/ SweepKey(k)
  BY <1>2, <1>8 DEF OnPodTerminating, SnapshotLeaving, StartMoving, StopMoving, Unregister,
                    ForgetPod, ScoreKey, SweepKey, Interrupted, cluster, sidecars
<1>9. CASE \/ StreamTimeout \/ StreamOpen \/ WatchError \/ Restart \/ L2Restart
           \/ UNCHANGED vars
  BY <1>2, <1>9 DEF StreamTimeout, StreamOpen, WatchError, Restart, L2Restart,
                    Interrupted, cluster, sidecars, vars
<1> QED
  BY <1>3, <1>4, <1>5, <1>6, <1>7, <1>8, <1>9 DEF Next, Cluster, WatchThread

LEMMA ServeMoveKey ==
    ASSUME ServePremises, ServeInv, OnlyMigrates, NEW k \in Keys, MoveKey(k),
           Undisturbed', pc' = "move"
    PROVE  \A j \in cache'[leaving'] : j \in mandatory' \cup optional' \/ Served(j)'
<1> DEFINE r == HashTarget(survivors, k)
<1>1. pc = "move" /\ TypeOK /\ faults' = 0
  BY DEF MoveKey, ServePremises, TypeInv, Undisturbed
<1>2. /\ Attempted(k)
      /\ \/ NotCopied("redis", leaving, r, k)
         \/ Copied("redis", leaving, r, k) /\ UNCHANGED faults
  BY DEF MoveKey, Interrupted, EndJob
<1>3. /\ UNCHANGED cluster /\ leaving' = leaving /\ RouterRing' = RouterRing
      /\ mandatory' = mandatory \ {k} /\ optional' = optional \ {k}
  BY <1>2 DEF Attempted, cluster, RouterRing
<1>4. faults = 0
  BY <1>1, <1>2, FailsForAReason DEF NotCopied
<1>5. Undisturbed
  BY <1>3, <1>4 DEF Undisturbed, cluster
<1>6. /\ survivors = RouterRing /\ survivors = Receivers
      /\ leaving \in Pods /\ phase[leaving] \in Ending
  BY <1>1, <1>5, QuietRing DEF ServeInv, Kept
<1>7. r \in RouterRing /\ r # leaving /\ r \in Pods /\ phase[r] = "ready"
  <2>1. r \in survivors
    BY <1>1, ReceiverIsSurvivor DEF ServePremises
  <2> QED
    BY <1>6, <2>1 DEF Receivers, RouterRing
<1>8. \A j \in cache[leaving] : j \in mandatory \cup optional \/ Served(j)
  BY <1>1, <1>5 DEF ServeInv, Kept
<1>9. CASE NotCopied("redis", leaving, r, k)
  <2>1. k \notin cache[leaving]
    <3>1. ~ CallFails(r)
      BY <1>1, <1>7, FailsForAReason
    <3>2. CASE CallFails(leaving)
      <4>1. phase[leaving] \in {"stopping", "gone"}
        BY <1>1, <1>6, <3>2, FailsForAReason DEF Ending
      <4> QED
        BY <1>6, <4>1 DEF ServeInv, StoppedEmpty
    <3> QED
      BY <1>9, <3>1, <3>2 DEF NotCopied, OnlyMigrates
  <2>2. cache' = cache
    BY <1>9 DEF NotCopied, sidecars
  <2> QED
    BY <1>3, <1>8, <2>1, <2>2 DEF Served
<1>10. CASE Copied("redis", leaving, r, k)
  <2>1. cache' = [cache EXCEPT ![r] = @ \cup {k}] /\ cache \in [Pods -> SUBSET Keys]
    BY <1>1, <1>10 DEF Copied, TypeOK
  <2>2. cache'[leaving] = cache[leaving] /\ k \in cache'[r] /\ \A q \in Pods : cache[q] \subseteq cache'[q]
    BY <1>6, <1>7, <2>1
  <2>3. k \in cache'[HashTarget(RouterRing, k)]
    BY <1>6, <2>2
  <2>4. ASSUME NEW j \in cache[leaving], Served(j) PROVE Served(j)'
    <3>1. j \in Keys
      BY <1>6, <2>1
    <3>2. HashTarget(RouterRing, j) \in Pods
      BY <1>1, <1>6, <3>1, ReceiverIsSurvivor DEF ServePremises, RouterRing
    <3> QED
      BY <1>3, <2>2, <2>4, <3>2 DEF Served
  <2> QED
    BY <1>3, <1>8, <2>2, <2>3, <2>4 DEF Served
<1> QED
  BY <1>2, <1>9, <1>10

LEMMA KeptStep ==
    ASSUME ServePremises, ServeInv, OnlyMigrates, [Next]_vars
    PROVE  Kept'
<1>a. TypeOK
  BY DEF ServePremises, TypeInv
<1>b. Kept
  BY DEF ServeInv
<1>c. ASSUME pc' \in {"idle", "terminate", "sweep"} PROVE Kept'
  BY <1>c DEF Kept
<1>d. ASSUME Interrupted PROVE Kept'
  BY <1>c, <1>d DEF Interrupted, EndJob
<1>1. CASE Cluster \/ StreamTimeout \/ StreamOpen
  <2>1. UNCHANGED watcher
    BY <1>1 DEF Cluster, Lifecycle, Flap, Touch, Fill, Drop, StreamTimeout, StreamOpen
  <2>2. CASE pc = "idle"
    BY <1>c, <2>1, <2>2 DEF watcher
  <2>3. CASE pc # "idle" /\ ~Undisturbed'
    BY <1>b, <2>1, <2>3 DEF Kept, watcher, job, Receivers
  <2>4. CASE pc # "idle" /\ Undisturbed'
    <3>1. PICK p \in Pods, k \in Keys : Fill(p, k)
      BY <1>a, <1>1, <2>4, ClusterIsQuiet DEF OnlyMigrates
    <3>2. /\ UNCHANGED <<cluster, faults>> /\ phase[p] = "ready"
          /\ cache' = [cache EXCEPT ![p] = @ \cup {k}] /\ cache \in [Pods -> SUBSET Keys]
      BY <1>a, <3>1 DEF Fill, TypeOK
    <3>3. Undisturbed /\ RouterRing' = RouterRing /\ RouterRing # {}
      BY <2>4, <3>2 DEF Undisturbed, cluster, RouterRing
    <3>4. leaving \in Pods /\ leaving # p
      BY <2>4, <3>2, <3>3, QuietRing DEF Ending
    <3>5. cache'[leaving] = cache[leaving] /\ \A q \in Pods : cache[q] \subseteq cache'[q]
      BY <3>2, <3>4
    <3>6. ASSUME NEW j \in cache[leaving], Served(j) PROVE Served(j)'
      <4>1. j \in Keys
        BY <3>2, <3>4
      <4>2. HashTarget(RouterRing, j) \in Pods
        BY <3>3, <4>1, EveryKeyHasOneOwner DEF RouterRing
      <4> QED
        BY <3>3, <3>5, <3>6, <4>2 DEF Served
    <3> QED
      BY <1>b, <2>1, <3>3, <3>5, <3>6 DEF Kept, watcher, job, Receivers
  <2> QED
    BY <2>2, <2>3, <2>4
<1>2. CASE HandleEvent
  <2>1. pc' \in {"idle", "terminate"}
    BY <1>2 DEF HandleEvent, OnPodEvent, Registered, NotRegistered, Interrupted,
                EndJob, watcher
  <2> QED
    BY <1>c, <2>1
<1>3. CASE OnPodTerminating
  <2>1. CASE EndJob
    BY <1>c, <2>1 DEF EndJob
  <2>2. CASE /\ IF EnableMigration /\ Receivers # {}
                THEN pc' = "snapshot" /\ survivors' = Receivers
                ELSE pc' = "remove" /\ UNCHANGED survivors
             /\ UNCHANGED leaving
    <3>1. pc = "terminate" /\ UNCHANGED <<cluster, pods, sidecars, faults>>
      BY <1>3 DEF OnPodTerminating
    <3>2. CASE EnableMigration /\ Receivers # {}
      BY <2>2, <3>1, <3>2 DEF Kept, Receivers
    <3>3. CASE ~(EnableMigration /\ Receivers # {})
      <4>1. ~ Undisturbed
        BY <3>1, <3>3, QuietRing DEF Undisturbed
      <4>2. ~ Undisturbed'
        BY <3>1, <4>1 DEF Undisturbed, cluster, RouterRing
      <4> QED
        BY <2>2, <3>3, <4>2 DEF Kept
    <3> QED
      BY <3>2, <3>3
  <2> QED
    BY <1>3, <2>1, <2>2 DEF OnPodTerminating
<1>4. CASE SnapshotLeaving
  <2>1. /\ pc = "snapshot" /\ UNCHANGED <<cluster, pods, leaving, survivors, sidecars>>
        /\ \/ snap' = cache[leaving] /\ pc' = "score"
           \/ CallFails(leaving) /\ pc' = "remove"
    BY <1>4 DEF SnapshotLeaving
  <2>2. CASE pc' = "score" /\ snap' = cache[leaving]
    BY <1>b, <2>1, <2>2 DEF Kept, Receivers, sidecars
  <2>3. CASE pc' = "remove" /\ CallFails(leaving)
    <3>1. ASSUME Undisturbed' PROVE cache[leaving] = {}
      <4>1. phase[leaving] \notin {"ready", "leaving"} /\ faults = 0
        BY <1>a, <2>3, <3>1, FailsForAReason DEF Undisturbed
      <4>2. Undisturbed
        BY <2>1, <3>1, <4>1 DEF Undisturbed, cluster, RouterRing
      <4>3. leaving \in Pods /\ phase[leaving] \in {"stopping", "gone"}
        BY <2>1, <4>1, <4>2, QuietRing DEF Ending
      <4> QED
        BY <4>3 DEF ServeInv, StoppedEmpty
    <3> QED
      BY <2>1, <2>3, <3>1 DEF Kept, sidecars
  <2> QED
    BY <2>1, <2>2, <2>3
<1>5. ASSUME NEW k \in Keys, ScoreKey(k) PROVE Kept'
  <2>1. CASE /\ snap' = snap \ {k}
             /\ IF Cardinality(sk[k] \ {leaving}) < RMin
                THEN mandatory' = mandatory \cup {k} /\ UNCHANGED optional
                ELSE optional' = optional \cup {k} /\ UNCHANGED mandatory
             /\ UNCHANGED <<cluster, pc, leaving, survivors, faults>>
    <3>1. pc = "score" /\ UNCHANGED <<pods, sidecars>>
      BY <1>5 DEF ScoreKey
    <3>2. Undisturbed' <=> Undisturbed
      BY <2>1 DEF Undisturbed, cluster, RouterRing
    <3>3. snap \cup mandatory \cup optional \subseteq snap' \cup mandatory' \cup optional'
      BY <2>1
    <3> QED
      BY <1>b, <2>1, <3>1, <3>2, <3>3 DEF Kept, Receivers, sidecars
  <2> QED
    BY <1>d, <1>5, <2>1 DEF ScoreKey
<1>6. CASE StartMoving \/ StopMoving
  <2>1. UNCHANGED <<cluster, pods, job, sidecars>>
    BY <1>6 DEF StartMoving, StopMoving
  <2>2. CASE StartMoving
    <3>1. pc = "score" /\ snap = {} /\ pc' = "move" /\ UNCHANGED faults
      BY <2>2 DEF StartMoving
    <3> QED
      BY <1>b, <2>1, <3>1 DEF Kept, Undisturbed, cluster, RouterRing, job, sidecars, Receivers, Served
  <2>3. CASE StopMoving
    <3>1. pc = "move" /\ pc' = "remove"
      BY <2>3 DEF StopMoving
    <3>2. Undisturbed' => Undisturbed /\ mandatory \cup optional = {}
      BY <1>a, <2>1, <2>3 DEF StopMoving, Fault, Undisturbed, cluster, RouterRing, TypeOK
    <3> QED
      BY <1>b, <2>1, <3>1, <3>2 DEF Kept, cluster, RouterRing, job, sidecars, Served
  <2> QED
    BY <1>6, <2>2, <2>3
<1>7. ASSUME NEW k \in Keys, MoveKey(k) PROVE Kept'
  <2>1. CASE pc' = "idle"
    BY <1>c, <2>1
  <2>2. CASE pc' # "idle"
    <3>1. pc = "move" /\ pc' = "move" /\ UNCHANGED <<pods, leaving, survivors>>
      BY <1>7, <2>2 DEF MoveKey, Attempted, Interrupted, EndJob
    <3> QED
      BY <1>b, <1>7, <3>1, ServeMoveKey DEF Kept, Receivers
  <2> QED
    BY <2>1, <2>2
<1>8. CASE Unregister \/ ForgetPod \/ \E k \in Keys : SweepKey(k)
  <2>1. pc' \in {"idle", "sweep"}
    BY <1>8 DEF Unregister, ForgetPod, SweepKey, Interrupted, EndJob
  <2> QED
    BY <1>c, <2>1
<1>9. CASE WatchError \/ Restart
  BY <1>d, <1>9 DEF WatchError, Restart
<1>10. CASE L2Restart
  <2>1. UNCHANGED watcher /\ ~ Undisturbed'
    BY <1>a, <1>10 DEF L2Restart, Fault, Undisturbed, TypeOK
  <2> QED
    BY <1>b, <2>1 DEF Kept, watcher, job, Receivers
<1>11. CASE UNCHANGED vars
  BY <1>b, <1>11 DEF Kept, vars, cluster, watcher, job, sidecars, Undisturbed,
                     RouterRing, Receivers, Served
<1>12. \A t \in Threads : ~ PrefetchThread(t)
  BY NoThreadStep DEF ServePremises
<1> QED
  BY <1>1, <1>2, <1>3, <1>4, <1>5, <1>6, <1>7, <1>8, <1>9, <1>10, <1>11, <1>12
     DEF Next, WatchThread

\* When a migration in which nothing failed or changed is over, every key the
\* leaving pod still has is where the load generator now looks for it: the
\* survivors are its ring, and both hash alike (_migrate_out, pick_pod).
THEOREM MigrationServes == OnlyMigrates /\ Spec => []MigrationServesRouting
<1> SUFFICES ASSUME OnlyMigrates PROVE Spec => []MigrationServesRouting
  OBVIOUS
<1>1. Init => ServeInv
  <2> SUFFICES ASSUME Init PROVE ServeInv
    OBVIOUS
  <2>1. pc = "idle" /\ phase = InitPhase /\ cache = InitCache
    BY DEF Init
  <2> QED
    BY <2>1 DEF ServeInv, StoppedEmpty, Kept, OnlyMigrates
<1>2. NoThreads /\ [Next]_vars => NoThreads'
  BY NoThreadsStep DEF OnlyMigrates
<1>3. TypeInv /\ PhaseInv /\ ViewInv /\ NoThreads /\ ServeInv /\ [Next]_vars => ServeInv'
  BY KeptStep, StoppedAreEmpty DEF ServePremises, ServeInv
<1>4. ServeInv => MigrationServesRouting
  BY DEF ServeInv, Kept, Undisturbed, Served, MigrationServesRouting
<1> QED
  BY <1>1, <1>2, <1>3, <1>4, TypeInit, TypeStep, GoneInit, GoneStep, ViewInit, ViewStep,
     NoThreadsInit, PTL DEF Spec
=============================================================================
