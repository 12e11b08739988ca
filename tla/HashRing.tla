---------------------------- MODULE HashRing ----------------------------
(***************************************************************************)
(* Which pod owns a key.  The controller (prefetch and migration) and the  *)
(* load generator each sort the pod IPs and index the sorted list with a   *)
(* hash of the key; the caches are warm only if both pick the same pod.    *)
(***************************************************************************)
EXTENDS Naturals, FiniteSets

CONSTANTS
    Pods,       \* pods of the managed deployment, one name per incarnation
    Keys,       \* cached keys
    Ip,         \* Ip[p]: position of p's IP in the order sorted() gives it
    Hash        \* Hash[k]: int(md5(numeric suffix of k)[:8], 16)

ASSUME RingAssumption ==
    /\ IsFiniteSet(Pods) /\ IsFiniteSet(Keys)
    /\ Ip \in [Pods -> Nat]
    /\ \A p, q \in Pods : Ip[p] = Ip[q] => p = q
    /\ Hash \in [Keys -> Nat]

\* The position of p in the sorted list of the ring's IPs.
RingIndex(ring, p) == Cardinality({q \in ring : Ip[q] < Ip[p]})

\* The index the hash of k selects in that list.
Slot(ring, k) == Hash[k] % Cardinality(ring)

\* Is k one of the keys routed to p when the ready pods are `ring'?
HashesTo(ring, k, p) == RingIndex(ring, p) = Slot(ring, k)

\* The element of the sorted list at the index of k.
HashTarget(ring, k) == CHOOSE p \in ring : HashesTo(ring, k, p)
=========================================================================
