--------------------------- MODULE MCCacheAside ---------------------------
(* Instances of CacheAside for TLC.                                        *)
EXTENDS CacheAside

\* A cache-svc, a chain of two layers, and the timeline service.
Deployed ==
    {[depth |-> 1, catches |-> TRUE, faults |-> {"cache", "evict"}],
     [depth |-> 2, catches |-> TRUE, faults |-> {"cache", "call"}],
     [depth |-> 1, catches |-> FALSE, faults |-> {"cache", "evict", "rollout"}]}
=============================================================================
