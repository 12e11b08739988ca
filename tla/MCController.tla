-------------------------- MODULE MCController --------------------------
(* Instances of Controller for TLC.                                       *)
EXTENDS Controller, TLC

CONSTANTS a, b, c,   \* pods
          x, y,      \* keys
          t1, t2     \* prefetch threads

MCIp == [p \in Pods |-> CASE p = a -> 2 [] p = b -> 1 [] OTHER -> 3]
MCHash == [k \in Keys |-> IF k = x THEN 4 ELSE 7]
OneVersion == [p \in Pods |-> "v1"]

\* A pod and its sibling serve; a third pod is serving, still booting or
\* not yet created.
ThreeReady == [p \in Pods |-> "ready"]
ThirdBooting == [p \in Pods |-> IF p = c THEN "booting" ELSE "ready"]
SecondBooting == [p \in Pods |-> IF p = b THEN "booting" ELSE "ready"]
SecondPending == [p \in Pods |-> IF p = b THEN "pending" ELSE "ready"]

WarmCache == [p \in Pods |-> IF p = a THEN {x} ELSE IF p = b THEN Keys ELSE {}]
OneWarm == [p \in Pods |-> IF p = a THEN Keys ELSE {}]

\* Prefetch threads are interchangeable.
ThreadSymmetry == Permutations(Threads)
=============================================================================
