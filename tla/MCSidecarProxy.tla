------------------------- MODULE MCSidecarProxy -------------------------
(* Instances of SidecarProxy for TLC.                                     *)
EXTENDS SidecarProxy, TLC

CONSTANTS p1, p2, p3, p4, p5,   \* pods
          c1, c2, c3, c4, c5,   \* their applications' connections
          k1,                   \* a key
          x, y,                 \* values
          v1, v2                \* version tags

\* Two pods of one version and a third of the next one, or of the same.
TwoVersions == [p \in Pods |-> IF p = p3 THEN v2 ELSE v1]
OneVersion == [p \in Pods |-> v1]

\* One connection per pod; or one of p1 and two of p2.
OneEach == [c \in Clients |->
              CASE c = c1 -> p1 [] c = c2 -> p2 [] c = c3 -> p3
                [] c = c4 -> p4 [] c = c5 -> p5]
TwoOfSecond == [c \in Clients |-> IF c = c1 THEN p1 ELSE p2]

\* Pods are interchangeable, each with its connection (OneEach).
PodSymmetry ==
    {[z \in Pods \cup Clients |->
        IF z \in Pods THEN s[z] ELSE CHOOSE c \in Clients : Home[c] = s[Home[z]]]
     : s \in Permutations(Pods)}

\* Values are interchangeable.
ValSymmetry == Permutations(Vals)
=============================================================================
