---------------------- MODULE MCMemcachedTransfer ----------------------
(* Instances of MemcachedTransfer for TLC.                                *)
EXTENDS MemcachedTransfer, TLC

CONSTANTS x, y, z,      \* keys
          e1, e2, e3    \* entries; e2 contains a terminator, e3 is its cut

\* x and y are in one slab class, z in the next; y is a HOT item.
SlabOfKeys == (x :> 1) @@ (y :> 1) @@ (z :> 2)
SlabOfTwo == (x :> 1) @@ (y :> 1)
ColdKeys == {x, z}
SourceFull == (x :> e1) @@ (y :> e1) @@ (z :> e2)
SourceTwo == (x :> e1) @@ (y :> e2)
CutOfE2 == e2 :> e3
=============================================================================
