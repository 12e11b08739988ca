---------------------------- MODULE Transfer ----------------------------
(***************************************************************************)
(* What controller/memcache_backend.py:9-11 promises of a transfer between *)
(* two memcacheds: entries arrive as the source had them, under their own  *)
(* keys, and what is counted has arrived.                                  *)
(***************************************************************************)
EXTENDS Naturals, FiniteSets

CONSTANTS Keys, Entries, Miss

VARIABLES
    had,       \* had[k]: entries the source has had for k
    target,    \* the target's entries
    sound,     \* no reply has come late, and no value was cut
    moved,     \* keys that were stored at the target
    count,     \* how many of them were counted,
    returned   \*   and whether the count was returned

tvars == <<had, target, sound, moved, count, returned>>

TInit ==
    /\ had \in [Keys -> SUBSET Entries] /\ target = [k \in Keys |-> Miss]
    /\ sound = TRUE /\ moved = {} /\ count = 0 /\ returned = FALSE

\* The source's application writes an entry.
SourceWrites(k) ==
    /\ \E e \in Entries : had' = [had EXCEPT ![k] = @ \cup {e}]
    /\ UNCHANGED <<target, sound, moved, count, returned>>

\* From here on entries may be taken for one another's.
Spoil ==
    /\ sound' = FALSE
    /\ UNCHANGED <<had, target, moved, count, returned>>

\* Each key is stored at most once.
Move(k) ==
    /\ k \notin moved /\ moved' = moved \cup {k}
    /\ \E e \in IF sound THEN had[k] ELSE Entries : target' = [target EXCEPT ![k] = e]
    /\ UNCHANGED <<had, sound, count, returned>>

Count ==
    /\ ~returned /\ count < Cardinality(moved) /\ count' = count + 1
    /\ UNCHANGED <<had, target, sound, moved, returned>>

Return ==
    /\ ~returned /\ returned' = TRUE
    /\ UNCHANGED <<had, target, sound, moved, count>>

TNext == (\E k \in Keys : SourceWrites(k) \/ Move(k)) \/ Spoil \/ Count \/ Return

TSpec == TInit /\ [][TNext]_tvars
=============================================================================
