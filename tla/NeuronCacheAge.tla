--------------------------- MODULE NeuronCacheAge ---------------------------
(***************************************************************************)
(* NeuronCache under arbitrary use, with a history variable: the keys in   *)
(* the order of their last use, most recent last, whether or not the       *)
(* cache still holds them.                                                 *)
(***************************************************************************)
EXTENDS NeuronCache

VARIABLE used

ageVars == <<cache, used>>

Use(key) == used' = Promoted(used, key)

AgeInit == NeuronCacheInit /\ used = <<>>

(* A lookup that misses does not use the slice: its caller loads it.       *)
AgeNext ==
  \/ \E key \in Keys :
       IsLoaded(key) /\ IF key \in cache.entries THEN Use(key) ELSE UNCHANGED used
  \/ \E key \in Keys : MarkLoaded(key) /\ Use(key)
  \/ \E l \in {k[1] : k \in Keys} : EvictLayer(l) /\ UNCHANGED used

AgeSpec == AgeInit /\ [][AgeNext]_ageVars

-----------------------------------------------------------------------------
LastUse(key) ==
  IF \E i \in 1..Len(used) : used[i] = key
    THEN CHOOSE i \in 1..Len(used) : used[i] = key ELSE 0

(* "LRU order: front = least recently used": when a slice is taken in, the *)
(* one given up for it was used before every slice that stays.             *)
EvictsLeastRecent ==
  [][\A taken \in cache'.entries \ cache.entries :
       \A lost \in cache.entries \ cache'.entries,
          kept \in cache.entries \cap cache'.entries : LastUse(lost) < LastUse(kept)]_ageVars
=============================================================================
