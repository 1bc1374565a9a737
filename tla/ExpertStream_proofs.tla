------------------------ MODULE ExpertStream_proofs ------------------------
(***************************************************************************)
(* The neuron cache by itself and expert-streaming with it, for every set  *)
(* of layers, experts and slots, every number of fused tensors and every   *)
(* capacity.                                                               *)
(*                                                                         *)
(* The cache: that the queue lists the entries is inductive once it also   *)
(* lists none twice; that the front is the least recently used key needs   *)
(* the queue to be in the order of the history (QueuedAsUsed).             *)
(*                                                                         *)
(* Expert-streaming, in four layers: PoolInv (the thread and its slots),   *)
(* IoInv (the loads it waits for), HitsInv (a cached slice is in its slot  *)
(* or about to be read there), RoutedChosen and ChosenHeld (so is what the *)
(* router picked).                                                         *)
(***************************************************************************)
EXTENDS ExpertStream, NeuronCacheAge, Lists_proofs

-----------------------------------------------------------------------------
(* The neuron cache. *)

Caches == [entries: SUBSET Keys, lru_order: Seq(Keys)]

(* The queue lists every entry, and nothing twice.                         *)
Agree(c) ==
  /\ c \in Caches
  /\ Distinct(c.lru_order)
  /\ Listed(c.lru_order) = c.entries

Room == IF Capacity = 0 THEN 1 ELSE Capacity
Fits(c) == Cardinality(c.entries) <= Room

(* Promoted puts a key at the back and leaves the order of the others. *)
LEMMA PromotedFacts ==
  ASSUME NEW list \in Seq(Keys), Distinct(list), NEW key \in Keys
  PROVE  /\ Promoted(list, key) \in Seq(Keys)
         /\ Distinct(Promoted(list, key))
         /\ Listed(Promoted(list, key)) = Listed(list) \cup {key}
         /\ \A a, b : Before(Promoted(list, key), a, b)
              <=> \/ Before(list, a, b) /\ a # key /\ b # key
                  \/ a \in Listed(list) /\ a # key /\ b = key
<1> DEFINE r == Retained(list, Keys \ {key})
<1>1. /\ r \in Seq(Keys)
      /\ Listed(r) = Listed(list) \cap (Keys \ {key})
      /\ Distinct(r)
      /\ \A a, b : Before(r, a, b) <=> Before(list, a, b) /\ a \in Keys \ {key} /\ b \in Keys \ {key}
  BY RetainedFacts
<1>2. Listed(list) \subseteq Keys
  BY DEF Listed
<1>3. \A a, b : Before(list, a, b) => a \in Keys /\ b \in Keys
  BY DEF Before
<1> HIDE DEF r
<1>4. /\ Append(r, key) \in Seq(Keys)
      /\ Listed(Append(r, key)) = Listed(r) \cup {key}
      /\ key \notin Listed(r) => Distinct(Append(r, key))
      /\ \A a, b : Before(Append(r, key), a, b)
                     <=> Before(r, a, b) \/ (a \in Listed(r) /\ b = key)
  BY <1>1, AppendFacts
<1>5. Promoted(list, key) = Append(r, key)
  BY DEF Promoted, r
<1>6. key \notin Listed(r) /\ Listed(r) \cup {key} = Listed(list) \cup {key}
  BY <1>1, <1>2
<1>7. \A a, b : Before(Append(r, key), a, b)
              <=> \/ Before(list, a, b) /\ a # key /\ b # key
                  \/ a \in Listed(list) /\ a # key /\ b = key
  BY <1>1, <1>2, <1>3, <1>4
<1> QED
  BY <1>4, <1>5, <1>6, <1>7

(* A cache whose entries are the list of its queue. *)
LEMMA AgreeCounts ==
  ASSUME NEW c, Agree(c)
  PROVE  IsFiniteSet(c.entries) /\ Cardinality(c.entries) = Len(c.lru_order)
         /\ Cardinality(c.entries) \in Nat
<1>1. c.lru_order \in Seq(Keys)
  BY DEF Agree, Caches
<1> QED
  BY <1>1, ListedCount DEF Agree

(* A hit changes the order of the queue only. *)
LEMMA PromotingKeeps ==
  ASSUME NEW c, Agree(c), NEW key \in c.entries
  PROVE  Agree([c EXCEPT !.lru_order = Promoted(@, key)])
         /\ [c EXCEPT !.lru_order = Promoted(@, key)].entries = c.entries
<1> DEFINE d == [c EXCEPT !.lru_order = Promoted(@, key)]
<1>1. c.lru_order \in Seq(Keys) /\ c.entries \in SUBSET Keys /\ c \in Caches
  BY DEF Agree, Caches
<1>2. d.entries = c.entries /\ d.lru_order = Promoted(c.lru_order, key)
      /\ (Promoted(c.lru_order, key) \in Seq(Keys) => d \in Caches)
  BY <1>1 DEF Caches
<1>3. /\ Promoted(c.lru_order, key) \in Seq(Keys)
      /\ Distinct(Promoted(c.lru_order, key))
      /\ Listed(Promoted(c.lru_order, key)) = c.entries \cup {key}
  BY <1>1, PromotedFacts DEF Agree
<1> HIDE DEF d
<1> QED
  BY <1>2, <1>3 DEF Agree, d

(* is_loaded forgets nothing, hit or miss. *)
LEMMA LookedUpKeeps ==
  ASSUME NEW c, Agree(c), NEW key \in Keys
  PROVE  Agree(LookedUp(c, key)) /\ LookedUp(c, key).entries = c.entries
  BY PromotingKeeps DEF LookedUp

(* evict_lru takes one key, the front, from the queue and the map. *)
LEMMA WithoutOldestFacts ==
  ASSUME NEW c, Agree(c), c.lru_order # <<>>
  PROVE  /\ Agree(WithoutOldest(c))
         /\ WithoutOldest(c).entries = c.entries \ {Head(c.lru_order)}
         /\ WithoutOldest(c).lru_order = Tail(c.lru_order)
         /\ Head(c.lru_order) \in c.entries
         /\ Cardinality(WithoutOldest(c).entries) = Cardinality(c.entries) - 1
<1> DEFINE d == WithoutOldest(c)
<1>1. c.lru_order \in Seq(Keys) /\ c.entries \in SUBSET Keys
  BY DEF Agree, Caches
<1>2. d.entries = c.entries \ {Head(c.lru_order)} /\ d.lru_order = Tail(c.lru_order)
      /\ d = [entries |-> c.entries \ {Head(c.lru_order)}, lru_order |-> Tail(c.lru_order)]
  BY DEF WithoutOldest
<1>3. /\ Head(c.lru_order) \in Listed(c.lru_order)
      /\ Tail(c.lru_order) \in Seq(Keys)
      /\ Len(Tail(c.lru_order)) = Len(c.lru_order) - 1
      /\ Distinct(Tail(c.lru_order))
      /\ Listed(Tail(c.lru_order)) = Listed(c.lru_order) \ {Head(c.lru_order)}
  BY <1>1, TailFacts DEF Agree
<1>4. d \in Caches
  BY <1>1, <1>2, <1>3 DEF Caches
<1>5. Agree(d)
  BY <1>2, <1>3, <1>4 DEF Agree
<1>6. Cardinality(d.entries) = Cardinality(c.entries) - 1
  <2>1. Cardinality(d.entries) = Len(d.lru_order) /\ Cardinality(c.entries) = Len(c.lru_order)
    BY <1>5, AgreeCounts
  <2> QED
    BY <1>2, <1>3, <2>1
<1> QED
  BY <1>2, <1>3, <1>5, <1>6 DEF Agree

(* The room a new key is put into.  *)
RoomFor(c) == IF Cardinality(c.entries) >= Capacity THEN WithoutOldest(c) ELSE c

(* There is room for one more key after the eviction. *)
LEMMA RoomForFacts ==
  ASSUME NEW c, Agree(c), Fits(c)
  PROVE  /\ Agree(RoomFor(c))
         /\ Cardinality(RoomFor(c).entries) < Room
         /\ RoomFor(c).entries \subseteq c.entries
<1> USE NeuronCacheAssumption
<1>1. Cardinality(c.entries) \in Nat /\ Cardinality(c.entries) = Len(c.lru_order)
      /\ c.lru_order \in Seq(Keys)
  BY AgreeCounts DEF Agree, Caches
<1>2. CASE Cardinality(c.entries) < Capacity
  <2>1. RoomFor(c) = c
    BY <1>1, <1>2 DEF RoomFor
  <2> QED
    BY <1>1, <1>2, <2>1 DEF Room
<1>3. CASE ~(Cardinality(c.entries) < Capacity) /\ c.lru_order = <<>>
  <2>1. RoomFor(c) = c /\ Cardinality(c.entries) = 0
    BY <1>1, <1>3 DEF RoomFor, WithoutOldest
  <2>2. Capacity = 0
    BY <1>1, <1>3, <2>1
  <2> QED
    BY <2>1, <2>2 DEF Room
<1>4. CASE ~(Cardinality(c.entries) < Capacity) /\ c.lru_order # <<>>
  <2>1. RoomFor(c) = WithoutOldest(c)
    BY <1>1, <1>4 DEF RoomFor
  <2>2. /\ Agree(WithoutOldest(c))
        /\ WithoutOldest(c).entries = c.entries \ {Head(c.lru_order)}
        /\ Cardinality(WithoutOldest(c).entries) = Cardinality(c.entries) - 1
    BY <1>4, WithoutOldestFacts
  <2> HIDE DEF WithoutOldest
  <2>3. Cardinality(c.entries) <= Room /\ Room \in Nat
    BY DEF Fits, Room
  <2> QED
    BY <1>1, <2>1, <2>2, <2>3
<1> QED
  BY <1>2, <1>3, <1>4

(* A new key enters the map and the back of the queue. *)
LEMMA MarkedNew ==
  ASSUME NEW c, NEW key \in Keys, key \notin c.entries
  PROVE  /\ Marked(c, key) = [entries |-> RoomFor(c).entries \cup {key},
                              lru_order |-> Append(RoomFor(c).lru_order, key)]
         /\ Marked(c, key).entries = RoomFor(c).entries \cup {key}
         /\ Marked(c, key).lru_order = Append(RoomFor(c).lru_order, key)
<1>1. Marked(c, key) = [entries |-> RoomFor(c).entries \cup {key},
                        lru_order |-> Append(RoomFor(c).lru_order, key)]
  BY DEF Marked, MarkedAbove, RoomFor
<1> HIDE DEF RoomFor
<1> QED
  BY <1>1

(* mark_loaded keeps map and queue in agreement and within the capacity. *)
LEMMA MarkedKeeps ==
  ASSUME NEW c, Agree(c), Fits(c), NEW key \in Keys
  PROVE  Agree(Marked(c, key)) /\ Fits(Marked(c, key)) /\ key \in Marked(c, key).entries
<1>1. CASE key \in c.entries
  <2>1. Marked(c, key) = [c EXCEPT !.lru_order = Promoted(@, key)]
    BY <1>1 DEF Marked, MarkedAbove
  <2>2. Agree(Marked(c, key)) /\ Marked(c, key).entries = c.entries
    BY <1>1, <2>1, PromotingKeeps
  <2> QED
    BY <1>1, <2>2 DEF Fits
<1>2. CASE key \notin c.entries
  <2> DEFINE room == RoomFor(c)
             d == Marked(c, key)
  <2>1. /\ d = [entries |-> room.entries \cup {key}, lru_order |-> Append(room.lru_order, key)]
        /\ d.entries = room.entries \cup {key}
        /\ d.lru_order = Append(room.lru_order, key)
    BY <1>2, MarkedNew
  <2>2. Agree(room) /\ Cardinality(room.entries) < Room /\ room.entries \subseteq c.entries
    BY RoomForFacts
  <2> HIDE DEF room, d
  <2>3. room.lru_order \in Seq(Keys) /\ room.entries \in SUBSET Keys
        /\ Distinct(room.lru_order) /\ Listed(room.lru_order) = room.entries
    BY <2>2 DEF Agree, Caches
  <2>4. /\ Append(room.lru_order, key) \in Seq(Keys)
        /\ Listed(Append(room.lru_order, key)) = room.entries \cup {key}
        /\ key \notin Listed(room.lru_order) => Distinct(Append(room.lru_order, key))
        /\ Len(Append(room.lru_order, key)) = Len(room.lru_order) + 1
    BY <2>3, AppendFacts
  <2>5. key \notin Listed(room.lru_order)
    BY <1>2, <2>2, <2>3
  <2>6. d \in Caches
    BY <2>1, <2>3, <2>4 DEF Caches
  <2>7. Agree(d)
    BY <2>1, <2>4, <2>5, <2>6 DEF Agree
  <2>8. Cardinality(d.entries) = Len(room.lru_order) + 1
        /\ Cardinality(room.entries) = Len(room.lru_order)
        /\ Len(room.lru_order) \in Nat
    BY <2>1, <2>2, <2>3, <2>4, <2>7, AgreeCounts
  <2>9. Fits(d)
    BY <2>2, <2>8, NeuronCacheAssumption DEF Fits, Room
  <2> QED
    BY <2>1, <2>7, <2>9 DEF d
<1> QED
  BY <1>1, <1>2

(* evict_layer drops the same keys from the map and from the queue. *)
LEMMA WithoutLayerKeeps ==
  ASSUME NEW c, Agree(c), Fits(c), NEW l
  PROVE  Agree(WithoutLayer(c, l)) /\ Fits(WithoutLayer(c, l))
<1> DEFINE others == {k \in Keys : k[1] # l}
           d == WithoutLayer(c, l)
           rest == {k \in c.entries : k[1] # l}
           q == Retained(c.lru_order, others)
<1>1. c.lru_order \in Seq(Keys) /\ c.entries \in SUBSET Keys
      /\ Distinct(c.lru_order) /\ Listed(c.lru_order) = c.entries
  BY DEF Agree, Caches
<1>2. q \in Seq(Keys) /\ Listed(q) = c.entries \cap others /\ Distinct(q)
  <2> HIDE DEF others
  <2> QED BY <1>1, RetainedFacts
<1>3. c.entries \cap others = rest
  BY <1>1
<1>4. d = [entries |-> rest, lru_order |-> q]
  BY DEF WithoutLayer
<1> HIDE DEF others, q
<1>5. d.entries = rest /\ d.lru_order = q /\ d \in Caches
  BY <1>1, <1>2, <1>4 DEF Caches
<1>6. Agree(d)
  BY <1>2, <1>3, <1>5 DEF Agree
<1>7. rest \subseteq c.entries /\ IsFiniteSet(c.entries) /\ Cardinality(c.entries) \in Nat
  BY AgreeCounts
<1>8. Cardinality(rest) <= Cardinality(c.entries) /\ IsFiniteSet(rest)
  <2> HIDE DEF rest
  <2> QED BY <1>7, FS_Subset
<1>9. Cardinality(rest) \in Nat
  BY <1>8, FS_CardinalityType
<1>10. Fits(d)
  <2> HIDE DEF rest, d
  <2> QED
    BY <1>5, <1>7, <1>8, <1>9, NeuronCacheAssumption DEF Fits, Room
<1> QED
  BY <1>6, <1>10

-----------------------------------------------------------------------------
(* The cache under arbitrary use. *)

(* What is queued was used, in the order of the queue.                     *)
QueuedAsUsed ==
  /\ used \in Seq(Keys)
  /\ Distinct(used)
  /\ cache.entries \subseteq Listed(used)
  /\ \A a, b : Before(cache.lru_order, a, b) => Before(used, a, b)

AgeInv == Agree(cache) /\ Fits(cache) /\ QueuedAsUsed

(* An empty cache agrees with an empty history. *)
LEMMA AgeInvInit == AgeInit => AgeInv
<1> SUFFICES ASSUME AgeInit PROVE AgeInv
  OBVIOUS
<1>1. cache.entries = {} /\ cache.lru_order = <<>> /\ cache \in Caches /\ used = <<>>
  BY DEF AgeInit, NeuronCacheInit, EmptyCache, Caches
<1>2. Distinct(<<>>) /\ Listed(<<>>) = {} /\ \A a, b : ~Before(<<>>, a, b)
  BY DEF Distinct, Listed, Before
<1>3. Fits(cache)
  BY <1>1, FS_EmptySet, NeuronCacheAssumption DEF Fits, Room
<1> QED
  BY <1>1, <1>2, <1>3 DEF AgeInv, Agree, QueuedAsUsed

(* A key that is used moves to the back of both lists.                     *)
LEMMA UseKeeps ==
  ASSUME AgeInv, NEW key \in Keys, Use(key),
         cache'.entries \subseteq cache.entries \cup {key},
         \A a, b : Before(cache'.lru_order, a, b) =>
           \/ Before(cache.lru_order, a, b) /\ a # key /\ b # key
           \/ a \in cache.entries /\ a # key /\ b = key
  PROVE  QueuedAsUsed'
<1>1. /\ used' = Promoted(used, key)
      /\ used' \in Seq(Keys)
      /\ Distinct(used')
      /\ Listed(used') = Listed(used) \cup {key}
      /\ \A a, b : Before(used', a, b)
           <=> \/ Before(used, a, b) /\ a # key /\ b # key
               \/ a \in Listed(used) /\ a # key /\ b = key
  BY PromotedFacts DEF Use, AgeInv, QueuedAsUsed
<1> QED
  BY <1>1 DEF QueuedAsUsed, AgeInv

(* A key that is held and used again. *)
LEMMA PromotionKeeps ==
  ASSUME AgeInv, NEW key \in cache.entries, Use(key),
         cache' = [cache EXCEPT !.lru_order = Promoted(@, key)]
  PROVE  AgeInv'
<1>1. Agree(cache) /\ key \in Keys /\ cache.lru_order \in Seq(Keys)
      /\ Distinct(cache.lru_order) /\ Listed(cache.lru_order) = cache.entries
      /\ cache \in Caches
  BY DEF AgeInv, Agree, Caches
<1>2. Agree(cache') /\ cache'.entries = cache.entries
  BY <1>1, PromotingKeeps
<1>3. Fits(cache')
  BY <1>2 DEF Fits, AgeInv
<1>4. cache'.lru_order = Promoted(cache.lru_order, key)
  BY <1>1 DEF Caches
<1>5. \A a, b : Before(cache'.lru_order, a, b) =>
           \/ Before(cache.lru_order, a, b) /\ a # key /\ b # key
           \/ a \in cache.entries /\ a # key /\ b = key
  BY <1>1, <1>4, PromotedFacts
<1>6. QueuedAsUsed'
  BY <1>1, <1>2, <1>5, UseKeeps
<1> QED
  BY <1>2, <1>3, <1>6 DEF AgeInv

(* A key that is taken in. *)
LEMMA InsertionKeeps ==
  ASSUME AgeInv, NEW key \in Keys, key \notin cache.entries, MarkLoaded(key), Use(key)
  PROVE  AgeInv'
<1> DEFINE room == RoomFor(cache)
<1>1. Agree(cache) /\ Fits(cache)
  BY DEF AgeInv
<1>2. Agree(cache') /\ Fits(cache')
  BY <1>1, MarkedKeeps DEF MarkLoaded
<1>3. Agree(room) /\ room.entries \subseteq cache.entries
  BY <1>1, RoomForFacts
<1>4. cache'.entries = room.entries \cup {key}
      /\ cache'.lru_order = Append(room.lru_order, key)
  BY MarkedNew DEF MarkLoaded
<1>5. \A a, b : Before(room.lru_order, a, b) => Before(cache.lru_order, a, b)
  <2>1. room = cache \/ (cache.lru_order # <<>> /\ room = WithoutOldest(cache))
    BY DEF RoomFor, WithoutOldest
  <2>2. CASE cache.lru_order # <<>> /\ room = WithoutOldest(cache)
    <3>1. room.lru_order = Tail(cache.lru_order)
      BY <1>1, <2>2, WithoutOldestFacts
    <3>2. cache.lru_order \in Seq(Keys)
      BY <1>1 DEF Agree, Caches
    <3> QED
      BY <2>2, <3>1, <3>2, TailFacts
  <2> QED
    BY <2>1, <2>2
<1> HIDE DEF room
<1>6. room.lru_order \in Seq(Keys) /\ Listed(room.lru_order) = room.entries
  BY <1>3 DEF Agree, Caches
<1>7. \A a, b : Before(cache'.lru_order, a, b)
                  <=> Before(room.lru_order, a, b) \/ (a \in Listed(room.lru_order) /\ b = key)
  BY <1>4, <1>6, AppendFacts
<1>8. \A a, b : Before(room.lru_order, a, b) => a \in room.entries /\ b \in room.entries
  BY <1>6 DEF Before, Listed
<1>9. \A a, b : Before(cache'.lru_order, a, b) =>
           \/ Before(cache.lru_order, a, b) /\ a # key /\ b # key
           \/ a \in cache.entries /\ a # key /\ b = key
  BY <1>3, <1>5, <1>6, <1>7, <1>8
<1>10. QueuedAsUsed'
  BY <1>3, <1>4, <1>9, UseKeeps
<1> QED
  BY <1>2, <1>10 DEF AgeInv

(* Every operation keeps the invariant. *)
LEMMA AgeInvNext == AgeInv /\ [AgeNext]_ageVars => AgeInv'
<1> SUFFICES ASSUME AgeInv, [AgeNext]_ageVars PROVE AgeInv'
  OBVIOUS
<1>1. ASSUME NEW key \in Keys, IsLoaded(key),
             IF key \in cache.entries THEN Use(key) ELSE UNCHANGED used
      PROVE  AgeInv'
  <2>1. CASE key \in cache.entries
    BY <1>1, <2>1, PromotionKeeps DEF IsLoaded, LookedUp
  <2>2. CASE key \notin cache.entries
    BY <1>1, <2>2 DEF IsLoaded, LookedUp, AgeInv, QueuedAsUsed
  <2> QED
    BY <2>1, <2>2
<1>2. ASSUME NEW key \in Keys, MarkLoaded(key), Use(key)
      PROVE  AgeInv'
  <2>1. CASE key \in cache.entries
    BY <1>2, <2>1, PromotionKeeps DEF MarkLoaded, Marked, MarkedAbove
  <2>2. CASE key \notin cache.entries
    BY <1>2, <2>2, InsertionKeeps
  <2> QED
    BY <2>1, <2>2
<1>3. ASSUME NEW l, EvictLayer(l), UNCHANGED used
      PROVE  AgeInv'
  <2> DEFINE others == {k \in Keys : k[1] # l}
  <2>1. Agree(cache') /\ Fits(cache')
    BY <1>3, WithoutLayerKeeps DEF EvictLayer, AgeInv
  <2>2. cache'.entries \subseteq cache.entries /\ cache'.lru_order = Retained(cache.lru_order, others)
    BY <1>3 DEF EvictLayer, WithoutLayer
  <2>3. cache.lru_order \in Seq(Keys)
    BY DEF AgeInv, Agree, Caches
  <2> HIDE DEF others
  <2>4. \A a, b : Before(cache'.lru_order, a, b) => Before(cache.lru_order, a, b)
    BY <2>2, <2>3, RetainedFacts
  <2>5. QueuedAsUsed'
    BY <1>3, <2>2, <2>4 DEF QueuedAsUsed, AgeInv
  <2> QED
    BY <2>1, <2>5 DEF AgeInv
<1>4. CASE UNCHANGED ageVars
  BY <1>4 DEF ageVars, AgeInv, QueuedAsUsed
<1> QED
  BY <1>1, <1>2, <1>3, <1>4 DEF AgeNext

(* Whatever is looked up, loaded and evicted, the queue lists the entries, *)
(* each once (NeuronCache: is_loaded, mark_loaded, evict_layer).           *)
THEOREM QueueListsEntries == AgeSpec => []OrderListsEntries
<1>1. AgeInv => OrderListsEntries
  <2> SUFFICES ASSUME AgeInv PROVE OrderListsEntries
    OBVIOUS
  <2>1. Agree(cache) /\ Listed(cache.lru_order) = cache.entries
        /\ Cardinality(cache.entries) = Len(cache.lru_order)
    BY AgreeCounts DEF AgeInv, Agree
  <2> QED
    BY <2>1 DEF OrderListsEntries, Listed
<1> QED
  BY <1>1, AgeInvInit, AgeInvNext, PTL DEF AgeSpec

(* The cache outgrows its capacity by nothing (mark_loaded evicts first),   *)
(* except that one of capacity 0 holds one key.                            *)
THEOREM CapacityKept == AgeSpec => []WithinCapacity
<1>1. AgeInv => WithinCapacity
  BY DEF AgeInv, Fits, Room, WithinCapacity
<1> QED
  BY <1>1, AgeInvInit, AgeInvNext, PTL DEF AgeSpec

(* The position of a key that is used earlier is lower. *)
LEMMA LastUseOrder ==
  ASSUME used \in Seq(Keys), Distinct(used), NEW a, NEW b, Before(used, a, b)
  PROVE  LastUse(a) < LastUse(b)
<1>1. PICK i, j \in 1 .. Len(used) : i < j /\ used[i] = a /\ used[j] = b
  BY DEF Before
<1>2. \A k \in 1 .. Len(used) : (used[k] = a => k = i) /\ (used[k] = b => k = j)
  BY <1>1 DEF Distinct
<1>3. LastUse(a) = i
  BY <1>1, <1>2 DEF LastUse
<1>4. LastUse(b) = j
  BY <1>1, <1>2 DEF LastUse
<1> QED
  BY <1>1, <1>3, <1>4

(* A key that is given up for another was used before all that stay.       *)
LEMMA EvictionStep ==
  ASSUME AgeInv, [AgeNext]_ageVars,
         NEW taken \in cache'.entries \ cache.entries,
         NEW lost \in cache.entries \ cache'.entries,
         NEW kept \in cache.entries \cap cache'.entries
  PROVE  LastUse(lost) < LastUse(kept)
<1>1. ASSUME NEW key \in Keys, IsLoaded(key)
      PROVE  FALSE
  BY <1>1, LookedUpKeeps DEF IsLoaded, AgeInv
<1>2. ASSUME NEW l, EvictLayer(l)
      PROVE  FALSE
  BY <1>2 DEF EvictLayer, WithoutLayer
<1>3. ~UNCHANGED ageVars
  BY DEF ageVars
<1>4. PICK key \in Keys : MarkLoaded(key)
  BY <1>1, <1>2, <1>3 DEF AgeNext
<1>5. key \notin cache.entries
  BY <1>4, PromotingKeeps DEF MarkLoaded, Marked, MarkedAbove, AgeInv
<1>6. cache'.entries = RoomFor(cache).entries \cup {key}
  BY <1>4, <1>5, MarkedNew DEF MarkLoaded
<1>7. cache.lru_order # <<>> /\ RoomFor(cache) = WithoutOldest(cache)
  BY <1>6 DEF RoomFor, WithoutOldest
<1>8. cache'.entries = (cache.entries \ {Head(cache.lru_order)}) \cup {key}
  BY <1>6, <1>7, WithoutOldestFacts DEF AgeInv
<1>9. lost = Head(cache.lru_order) /\ kept # Head(cache.lru_order)
  BY <1>5, <1>8
<1>10. cache.lru_order \in Seq(Keys) /\ Distinct(cache.lru_order)
       /\ Listed(cache.lru_order) = cache.entries
  BY DEF AgeInv, Agree, Caches
<1>11. kept \in Listed(Tail(cache.lru_order))
  BY <1>7, <1>9, <1>10, TailFacts
<1>12. Before(cache.lru_order, lost, kept)
  BY <1>7, <1>9, <1>10, <1>11, TailFacts
<1>13. used \in Seq(Keys) /\ Distinct(used) /\ Before(used, lost, kept)
  BY <1>12 DEF AgeInv, QueuedAsUsed
<1> QED
  BY <1>13, LastUseOrder

(* A key given up for another was used before every key that stays:        *)
(* evict_lru takes the front, and the front is the least recently used.    *)
THEOREM OldestGoes == AgeSpec => EvictsLeastRecent
<1>1. AgeInv /\ [AgeNext]_ageVars =>
        [\A taken \in cache'.entries \ cache.entries :
           \A lost \in cache.entries \ cache'.entries,
              kept \in cache.entries \cap cache'.entries : LastUse(lost) < LastUse(kept)]_ageVars
  BY EvictionStep
<1> QED
  BY <1>1, AgeInvInit, AgeInvNext, PTL DEF AgeSpec, EvictsLeastRecent

PP == INSTANCE SlotPool_proofs WITH MaxTensors <- Tensors

-----------------------------------------------------------------------------
(* The compute thread and its slots. *)

PCs == {"warm", "ask", "allocate", "submit", "send", "send_all", "await", "compute",
        "post", "reset", "advance", "boundary", "stop", "join", "done"}

\* What the compute thread keeps.
ThreadTyped ==
  /\ pc \in PCs
  /\ layer \in Layers
  /\ node \in {"attention", "router", "experts"}
  /\ current_layer \in Layers \cup {-1}
  /\ prev \in Layers \cup {-1}
  /\ warm \in SUBSET Layers
  /\ passes \in Nat
  /\ selected \in [Layers -> SUBSET Experts]
  /\ routed \in SUBSET Experts
  /\ data_ptr \in [Layers -> Seq(PP!Slots)]

\* Where the thread can be.
ThreadPlaced ==
  /\ pc \in {"allocate", "submit", "send"} => Chosen # {}
  /\ pc = "warm" => passes = 0
  /\ pc \in {"compute", "post", "reset", "advance", "boundary"} => passes # 0
  /\ passes = 0 => node = "attention"

\* An allocation runs exactly while the thread is at it, for its layer; a layer has
\* all its slots or none.
SlotsWhole ==
  /\ pc = "allocate" <=> claim # Pool!NoClaim
  /\ claim # Pool!NoClaim => claim.layer = layer /\ claim.want = Tensors
  /\ \A l \in Layers : layer_slots[l] # <<>> => Len(layer_slots[l]) = Tensors
  /\ pc \in {"submit", "send"} => layer_slots[layer] # <<>>

PoolInv == ThreadTyped /\ ThreadPlaced /\ SlotsWhole

-----------------------------------------------------------------------------
\* The constants make a pool that SlotPool's theorems are about.
LEMMA PoolAssumption == PP!SlotPoolAssumption
BY ExpertAssumption DEF PP!SlotPoolAssumption

\* Layers and experts are numbers; a position is an expert's alone.
LEMMA Constants ==
  /\ Layers \subseteq Nat /\ Layers \subseteq Int /\ Layers # {} /\ -1 \notin Layers
  /\ Tensors \in Nat \ {0} /\ NumExperts \in Nat \ {0} /\ NumSlots \in Nat /\ Tensors <= NumSlots
  /\ Experts \subseteq Nat /\ IsFiniteSet(Experts)
  /\ 0 \in PP!Slots /\ PP!Slots = 0..(NumSlots - 1)
  /\ Cells = PP!Slots \X Experts
  /\ Data = Layers \X (1..Tensors) \X Experts
  /\ Keys = Layers \X Experts \X (1..Tensors)
  /\ \A e \in Experts : Position[e] \in Experts
  /\ \A d, e \in Experts : Position[d] = Position[e] => d = e
<1>1. /\ Layers \subseteq Nat /\ Layers # {} /\ Tensors \in Nat \ {0} /\ NumExperts \in Nat \ {0}
      /\ NumSlots \in Nat /\ Tensors <= NumSlots
      /\ Cells = (0..(NumSlots - 1)) \X Experts
      /\ Data = Layers \X (1..Tensors) \X Experts
      /\ Keys = Layers \X Experts \X (1..Tensors)
      /\ Position \in Bijection(Experts, Experts)
  BY ExpertAssumption
<1>2. Layers \subseteq Int /\ -1 \notin Layers
  BY <1>1
<1>3. Experts \subseteq Nat /\ IsFiniteSet(Experts)
  BY <1>1, FS_Interval DEF Experts
<1>4. PP!Slots = 0..(NumSlots - 1) /\ 0 \in PP!Slots
  BY <1>1 DEF PP!Slots
<1>5. /\ \A e \in Experts : Position[e] \in Experts
      /\ \A d, e \in Experts : Position[d] = Position[e] => d = e
  BY <1>1 DEF Bijection, Injection, Surjection, IsInjective
<1> QED
  BY <1>1, <1>2, <1>3, <1>4, <1>5

\* Some layer is the lowest of any that there are.
LEMMA LowestLayer ==
  ASSUME NEW S \in SUBSET Layers, S # {}
  PROVE  Lowest(S) \in S /\ \A m \in S : Lowest(S) <= m
<1>1. \E l \in S : \A m \in S : l <= m
  BY Constants, LeastNumber
<1> QED
  BY <1>1 DEF Lowest

\* The actions of the pool in the loader are those of the theorems.
LEMMA PoolActions ==
  /\ Pool!NoClaim = PP!NoClaim
  /\ Pool!SlotPoolInit <=> PP!SlotPoolInit
  /\ \A l \in Layers, n \in 1..Tensors : Pool!BeginAllocate(l, n) <=> PP!BeginAllocate(l, n)
  /\ Pool!AllocateStep <=> PP!AllocateStep
<1> USE DEF Pool!NoClaim, PP!NoClaim, Pool!Allocating, PP!Allocating
<1>1. Pool!SlotPoolInit <=> PP!SlotPoolInit
  BY DEF Pool!SlotPoolInit, PP!SlotPoolInit
<1>2. \A l \in Layers, n \in 1..Tensors : Pool!BeginAllocate(l, n) <=> PP!BeginAllocate(l, n)
  BY DEF Pool!BeginAllocate, PP!BeginAllocate
<1>3. Pool!PopFree <=> PP!PopFree
  BY DEF Pool!PopFree, PP!PopFree, Pool!PopWhile, PP!PopWhile, Pool!Gather, PP!Gather,
         Pool!Front, PP!Front, Pool!Last, PP!Last
<1>4. Pool!Evictable = PP!Evictable
  BY DEF Pool!Evictable, PP!Evictable
<1>5. Pool!Oldest = PP!Oldest
  BY <1>4 DEF Pool!Oldest, PP!Oldest
<1>6. Pool!EvictOldest <=> PP!EvictOldest
  BY <1>4, <1>5 DEF Pool!EvictOldest, PP!EvictOldest, Pool!EvictLeaving, PP!EvictLeaving,
         Pool!Gather, PP!Gather, Pool!Front, PP!Front, Pool!Last, PP!Last
<1>7. Pool!EndAllocate <=> PP!EndAllocate
  BY DEF Pool!EndAllocate, PP!EndAllocate
<1> QED
  BY <1>1, <1>2, <1>3, <1>6, <1>7 DEF Pool!AllocateStep, PP!AllocateStep

\* The pool starts whole, the pointers on slot 0.
LEMMA PoolInvInit == Init => PoolInv /\ PP!SlotPoolInit
<1> SUFFICES ASSUME Init PROVE PoolInv /\ PP!SlotPoolInit
  OBVIOUS
<1>1. ThreadTyped
  <2>1. layer \in Layers
    BY LowestLayer, Constants DEF Init
  <2>2. data_ptr \in [Layers -> Seq(PP!Slots)]
    <3>1. [t \in 1..Tensors |-> 0] \in Seq(PP!Slots)
      BY Constants
    <3> QED
      BY <3>1 DEF Init
  <2> QED
    BY <2>1, <2>2 DEF Init, ThreadTyped, PCs
<1>2. ThreadPlaced
  BY DEF Init, ThreadPlaced
<1>3. SlotsWhole
  BY DEF Init, SlotsWhole, Pool!SlotPoolInit
<1> QED
  BY <1>1, <1>2, <1>3, PoolActions DEF Init, PoolInv

\* The thread goes from one place of the code to another.
LEMMA ThreadNext ==
  ASSUME ThreadTyped, ThreadPlaced, SlotsWhole, PP!SlotPoolTypeOK, [Next]_vars
  PROVE  ThreadTyped' /\ ThreadPlaced'
<1> USE DEF ThreadTyped, ThreadPlaced, PCs, placeVars, expertVars
<1>0. layer_slots[layer] \in Seq(PP!Slots)
  BY DEF PP!SlotPoolTypeOK
<1>1. CASE Warm
  <2>1. PICK l \in warm, top \in SUBSET Experts :
          /\ warm' = warm \ {l}
          /\ IF top = {} THEN UNCHANGED <<selected, layer, pc>>
             ELSE /\ selected' = [selected EXCEPT ![l] = top] /\ layer' = l /\ pc' = "ask"
    BY <1>1 DEF Warm
  <2>2. /\ pc = "warm"
        /\ UNCHANGED <<node, current_layer, prev, passes, routed, data_ptr>>
    BY <1>1 DEF Warm
  <2>3. pc' \in {"warm", "ask"} /\ warm' \in SUBSET Layers
    BY <2>1, <2>2
  <2>4. layer' \in Layers /\ selected' \in [Layers -> SUBSET Experts]
    BY <2>1
  <2>5. ThreadTyped'
    BY <2>2, <2>3, <2>4
  <2>6. ThreadPlaced'
    BY <2>2, <2>3
  <2> QED
    BY <2>5, <2>6
<1>2. CASE StartPass
  <2>1. Lowest(Layers) \in Layers
    BY LowestLayer, Constants
  <2>2. passes + 1 \in Nat /\ passes + 1 # 0
    OBVIOUS
  <2> QED
    BY <1>2, <2>1, <2>2 DEF StartPass
<1>3. CASE Finish
  BY <1>3 DEF Finish
<1>4. CASE AskHit
  <2>1. /\ (pc' = "warm" /\ passes = 0) \/ (pc' = "compute" /\ passes # 0)
        /\ UNCHANGED <<layer, node, current_layer, prev, warm, passes, selected, routed>>
        /\ data_ptr' = data_ptr \/ data_ptr' = [data_ptr EXCEPT ![layer] = layer_slots[layer]]
    BY <1>4 DEF AskHit, Return, Warming
  <2> QED
    BY <1>0, <2>1
<1>5. CASE AskMiss
  <2>1. /\ pc' \in {"allocate", "submit"} /\ Chosen # {}
        /\ UNCHANGED <<layer, node, current_layer, prev, warm, passes, selected, routed, data_ptr>>
    BY <1>5 DEF AskMiss
  <2> QED
    BY <2>1 DEF Chosen
<1>6. CASE Allocate
  <2>1. /\ pc = "allocate" /\ pc' \in {"allocate", "submit"}
        /\ UNCHANGED <<layer, node, current_layer, prev, warm, passes, selected, routed, data_ptr>>
    BY <1>6 DEF Allocate
  <2> QED
    BY <2>1 DEF Chosen
<1>7. CASE Mark
  <2>1. /\ pc = "submit" /\ pc' = "send"
        /\ data_ptr' = [data_ptr EXCEPT ![layer] = layer_slots[layer]]
        /\ UNCHANGED <<layer, node, current_layer, prev, warm, passes, selected, routed>>
    BY <1>7 DEF Mark
  <2> QED
    BY <1>0, <2>1 DEF Chosen
<1>8. CASE SendExperts
  <2>1. pc' = "await" /\ pc = "send"
        /\ UNCHANGED <<layer, node, current_layer, prev, warm, passes, selected, routed, data_ptr>>
    BY <1>8 DEF SendExperts
  <2> QED
    BY <2>1
<1>9. CASE AskCold \/ SendAll
  <2>1. pc' \in {"send_all", "await"}
        /\ UNCHANGED <<layer, node, current_layer, prev, warm, passes, selected, routed, data_ptr>>
    BY <1>9 DEF AskCold, SendAll
  <2> QED
    BY <2>1
<1>10. CASE Await
  <2>1. /\ pc' = "await" \/ (pc' = "warm" /\ passes = 0) \/ (pc' = "compute" /\ passes # 0)
        /\ UNCHANGED <<layer, node, current_layer, prev, warm, passes, selected, routed, data_ptr>>
    BY <1>10 DEF Await, Return, Warming
  <2> QED
    BY <2>1
<1>11. CASE Compute
  <2>1. /\ pc = "compute" /\ pc' = "post" /\ routed' \in SUBSET Experts
        /\ UNCHANGED <<layer, node, current_layer, prev, warm, passes, selected, data_ptr>>
    BY <1>11 DEF Compute
  <2> QED
    BY <2>1
<1>12. CASE Intercept
  <2>1. /\ pc = "post" /\ pc' = "advance"
        /\ selected' = selected \/ selected' = [selected EXCEPT ![layer] = routed]
        /\ UNCHANGED <<layer, node, current_layer, prev, warm, passes, routed, data_ptr>>
    BY <1>12 DEF Intercept, InterceptUnless
  <2> QED
    BY <2>1
<1>13. CASE Post
  <2>1. /\ pc = "post" /\ pc' = "reset" /\ prev' = current_layer /\ current_layer' = layer
        /\ UNCHANGED <<layer, node, warm, passes, selected, routed, data_ptr>>
    BY <1>13 DEF Post
  <2> QED
    BY <2>1
<1>14. CASE Reset
  <2>1. /\ pc = "reset" /\ pc' = "advance"
        /\ UNCHANGED <<layer, node, current_layer, prev, warm, passes, selected, routed, data_ptr>>
    BY <1>14 DEF Reset
  <2> QED
    BY <2>1
<1>15. CASE Advance
  <2>1. /\ pc = "advance" /\ pc' \in {"ask", "boundary"}
        /\ layer' = layer \/ (After(layer) # {} /\ layer' = Lowest(After(layer)))
        /\ node' \in {"attention", "router", "experts"} /\ routed' \in SUBSET Experts
        /\ UNCHANGED <<current_layer, prev, warm, passes, selected, data_ptr>>
    BY <1>15 DEF Advance
  <2>2. After(layer) # {} => Lowest(After(layer)) \in Layers
    BY LowestLayer DEF After
  <2> QED
    BY <2>1, <2>2
<1>16. CASE Stop \/ Join
  <2>1. pc' \in {"join", "done"}
        /\ UNCHANGED <<layer, node, current_layer, prev, warm, passes, selected, routed, data_ptr>>
    BY <1>16 DEF Stop, Join
  <2> QED
    BY <2>1
<1>17. CASE (\E w \in Workers : IoThread(w)) \/ Terminated \/ UNCHANGED vars
  <2>1. UNCHANGED <<pc, layer, node, current_layer, prev, warm, passes, selected, routed, data_ptr>>
    BY <1>17 DEF IoThread, Terminated, vars
  <2> QED
    BY <2>1 DEF Chosen
<1> QED
  BY <1>1, <1>2, <1>3, <1>4, <1>5, <1>6, <1>7, <1>8, <1>9, <1>10, <1>11, <1>12, <1>13,
     <1>14, <1>15, <1>16, <1>17 DEF Next, ComputeThread

\* What a step that leaves the slots alone has to keep.
LEMMA SlotsWholeKept ==
  ASSUME SlotsWhole, UNCHANGED slotVars, pc # "allocate", pc' # "allocate",
         pc' \in {"submit", "send"} => layer_slots[layer'] # <<>>
  PROVE  SlotsWhole' /\ [PP!SlotPoolNext]_PP!slotVars
BY DEF SlotsWhole, slotVars, PP!slotVars

\* One iteration of an allocation, or its end.
LEMMA AllocateOnPool ==
  ASSUME PoolInv, PP!SlotPoolTypeOK, Allocate
  PROVE  SlotsWhole' /\ PP!SlotPoolNext
<1> USE DEF PoolInv
<1>1. Pool!AllocateStep /\ pc = "allocate" /\ layer' = layer
      /\ pc' = IF claim' = Pool!NoClaim THEN "submit" ELSE pc
  BY DEF Allocate, placeVars
<1>2. PP!SlotPoolNext
  BY <1>1, PoolActions DEF PP!SlotPoolNext
<1>3. /\ claim.layer = layer /\ claim.want = Tensors /\ claim # Pool!NoClaim
      /\ layer \in Layers /\ layer # -1
  BY <1>1, Constants DEF SlotsWhole, ThreadTyped
<1>4. SlotsWhole'
  <2>1. CASE Pool!PopFree
    <3>1. /\ claim'.layer = layer /\ claim'.want = Tensors /\ UNCHANGED layer_slots
          /\ claim' # Pool!NoClaim
      BY <2>1, <1>3 DEF Pool!PopFree, Pool!PopWhile, Pool!Gather, Pool!NoClaim
    <3> QED
      BY <1>1, <3>1 DEF SlotsWhole
  <2>2. CASE Pool!EvictOldest
    <3>1. /\ claim'.layer = layer /\ claim'.want = Tensors /\ claim' # Pool!NoClaim
      BY <2>2, <1>3 DEF Pool!EvictOldest, Pool!EvictLeaving, Pool!Gather, Pool!NoClaim
    <3>2. \A l \in Layers : layer_slots'[l] = layer_slots[l] \/ layer_slots'[l] = <<>>
      BY <2>2 DEF Pool!EvictOldest, Pool!EvictLeaving, PP!SlotPoolTypeOK
    <3> QED
      BY <1>1, <3>1, <3>2 DEF SlotsWhole
  <2>3. CASE Pool!EndAllocate
    <3>1. /\ claim' = Pool!NoClaim /\ Len(claim.slots) = Tensors
          /\ layer_slots' = [layer_slots EXCEPT ![layer] = claim.slots]
      BY <2>3, <1>3 DEF Pool!EndAllocate
    <3>2. claim.slots # <<>>
      BY <3>1, Constants
    <3>3. /\ layer_slots'[layer] = claim.slots
          /\ \A l \in Layers : l # layer => layer_slots'[l] = layer_slots[l]
      BY <1>3, <3>1 DEF PP!SlotPoolTypeOK
    <3> QED
      BY <1>1, <1>3, <3>1, <3>2, <3>3 DEF SlotsWhole
  <2> QED
    BY <1>1, <2>1, <2>2, <2>3 DEF Pool!AllocateStep
<1> QED
  BY <1>2, <1>4

\* Every step of the loader is one of its pool, or leaves it alone.
LEMMA PoolInvNext ==
  ASSUME PoolInv, PP!SlotPoolTypeOK, [Next]_vars
  PROVE  PoolInv' /\ [PP!SlotPoolNext]_PP!slotVars
<1> USE DEF PoolInv
<1>1. ThreadTyped' /\ ThreadPlaced'
  BY ThreadNext
<1>2. CASE AskMiss
  <2>1. CASE layer_slots[layer] = <<>>
    <3>1. Pool!BeginAllocate(layer, Tensors) /\ pc' = "allocate" /\ layer' = layer /\ layer \in Layers
      BY <1>2, <2>1 DEF AskMiss, placeVars, ThreadTyped
    <3>2. PP!SlotPoolNext
      BY <3>1, PoolActions, Constants DEF PP!SlotPoolNext
    <3>3. /\ claim'.layer = layer /\ claim'.want = Tensors /\ UNCHANGED layer_slots
          /\ claim' # Pool!NoClaim
      BY <3>1, Constants DEF Pool!BeginAllocate, Pool!NoClaim
    <3> QED
      BY <1>1, <3>1, <3>2, <3>3 DEF SlotsWhole
  <2>2. CASE layer_slots[layer] # <<>>
    <3>1. pc = "ask" /\ pc' = "submit" /\ UNCHANGED slotVars /\ layer' = layer
      BY <1>2, <2>2 DEF AskMiss, placeVars
    <3> QED
      BY <1>1, <2>2, <3>1, SlotsWholeKept
  <2> QED
    BY <2>1, <2>2
<1>3. CASE Allocate
  BY <1>1, <1>3, AllocateOnPool
<1>4. CASE Mark
  <2>1. UNCHANGED slotVars /\ layer' = layer /\ pc = "submit" /\ pc' = "send"
    BY <1>4 DEF Mark, placeVars
  <2>2. layer_slots[layer'] # <<>>
    BY <2>1 DEF SlotsWhole
  <2> QED
    BY <1>1, <2>1, <2>2, SlotsWholeKept
<1>5. CASE Warm \/ StartPass \/ Finish \/ AskHit \/ SendExperts \/ AskCold \/ SendAll \/ Await
           \/ Compute \/ Intercept \/ Post \/ Reset \/ Advance \/ Stop \/ Join
  <2>1. UNCHANGED slotVars /\ pc # "allocate" /\ pc' \notin {"allocate", "submit", "send"}
    BY <1>5 DEF Warm, StartPass, Finish, AskHit, SendExperts, AskCold, SendAll, Await, Return,
                Compute, Intercept, InterceptUnless, Post, Reset, Advance, Stop, Join
  <2> QED
    BY <1>1, <2>1, SlotsWholeKept
<1>6. CASE (\E w \in Workers : IoThread(w)) \/ Terminated \/ UNCHANGED vars
  <2>1. UNCHANGED <<slotVars, placeVars, pc>>
    BY <1>6 DEF IoThread, Terminated, vars
  <2> QED
    BY <1>1, <2>1 DEF SlotsWhole, slotVars, placeVars, PP!slotVars
<1> QED
  BY <1>2, <1>3, <1>4, <1>5, <1>6 DEF Next, ComputeThread

\* Expert-streaming uses its slot pool as SlotPool describes it: one allocation at
\* a time, of the layer being loaded, which keeps its slots until it is evicted
\* (load_experts_pooled).
THEOREM ExpertsUseSlotPool == Spec => []PoolInv /\ PP!SlotPoolSpec
<1>1. Init => PoolInv /\ PP!SlotPoolInit
  BY PoolInvInit
<1>2. PP!SlotPoolInit => PP!SlotPoolTypeOK
  BY PoolAssumption, PP!TypeInit
<1>3. PoolInv /\ PP!SlotPoolTypeOK /\ [Next]_vars
        => PoolInv' /\ [PP!SlotPoolNext]_PP!slotVars
  BY PoolInvNext
<1>4. PP!SlotPoolTypeOK /\ [PP!SlotPoolNext]_PP!slotVars => PP!SlotPoolTypeOK'
  BY PoolAssumption, PP!TypeStep
<1> QED
  BY <1>1, <1>2, <1>3, <1>4, PTL DEF Spec, PP!SlotPoolSpec

-----------------------------------------------------------------------------
(* The tasks under way. *)

Tasks == [load: Loads, layer: Layers, update_status: BOOLEAN,
          writes: SUBSET (Cells \X Data)]

Queued == {chan[k] : k \in 1..Len(chan)}
Busy == {w \in Workers : worker[w].pc \in {"reading", "counting", "publishing"}}
Flying == Queued \cup {worker[w].task : w \in Busy}
Unread == Queued \cup {worker[w].task : w \in {v \in Workers : worker[v].pc = "reading"}}

IoTyped ==
  /\ layer_status \in [Layers -> LayerStatus]
  /\ parked \in BOOLEAN /\ pool_open \in BOOLEAN
  /\ chan \in Seq(Tasks)
  /\ worker \in [Workers ->
       [pc: {"idle", "reading", "counting", "publishing", "exited"},
        task: Tasks \cup {NoTask}]]
  /\ \A w \in Workers : w \in Busy <=> worker[w].task # NoTask
  /\ remaining \in [Loads -> Nat]
  /\ mem \in [Cells -> Data \cup {Empty}]

\* RemainingIsExact, load by load.
OfLoad(c) == {x \in Tasks : x.load = c}
QueuedOf(c) == PlacesOf(chan, OfLoad(c))
HeldOf(c) == {w \in Workers : Held(w) /\ worker[w].task.load = c}
CountsExact ==
  \A c \in Loads : remaining[c] = Cardinality(QueuedOf(c)) + Cardinality(HeldOf(c))

\* A worker that publishes holds the last task of the load waited for.
OnlyOne(w) ==
  /\ \A x \in Queued : ~x.update_status
  /\ \A v \in Busy : v # w => ~worker[v].task.update_status

\* The tasks waited for are of one load, of the layer the thread is at, which stays
\* Loading until the last of them is published; speculative ones are none of it.
Waiting ==
  /\ \A x \in Flying : x.update_status =>
       pc = "await" /\ x.layer = layer /\ layer_status[layer] = "Loading"
  /\ \A x, y \in Flying : x.update_status /\ y.update_status => x.load = y.load
  /\ \A w \in Workers : worker[w].pc = "publishing" =>
       worker[w].task.update_status /\ OnlyOne(w)
  /\ pc \in {"send", "send_all"} => layer_status[layer] = "Loading"

IoInv == IoTyped /\ CountsExact /\ Waiting

-----------------------------------------------------------------------------
\* What the steps of a worker do to the tasks under way.

WorkerState == [pc: {"idle", "reading", "counting", "publishing", "exited"},
                task: Tasks \cup {NoTask}]

\* A step of a worker writes its pc and its task.
LEMMA WorkerWritten ==
  ASSUME IoTyped, NEW w \in Workers, NEW s, NEW t,
         worker' = [worker EXCEPT ![w] = [pc |-> s, task |-> t]]
  PROVE  /\ worker'[w].pc = s /\ worker'[w].task = t
         /\ \A v \in Workers : v # w => worker'[v] = worker[v]
         /\ s \in {"idle", "reading", "counting", "publishing", "exited"} /\ t \in Tasks \cup {NoTask}
              => worker' \in [Workers -> WorkerState]
<1> DEFINE q == [pc |-> s, task |-> t]
<1>1. q.pc = s /\ q.task = t
  OBVIOUS
<1>2. s \in {"idle", "reading", "counting", "publishing", "exited"} /\ t \in Tasks \cup {NoTask}
        => q \in WorkerState
  BY DEF WorkerState
<1> HIDE DEF q
<1>3. worker' = [worker EXCEPT ![w] = q]
  BY DEF q
<1>4. worker \in [Workers -> WorkerState]
  BY DEF IoTyped, WorkerState
<1> QED
  BY <1>1, <1>2, <1>3, <1>4

\* Pread and Exit write the pc of one worker and leave its task.
LEMMA StageWritten ==
  ASSUME IoTyped, NEW w \in Workers, NEW s, worker' = [worker EXCEPT ![w].pc = s]
  PROVE  worker' = [worker EXCEPT ![w] = [pc |-> s, task |-> worker[w].task]]
<1> DEFINE r == worker[w]
           q == [r EXCEPT !.pc = s]
<1>1. r \in WorkerState
  BY DEF IoTyped, WorkerState
<1>2. q = [pc |-> s, task |-> r.task]
  BY <1>1 DEF WorkerState
<1>3. worker' = [worker EXCEPT ![w] = q]
  OBVIOUS
<1> HIDE DEF q
<1> QED
  BY <1>2, <1>3

\* The task in a busy worker's hands.
LEMMA TaskInHand ==
  ASSUME IoTyped, NEW w \in Workers
  PROVE  /\ w \in Busy => worker[w].task \in Tasks /\ worker[w].task \in Flying
         /\ w \notin Busy => worker[w].task = NoTask
         /\ NoTask \notin Tasks
         /\ Queued \subseteq Tasks /\ Flying \subseteq Tasks /\ Unread \subseteq Flying
<1>1. NoTask \notin Tasks
  BY ExpertAssumption DEF Tasks
<1>2. \A v \in Workers : worker[v].task \in Tasks \cup {NoTask}
  BY DEF IoTyped
<1>3. \A v \in Workers : v \in Busy => worker[v].task \in Tasks
  BY <1>1, <1>2 DEF IoTyped
<1>4. Queued \subseteq Tasks
  BY DEF Queued, IoTyped
<1> QED
  BY <1>1, <1>3, <1>4 DEF Flying, Unread, Busy, IoTyped

\* The counters of loads no step is about keep.
LEMMA CountsAreFinite ==
  ASSUME IsFiniteSet(Workers), IoTyped, NEW c
  PROVE  /\ Cardinality(QueuedOf(c)) \in Nat /\ IsFiniteSet(QueuedOf(c))
         /\ Cardinality(HeldOf(c)) \in Nat /\ IsFiniteSet(HeldOf(c))
<1>1. Cardinality(QueuedOf(c)) \in Nat /\ IsFiniteSet(QueuedOf(c))
  <2>1. chan \in Seq(Tasks)
    BY DEF IoTyped
  <2> QED
    BY <2>1, PlacesAreFinite DEF QueuedOf
<1>2. HeldOf(c) \in SUBSET Workers
  BY DEF HeldOf
<1> QED
  BY <1>1, <1>2, FS_Subset, FS_CardinalityType

\* recv(): a task goes from the channel to a worker.
LEMMA RecvStep ==
  ASSUME IsFiniteSet(Workers), IoTyped, CountsExact, NEW w \in Workers, Recv(w)
  PROVE  /\ IoTyped' /\ CountsExact' /\ Flying' = Flying /\ Unread' = Unread
         /\ \A v \in Workers : worker'[v].pc = "publishing" <=> worker[v].pc = "publishing"
         /\ \A v \in Workers : worker'[v].pc = "publishing" => worker'[v].task = worker[v].task
         /\ Queued' \subseteq Queued
         /\ \A v \in Busy' : worker'[v].task \in Queued
                              \/ (v \in Busy /\ worker'[v].task = worker[v].task)
<1> DEFINE t == Head(chan)
<1>1. /\ worker[w].pc = "idle" /\ chan # <<>> /\ chan' = Tail(chan)
      /\ worker' = [worker EXCEPT ![w] = [pc |-> "reading", task |-> t]]
      /\ UNCHANGED <<layer_status, parked, pool_open, remaining, mem>>
  BY DEF Recv
<1>2. chan \in Seq(Tasks) /\ Len(chan) \in Nat \ {0} /\ t = chan[1]
  BY <1>1, EmptySeq DEF IoTyped
<1>3. /\ t \in Tasks /\ chan' \in Seq(Tasks) /\ Len(chan') = Len(chan) - 1
      /\ \A k \in 1..Len(chan') : chan'[k] = chan[k + 1]
  BY <1>1, <1>2, HeadTailProperties
<1>4. t # NoTask
  BY <1>3, TaskInHand
<1> HIDE DEF t
<1>5. /\ worker'[w].pc = "reading" /\ worker'[w].task = t
      /\ \A v \in Workers : v # w => worker'[v] = worker[v]
      /\ worker' \in [Workers -> WorkerState]
  BY <1>1, <1>3, WorkerWritten
<1>6. IoTyped'
  <2>1. \A v \in Workers : v \in Busy' <=> worker'[v].task # NoTask
    BY <1>4, <1>5 DEF Busy, IoTyped
  <2> QED
    BY <1>1, <1>3, <1>5, <2>1 DEF IoTyped, WorkerState
<1>7. Queued = Queued' \cup {t}
  <2>1. ASSUME NEW k \in 1..Len(chan) PROVE chan[k] \in Queued' \cup {t}
    <3>1. CASE k = 1
      BY <1>2, <3>1
    <3>2. CASE k # 1
      <4>1. k - 1 \in 1..Len(chan') /\ (k - 1) + 1 = k
        BY <1>2, <1>3, <3>2
      <4>2. chan'[k - 1] = chan[k]
        BY <1>3, <4>1
      <4> QED
        BY <4>1, <4>2 DEF Queued
    <3> QED
      BY <3>1, <3>2
  <2>2. ASSUME NEW k \in 1..Len(chan') PROVE chan'[k] \in Queued
    <3>1. k + 1 \in 1..Len(chan)
      BY <1>2, <1>3
    <3> QED
      BY <1>3, <3>1 DEF Queued
  <2>3. t \in Queued
    BY <1>2 DEF Queued
  <2> QED
    BY <2>1, <2>2, <2>3 DEF Queued
<1>8. Flying' = Flying
  BY <1>1, <1>5, <1>7 DEF Flying, Busy
<1>9. Unread' = Unread
  BY <1>1, <1>5, <1>7 DEF Unread
<1>10. CountsExact'
  <2> SUFFICES ASSUME NEW c \in Loads
               PROVE  remaining'[c] = Cardinality(QueuedOf(c)') + Cardinality(HeldOf(c)')
    BY DEF CountsExact
  <2>1. remaining'[c] = Cardinality(QueuedOf(c)) + Cardinality(HeldOf(c))
    BY <1>1 DEF CountsExact
  <2>2. Cardinality(QueuedOf(c)') = IF t \in OfLoad(c) THEN Cardinality(QueuedOf(c)) - 1
                                    ELSE Cardinality(QueuedOf(c))
    <3>1. QueuedOf(c)' = PlacesOf(Tail(chan), OfLoad(c))
      BY <1>1 DEF QueuedOf, OfLoad, Tasks, PlacesOf
    <3> QED
      BY <1>1, <1>2, <3>1, PlacesOfTail DEF QueuedOf, t
  <2>3. t \in OfLoad(c) <=> t.load = c
    BY <1>3 DEF OfLoad
  <2>4. w \notin HeldOf(c) /\ HeldOf(c)' = IF t.load = c THEN HeldOf(c) \cup {w} ELSE HeldOf(c)
    BY <1>1, <1>5 DEF HeldOf, Held
  <2>5. Cardinality(HeldOf(c) \cup {w}) = Cardinality(HeldOf(c)) + 1
    BY <2>4, CountsAreFinite, FS_AddElement
  <2>6. Cardinality(QueuedOf(c)) \in Nat /\ Cardinality(HeldOf(c)) \in Nat
    BY CountsAreFinite
  <2> QED
    BY <2>1, <2>2, <2>3, <2>4, <2>5, <2>6
<1>11. Queued' \subseteq Queued /\ t \in Queued
  BY <1>7
<1>12. \A v \in Busy' : worker'[v].task = t \/ (v \in Busy /\ worker'[v].task = worker[v].task)
  BY <1>5 DEF Busy
<1> QED
  BY <1>1, <1>5, <1>6, <1>8, <1>9, <1>10, <1>11, <1>12

\* pread(): a worker has read its task.
LEMMA PreadStep ==
  ASSUME IoTyped, CountsExact, NEW w \in Workers, Pread(w)
  PROVE  /\ CountsExact' /\ Flying' = Flying
         /\ Unread' \subseteq Unread /\ Unread \subseteq Unread' \cup {worker[w].task}
         /\ worker[w].task \in Flying
         /\ worker' \in [Workers -> WorkerState] /\ (\A v \in Workers : v \in Busy' <=> v \in Busy)
         /\ \A v \in Workers : worker'[v].pc = "publishing" <=> worker[v].pc = "publishing"
         /\ \A v \in Workers : worker'[v].task = worker[v].task
         /\ Queued' = Queued /\ Busy' = Busy
<1>1. /\ worker[w].pc = "reading" /\ UNCHANGED <<layer_status, parked, pool_open, chan, remaining>>
      /\ worker' = [worker EXCEPT ![w] = [pc |-> "counting", task |-> worker[w].task]]
  BY StageWritten DEF Pread
<1>2. worker[w].task \in Tasks /\ worker[w].task \in Flying
  BY <1>1, TaskInHand DEF Busy
<1>3. /\ worker'[w].pc = "counting" /\ worker'[w].task = worker[w].task
      /\ \A v \in Workers : v # w => worker'[v] = worker[v]
      /\ worker' \in [Workers -> WorkerState]
  <2>1. worker' = [worker EXCEPT ![w] = [pc |-> "counting", task |-> worker[w].task]]
    BY <1>1
  <2>2. /\ worker'[w].pc = "counting" /\ worker'[w].task = worker[w].task
        /\ \A v \in Workers : v # w => worker'[v] = worker[v]
        /\ /\ "counting" \in {"idle", "reading", "counting", "publishing", "exited"}
           /\ worker[w].task \in Tasks \cup {NoTask}
           => worker' \in [Workers -> WorkerState]
    BY <2>1, WorkerWritten, Zenon
  <2> QED
    BY <1>2, <2>2
<1>4. \A v \in Workers : /\ worker'[v].task = worker[v].task
                         /\ worker'[v].pc = IF v = w THEN "counting" ELSE worker[v].pc
  <2> TAKE v \in Workers
  <2>1. CASE v = w
    BY <1>3, <2>1
  <2>2. CASE v # w
    BY <1>3, <2>2
  <2> QED
    BY <2>1, <2>2
<1>5. Queued' = Queued
  BY <1>1 DEF Queued
<1>6. Busy' = Busy
  BY <1>1, <1>4 DEF Busy
<1>7. Flying' = Flying
  BY <1>4, <1>5, <1>6 DEF Flying, Busy
<1>8. Unread' \subseteq Unread /\ Unread \subseteq Unread' \cup {worker[w].task}
  BY <1>1, <1>4, <1>5 DEF Unread
<1>9. \A c \in Loads : QueuedOf(c)' = QueuedOf(c) /\ HeldOf(c)' = HeldOf(c)
  BY <1>1, <1>4 DEF QueuedOf, PlacesOf, OfLoad, Tasks, HeldOf, Held
<1>10. CountsExact'
  BY <1>1, <1>9 DEF CountsExact
<1> QED
  BY <1>1, <1>2, <1>3, <1>4, <1>5, <1>6, <1>7, <1>8, <1>10

\* A worker whose count is the last of a load holds its only task; otherwise
\* another task of the load is queued or in another worker's hands.
LEMMA LastOfLoad ==
  ASSUME IsFiniteSet(Workers), IoTyped, CountsExact,
         NEW w \in Workers, NEW c \in Loads, w \in HeldOf(c)
  PROVE  /\ remaining[c] \in Nat \ {0}
         /\ Cardinality(HeldOf(c) \ {w}) = Cardinality(HeldOf(c)) - 1
         /\ remaining[c] = 1 => QueuedOf(c) = {} /\ HeldOf(c) = {w}
         /\ remaining[c] # 1 => \/ \E k \in 1..Len(chan) : chan[k].load = c
                                \/ \E v \in HeldOf(c) : v # w
<1> DEFINE Q == QueuedOf(c)
           H == HeldOf(c)
<1>1. /\ remaining[c] = Cardinality(Q) + Cardinality(H)
      /\ IsFiniteSet(Q) /\ IsFiniteSet(H)
      /\ Cardinality(Q) \in Nat /\ Cardinality(H) \in Nat
  BY CountsAreFinite DEF CountsExact
<1>2. /\ \A k \in Q : k \in 1..Len(chan) /\ chan[k].load = c
  BY DEF QueuedOf, PlacesOf, OfLoad
<1> HIDE DEF Q, H
<1>3. w \in H
  BY DEF H
<1>4. /\ Cardinality(H \ {w}) = Cardinality(H) - 1 /\ IsFiniteSet(H \ {w})
      /\ Cardinality(H \ {w}) \in Nat
  BY <1>1, <1>3, FS_RemoveElement, FS_CardinalityType
<1>5. (Cardinality(Q) = 0 <=> Q = {}) /\ (Cardinality(H \ {w}) = 0 <=> H \ {w} = {})
  BY <1>1, <1>4, FS_EmptySet
<1>6. remaining[c] = 1 => Q = {} /\ H = {w}
  <2> SUFFICES ASSUME remaining[c] = 1 PROVE Q = {} /\ H = {w}
    OBVIOUS
  <2>1. Cardinality(Q) = 0 /\ Cardinality(H \ {w}) = 0
    BY <1>1, <1>4
  <2>2. Q = {} /\ H \ {w} = {}
    BY <1>5, <2>1
  <2> QED
    BY <1>3, <2>2
<1>7. remaining[c] # 1 => Q # {} \/ H \ {w} # {}
  BY <1>1, <1>4, <1>5
<1> QED
  BY <1>1, <1>2, <1>4, <1>6, <1>7 DEF Q, H

\* fetch_sub(1): a worker counts its task, and keeps it if it is the last of a load
\* that is waited for.
LEMMA CountStep ==
  ASSUME IsFiniteSet(Workers), IoTyped, CountsExact, NEW w \in Workers, Count(w)
  PROVE  /\ IoTyped' /\ CountsExact' /\ Flying' \subseteq Flying /\ Unread' = Unread
         /\ \A v \in Workers : worker'[v].pc = "publishing" =>
              worker'[v].task = worker[v].task /\ (worker[v].pc = "publishing" \/ v = w)
         /\ worker[w].task \in Flying
         /\ \A x \in Flying : x \in Flying' \/ x = worker[w].task
         /\ worker'[w].pc = "publishing" =>
              /\ worker[w].task.update_status
              /\ \A x \in Queued : x.load # worker[w].task.load
              /\ \A v \in Workers : Held(v) /\ worker[v].task.load = worker[w].task.load => v = w
         /\ Queued' = Queued
         /\ \A v \in Busy' : v \in Busy /\ worker'[v].task = worker[v].task
<1> DEFINE t == worker[w].task
           c == t.load
           last == t.update_status /\ remaining[c] = 1
<1>1. /\ worker[w].pc = "counting" /\ t \in Tasks /\ t \in Flying /\ c \in Loads
      /\ UNCHANGED <<layer_status, parked, pool_open, chan, mem>>
      /\ remaining' = [remaining EXCEPT ![c] = @ - 1]
  <2>1. worker[w].pc = "counting"
    BY DEF Count, CountThen
  <2>2. t \in Tasks /\ t \in Flying
    BY <2>1, TaskInHand DEF Busy
  <2> QED
    BY <2>1, <2>2 DEF Count, CountThen, Tasks
<1>3. worker' = [worker EXCEPT ![w] = [pc |-> IF last THEN "publishing" ELSE "idle",
                                       task |-> IF last THEN t ELSE NoTask]]
  <2>1. worker' = [worker EXCEPT ![w] = IF last
                                          THEN [pc |-> "publishing", task |-> t]
                                          ELSE [pc |-> "idle", task |-> NoTask]]
    BY DEF Count, CountThen
  <2> QED
    BY <2>1
<1> HIDE DEF t
<1>4. t # NoTask
  BY <1>1, TaskInHand
<1>5. /\ worker'[w].pc = IF last THEN "publishing" ELSE "idle"
      /\ worker'[w].task = IF last THEN t ELSE NoTask
      /\ \A v \in Workers : v # w => worker'[v] = worker[v]
      /\ worker' \in [Workers -> WorkerState]
  <2> DEFINE s == IF last THEN "publishing" ELSE "idle"
             u == IF last THEN t ELSE NoTask
  <2>1. s \in {"idle", "reading", "counting", "publishing", "exited"} /\ u \in Tasks \cup {NoTask}
    BY <1>1
  <2>2. worker' = [worker EXCEPT ![w] = [pc |-> s, task |-> u]]
    BY <1>3
  <2> HIDE DEF s, u
  <2>3. /\ worker'[w].pc = s /\ worker'[w].task = u
        /\ \A v \in Workers : v # w => worker'[v] = worker[v]
        /\ worker' \in [Workers -> WorkerState]
    BY <2>1, <2>2, WorkerWritten
  <2> QED
    BY <2>3 DEF s, u
<1>6. w \in HeldOf(c)
  BY <1>1 DEF HeldOf, Held, t
<1>7. /\ remaining[c] \in Nat \ {0}
      /\ Cardinality(HeldOf(c) \ {w}) = Cardinality(HeldOf(c)) - 1
      /\ last => QueuedOf(c) = {} /\ HeldOf(c) = {w}
  BY <1>1, <1>6, LastOfLoad
<1>8. IoTyped'
  <2>1. \A v \in Workers : v \in Busy' <=> worker'[v].task # NoTask
    BY <1>4, <1>5 DEF Busy, IoTyped
  <2>2. remaining' \in [Loads -> Nat]
    BY <1>1, <1>7 DEF IoTyped
  <2> QED
    BY <1>1, <1>5, <2>1, <2>2 DEF IoTyped, WorkerState
<1>9. Queued' = Queued
  BY <1>1 DEF Queued
<1>10. Flying' \subseteq Flying /\ \A x \in Flying : x \in Flying' \/ x = t
  <2>1. \A v \in Workers : v \in Busy' => v \in Busy /\ worker'[v].task = worker[v].task
    BY <1>1, <1>5 DEF Busy, t
  <2>2. \A v \in Workers : v \in Busy => worker[v].task = t \/ (v \in Busy' /\ worker'[v].task = worker[v].task)
    BY <1>1, <1>5 DEF Busy, t
  <2> QED
    BY <1>9, <2>1, <2>2 DEF Flying, Busy
<1>11. Unread' = Unread
  BY <1>1, <1>5, <1>9 DEF Unread
<1>12. CountsExact'
  <2> SUFFICES ASSUME NEW b \in Loads
               PROVE  remaining'[b] = Cardinality(QueuedOf(b)') + Cardinality(HeldOf(b)')
    BY DEF CountsExact
  <2>1. QueuedOf(b)' = QueuedOf(b)
    BY <1>1 DEF QueuedOf, PlacesOf, OfLoad, Tasks
  <2>2. HeldOf(b)' = IF b = c THEN HeldOf(c) \ {w} ELSE HeldOf(b)
    <3>1. \A v \in Workers : v \in HeldOf(b)' <=> v \in HeldOf(b) /\ v # w
      <4> SUFFICES ASSUME NEW v \in Workers PROVE v \in HeldOf(b)' <=> v \in HeldOf(b) /\ v # w
        OBVIOUS
      <4>1. CASE v = w
        BY <1>5, <4>1 DEF HeldOf, Held
      <4>2. CASE v # w
        BY <1>5, <4>2 DEF HeldOf, Held
      <4> QED
        BY <4>1, <4>2
    <3>2. HeldOf(b) \subseteq Workers /\ HeldOf(b)' \subseteq Workers
      BY DEF HeldOf
    <3>3. b # c => w \notin HeldOf(b)
      BY DEF HeldOf, t
    <3> QED
      BY <3>1, <3>2, <3>3
  <2>3. remaining[b] = Cardinality(QueuedOf(b)) + Cardinality(HeldOf(b))
    BY DEF CountsExact
  <2>4. Cardinality(QueuedOf(b)) \in Nat /\ Cardinality(HeldOf(b)) \in Nat
    BY CountsAreFinite
  <2>5. remaining'[b] = IF b = c THEN remaining[b] - 1 ELSE remaining[b]
    BY <1>1 DEF IoTyped
  <2> QED
    BY <1>7, <2>1, <2>2, <2>3, <2>4, <2>5
<1>13. last => \A x \in Queued : x.load # c
  <2> SUFFICES ASSUME last, NEW x \in Queued, x.load = c PROVE FALSE
    OBVIOUS
  <2>1. PICK k \in 1..Len(chan) : chan[k] = x
    BY DEF Queued
  <2>2. k \in QueuedOf(c)
    BY <2>1, TaskInHand DEF QueuedOf, PlacesOf, OfLoad
  <2> QED
    BY <1>7, <2>2
<1>14. last => \A v \in Workers : Held(v) /\ worker[v].task.load = c => v = w
  BY <1>7 DEF HeldOf
<1>15. \A v \in Workers : worker'[v].pc = "publishing" =>
         worker'[v].task = worker[v].task /\ (worker[v].pc = "publishing" \/ v = w)
  BY <1>5 DEF t
<1>16. worker'[w].pc = "publishing" => last
  BY <1>5
<1>17. \A v \in Busy' : v \in Busy /\ worker'[v].task = worker[v].task
  BY <1>1, <1>5 DEF Busy, t
<1> QED
  BY <1>1, <1>8, <1>9, <1>10, <1>11, <1>12, <1>13, <1>14, <1>15, <1>16, <1>17 DEF t

\* The last worker of a load publishes it.
LEMMA PublishStep ==
  ASSUME IoTyped, CountsExact, NEW w \in Workers, Publish(w), worker[w].task.layer \in Layers
  PROVE  /\ IoTyped' /\ CountsExact' /\ Flying' \subseteq Flying /\ Unread' = Unread
         /\ \A v \in Workers : worker'[v].pc = "publishing" =>
              worker'[v].task = worker[v].task /\ worker[v].pc = "publishing"
         /\ worker[w].task \in Flying /\ worker[w].pc = "publishing"
         /\ \A x \in Flying : x \in Flying' \/ x = worker[w].task
         /\ Queued' = Queued
         /\ \A v \in Busy' : v # w /\ v \in Busy /\ worker'[v].task = worker[v].task
<1>1. /\ worker[w].pc = "publishing"
      /\ layer_status' = [layer_status EXCEPT ![worker[w].task.layer] = "Loaded"]
      /\ parked' = FALSE
      /\ UNCHANGED <<pool_open, chan, remaining, mem>>
      /\ worker' = [worker EXCEPT ![w] = [pc |-> "idle", task |-> NoTask]]
  BY DEF Publish, PublishLoaded
<1>2. worker[w].task \in Flying /\ w \in Busy
  BY <1>1, TaskInHand DEF Busy
<1>3. /\ worker'[w].pc = "idle" /\ worker'[w].task = NoTask
      /\ \A v \in Workers : v # w => worker'[v] = worker[v]
      /\ worker' \in [Workers -> WorkerState]
  BY <1>1, WorkerWritten
<1>4. IoTyped'
  <2>1. \A v \in Workers : v \in Busy' <=> worker'[v].task # NoTask
    BY <1>3 DEF Busy, IoTyped
  <2>2. layer_status' \in [Layers -> LayerStatus]
    BY <1>1 DEF IoTyped, LayerStatus
  <2> QED
    BY <1>1, <1>3, <2>1, <2>2 DEF IoTyped, WorkerState
<1>5. Queued' = Queued
  BY <1>1 DEF Queued
<1>6. Flying' \subseteq Flying /\ \A x \in Flying : x \in Flying' \/ x = worker[w].task
  <2>1. \A v \in Workers : v \in Busy' => v \in Busy /\ worker'[v].task = worker[v].task
    BY <1>3 DEF Busy
  <2>2. \A v \in Workers : v \in Busy => v = w \/ (v \in Busy' /\ worker'[v].task = worker[v].task)
    BY <1>3 DEF Busy
  <2> QED
    BY <1>5, <2>1, <2>2 DEF Flying, Busy
<1>7. Unread' = Unread
  BY <1>1, <1>3, <1>5 DEF Unread
<1>8. \A c \in Loads : QueuedOf(c)' = QueuedOf(c) /\ HeldOf(c)' = HeldOf(c)
  BY <1>1, <1>3 DEF QueuedOf, PlacesOf, OfLoad, Tasks, HeldOf, Held
<1>9. CountsExact'
  BY <1>1, <1>8 DEF CountsExact
<1>10. \A v \in Busy' : v # w /\ v \in Busy /\ worker'[v].task = worker[v].task
  BY <1>3 DEF Busy
<1> QED
  BY <1>1, <1>2, <1>3, <1>4, <1>5, <1>6, <1>7, <1>9, <1>10

\* A worker that finds the channel closed and empty ends.
LEMMA ExitStep ==
  ASSUME IoTyped, CountsExact, NEW w \in Workers, Exit(w)
  PROVE  /\ IoTyped' /\ CountsExact' /\ Flying' = Flying /\ Unread' = Unread
         /\ UNCHANGED <<layer_status, parked, mem>>
         /\ \A v \in Workers : worker'[v].pc = "publishing" <=> worker[v].pc = "publishing"
         /\ \A v \in Workers : worker'[v].task = worker[v].task
         /\ Queued' = Queued /\ Busy' = Busy
<1>1. /\ worker[w].pc = "idle"
      /\ UNCHANGED <<layer_status, parked, pool_open, chan, remaining, mem>>
      /\ worker' = [worker EXCEPT ![w] = [pc |-> "exited", task |-> worker[w].task]]
  BY StageWritten DEF Exit
<1>2. worker[w].task = NoTask
  BY <1>1, TaskInHand DEF Busy
<1>3. /\ worker'[w].pc = "exited" /\ worker'[w].task = worker[w].task
      /\ \A v \in Workers : v # w => worker'[v] = worker[v]
      /\ worker' \in [Workers -> WorkerState]
  BY <1>1, <1>2, WorkerWritten
<1>4. IoTyped'
  <2>1. \A v \in Workers : v \in Busy' <=> worker'[v].task # NoTask
    BY <1>2, <1>3 DEF Busy, IoTyped
  <2> QED
    BY <1>1, <1>3, <2>1 DEF IoTyped, WorkerState
<1>5. \A v \in Workers : /\ worker'[v].task = worker[v].task
                         /\ worker'[v].pc = IF v = w THEN "exited" ELSE worker[v].pc
  BY <1>3
<1>6. Queued' = Queued
  BY <1>1 DEF Queued
<1>7. Flying' = Flying /\ Unread' = Unread
  BY <1>1, <1>5, <1>6 DEF Flying, Busy, Unread
<1>8. \A c \in Loads : QueuedOf(c)' = QueuedOf(c) /\ HeldOf(c)' = HeldOf(c)
  BY <1>1, <1>3 DEF QueuedOf, PlacesOf, OfLoad, Tasks, HeldOf, Held
<1>9. CountsExact'
  BY <1>1, <1>8 DEF CountsExact
<1>10. Busy' = Busy
  BY <1>1, <1>5 DEF Busy
<1> QED
  BY <1>1, <1>4, <1>5, <1>6, <1>7, <1>9, <1>10

\* There is always an identity for a new load: finitely many are in use.
LEMMA FreshLoadIsFresh ==
  ASSUME IsFiniteSet(Workers), ~IsFiniteSet(Loads), IoTyped
  PROVE  FreshLoad \in Loads /\ \A x \in Flying : x.load # FreshLoad
<1>1. \E c \in Loads : IdleLoad(c)
  <2> SUFFICES ASSUME \A c \in Loads : ~IdleLoad(c) PROVE FALSE
    OBVIOUS
  <2> DEFINE I == 1..Len(chan)
             A == {chan[k].load : k \in I}
             B == {worker[v].task.load : v \in Workers}
             f == [k \in I |-> chan[k].load]
             g == [v \in Workers |-> worker[v].task.load]
  <2>1. IsFiniteSet(I)
    <3>1. Len(chan) \in Nat
      BY DEF IoTyped
    <3> QED
      BY <3>1, FS_Interval
  <2>2. f \in Surjection(I, A)
    BY DEF Surjection
  <2>3. g \in Surjection(Workers, B)
    BY DEF Surjection
  <2>4. \A c \in Loads : c \in A \cup B
    BY DEF IdleLoad
  <2> HIDE DEF I, A, B, f, g
  <2>5. IsFiniteSet(A) /\ IsFiniteSet(B)
    BY <2>1, <2>2, <2>3, FS_Surjection
  <2>6. IsFiniteSet(A \cup B)
    BY <2>5, FS_Union
  <2>7. Loads \in SUBSET (A \cup B)
    BY <2>4
  <2> QED
    BY <2>6, <2>7, FS_Subset
<1>2. FreshLoad \in Loads /\ IdleLoad(FreshLoad)
  BY <1>1, Zenon DEF FreshLoad
<1>3. ASSUME NEW x \in Flying PROVE x.load # FreshLoad
  <2>1. CASE x \in Queued
    BY <1>2, <2>1 DEF Queued, IdleLoad
  <2>2. CASE x \notin Queued
    <3>1. PICK v \in Workers : v \in Busy /\ worker[v].task = x
      BY <2>2 DEF Flying, Busy
    <3>2. worker[v].task # NoTask
      BY <3>1, TaskInHand
    <3> QED
      BY <1>2, <3>1, <3>2 DEF IdleLoad
  <2> QED
    BY <2>1, <2>2
<1> QED
  BY <1>2, <1>3

\* A worker's step keeps the counts and what is waited for.
LEMMA WorkKeepsIo ==
  ASSUME IsFiniteSet(Workers), IoInv, NEW w \in Workers, Work(w), UNCHANGED <<pc, layer>>
  PROVE  IoInv'
<1> USE DEF IoInv
<1> DEFINE t == worker[w].task
<1>1. CASE Recv(w)
  <2>1. /\ IoTyped' /\ CountsExact' /\ Flying' = Flying
        /\ \A v \in Workers : worker'[v].pc = "publishing" =>
             worker[v].pc = "publishing" /\ worker'[v].task = worker[v].task
        /\ Queued' \subseteq Queued
        /\ \A v \in Busy' : worker'[v].task \in Queued
                             \/ (v \in Busy /\ worker'[v].task = worker[v].task)
    BY <1>1, RecvStep
  <2>2. UNCHANGED layer_status
    BY <1>1 DEF Recv
  <2>3. ASSUME NEW v \in Workers, worker'[v].pc = "publishing"
        PROVE  worker'[v].task.update_status /\ OnlyOne(v)'
    <3>1. worker[v].task.update_status /\ OnlyOne(v) /\ worker'[v].task = worker[v].task
      BY <2>1, <2>3 DEF Waiting
    <3> QED
      BY <2>1, <3>1 DEF OnlyOne
  <2> QED
    BY <2>1, <2>2, <2>3 DEF Waiting
<1>2. CASE Pread(w)
  <2>1. /\ CountsExact' /\ Flying' = Flying /\ worker' \in [Workers -> WorkerState]
        /\ \A v \in Workers : worker'[v].pc = "publishing" <=> worker[v].pc = "publishing"
        /\ \A v \in Workers : worker'[v].task = worker[v].task
        /\ Queued' = Queued /\ Busy' = Busy
    BY <1>2, PreadStep
  <2>2. /\ UNCHANGED <<layer_status, parked, pool_open, chan, remaining>>
        /\ \E done : mem' = AfterRead(done)
    BY <1>2 DEF Pread
  <2>3. mem' \in [Cells -> Data \cup {Empty}]
    <3>1. PICK done : mem' = AfterRead(done)
      BY <2>2
    <3>2. \A c \in Cells : mem[c] \in Data \cup {Empty}
      BY DEF IoTyped
    <3> QED
      BY <3>1, <3>2 DEF AfterRead
  <2>4. IoTyped'
    BY <2>1, <2>2, <2>3 DEF IoTyped, WorkerState
  <2>5. ASSUME NEW v \in Workers, worker'[v].pc = "publishing"
        PROVE  worker'[v].task.update_status /\ OnlyOne(v)'
    <3>1. worker[v].task.update_status /\ OnlyOne(v) /\ worker'[v].task = worker[v].task
      BY <2>1, <2>5 DEF Waiting
    <3> QED
      BY <2>1, <3>1 DEF OnlyOne, Busy
  <2> QED
    BY <2>1, <2>2, <2>4, <2>5 DEF Waiting
<1>3. CASE Count(w)
  <2>1. /\ IoTyped' /\ CountsExact' /\ Flying' \subseteq Flying
        /\ t \in Flying /\ Queued' = Queued
        /\ \A v \in Workers : worker'[v].pc = "publishing" =>
              worker'[v].task = worker[v].task /\ (worker[v].pc = "publishing" \/ v = w)
        /\ worker'[w].pc = "publishing" =>
              /\ t.update_status
              /\ \A x \in Queued : x.load # t.load
              /\ \A v \in Workers : Held(v) /\ worker[v].task.load = t.load => v = w
        /\ \A v \in Busy' : v \in Busy /\ worker'[v].task = worker[v].task
    BY <1>3, CountStep
  <2>2. UNCHANGED layer_status /\ worker[w].pc = "counting"
    BY <1>3 DEF Count, CountThen
  <2> HIDE DEF t
  <2>3. ASSUME NEW v \in Workers, worker'[v].pc = "publishing", v # w
        PROVE  worker'[v].task.update_status /\ OnlyOne(v)'
    <3>1. worker[v].task.update_status /\ OnlyOne(v) /\ worker'[v].task = worker[v].task
      BY <2>1, <2>3 DEF Waiting
    <3> QED
      BY <2>1, <3>1 DEF OnlyOne
  <2>4. ASSUME worker'[w].pc = "publishing"
        PROVE  worker'[w].task.update_status /\ OnlyOne(w)'
    <3>1. worker'[w].task = t /\ t.update_status
      BY <2>1, <2>4 DEF t
    <3>2. \A x \in Flying : x.update_status => x.load = t.load
      BY <2>1, <3>1 DEF Waiting
    <3>3. \A x \in Queued : ~x.update_status
      BY <2>1, <2>4, <3>2 DEF Flying
    <3>4. ASSUME NEW v \in Busy, v # w, worker[v].task.update_status PROVE FALSE
      <4>1. v \in Workers /\ worker[v].task \in Flying
        BY DEF Busy, Flying
      <4>2. worker[v].task.load = t.load
        BY <3>2, <3>4, <4>1
      <4>3. worker[v].pc = "publishing"
        BY <2>1, <2>4, <3>4, <4>1, <4>2 DEF Held, Busy
      <4>4. OnlyOne(v)
        BY <4>1, <4>3 DEF Waiting
      <4>5. w \in Busy
        BY <2>2 DEF Busy
      <4> QED
        BY <3>1, <3>4, <4>4, <4>5 DEF OnlyOne, t
    <3> QED
      BY <2>1, <3>1, <3>3, <3>4 DEF OnlyOne
  <2> QED
    BY <2>1, <2>2, <2>3, <2>4 DEF Waiting
<1>4. CASE Publish(w)
  <2>1. worker[w].pc = "publishing" /\ w \in Busy /\ t \in Tasks /\ t \in Flying
    BY <1>4, TaskInHand DEF Publish, Busy
  <2>2. t.update_status /\ OnlyOne(w) /\ pc = "await"
    BY <2>1 DEF Waiting
  <2>3. /\ IoTyped' /\ CountsExact' /\ Queued' = Queued
        /\ \A v \in Workers : worker'[v].pc = "publishing" =>
             worker'[v].task = worker[v].task /\ worker[v].pc = "publishing"
        /\ \A v \in Busy' : v # w /\ v \in Busy /\ worker'[v].task = worker[v].task
    BY <1>4, <2>1, PublishStep DEF Tasks
  <2>4. \A v \in Busy' : ~worker'[v].task.update_status
    BY <2>2, <2>3 DEF OnlyOne
  <2>5. \A x \in Flying' : ~x.update_status
    BY <2>2, <2>3, <2>4 DEF OnlyOne, Flying
  <2>6. \A v \in Workers : worker'[v].pc # "publishing"
    <3> SUFFICES ASSUME NEW v \in Workers, worker'[v].pc = "publishing" PROVE FALSE
      OBVIOUS
    <3>1. v \in Busy' /\ worker[v].task.update_status /\ worker'[v].task = worker[v].task
      BY <2>3 DEF Waiting, Busy
    <3> QED
      BY <2>4, <3>1
  <2> QED
    BY <2>2, <2>3, <2>5, <2>6 DEF Waiting
<1>5. CASE Exit(w)
  <2>1. /\ IoTyped' /\ CountsExact' /\ Flying' = Flying /\ UNCHANGED layer_status
        /\ \A v \in Workers : worker'[v].pc = "publishing" <=> worker[v].pc = "publishing"
        /\ \A v \in Workers : worker'[v].task = worker[v].task
        /\ Queued' = Queued /\ Busy' = Busy
    BY <1>5, ExitStep
  <2>2. ASSUME NEW v \in Workers, worker'[v].pc = "publishing"
        PROVE  worker'[v].task.update_status /\ OnlyOne(v)'
    <3>1. worker[v].task.update_status /\ OnlyOne(v) /\ worker'[v].task = worker[v].task
      BY <2>1, <2>2 DEF Waiting
    <3> QED
      BY <2>1, <3>1 DEF OnlyOne, Busy
  <2> QED
    BY <2>1, <2>2 DEF Waiting
<1> QED
  BY <1>1, <1>2, <1>3, <1>4, <1>5 DEF Work

\* The sends of one load: its tasks, and no others, are new.
LEMMA SendStep ==
  ASSUME IsFiniteSet(Workers), IoTyped, CountsExact,
         NEW c \in Loads, \A x \in Flying : x.load # c,
         NEW tasks \in Seq(Tasks), \A k \in 1..Len(tasks) : tasks[k].load = c,
         Send(c, tasks), UNCHANGED <<layer_status, parked, pool_open, worker, mem>>
  PROVE  /\ IoTyped' /\ CountsExact'
         /\ Queued' = Queued \cup Listed(tasks) /\ Flying' = Flying \cup Listed(tasks)
         /\ Unread' = Unread \cup Listed(tasks)
         /\ Busy' = Busy
<1> DEFINE n == Len(tasks)
           new == Listed(tasks)
<1>1. remaining' = [remaining EXCEPT ![c] = n] /\ chan' = chan \o tasks /\ n \in Nat
  BY DEF Send
<1>2. chan \in Seq(Tasks) /\ Len(chan) \in Nat
  BY DEF IoTyped
<1>3. /\ chan' \in Seq(Tasks) /\ Len(chan') = Len(chan) + n
      /\ \A k \in 1..(Len(chan) + n) :
           chan'[k] = IF k <= Len(chan) THEN chan[k] ELSE tasks[k - Len(chan)]
  <2>1. /\ chan \o tasks \in Seq(Tasks)
        /\ Len(chan \o tasks) = Len(chan) + Len(tasks)
        /\ \A k \in 1..(Len(chan) + Len(tasks)) :
             (chan \o tasks)[k] = IF k <= Len(chan) THEN chan[k] ELSE tasks[k - Len(chan)]
    BY <1>2, ConcatFacts, Zenon
  <2> QED
    BY <1>1, <2>1, Zenon
<1> HIDE DEF n
<1>4. IoTyped'
  <2>1. remaining' \in [Loads -> Nat]
    BY <1>1 DEF IoTyped
  <2>2. Busy' = Busy
    BY DEF Busy
  <2> QED
    BY <1>3, <2>1, <2>2 DEF IoTyped
<1>5. Queued' = Queued \cup new
  <2>1. ASSUME NEW k \in 1..Len(chan') PROVE chan'[k] \in Queued \cup new
    <3>1. CASE k <= Len(chan)
      BY <1>2, <1>3, <3>1 DEF Queued
    <3>2. CASE ~(k <= Len(chan))
      <4>1. k - Len(chan) \in 1..n /\ chan'[k] = tasks[k - Len(chan)]
        BY <1>1, <1>2, <1>3, <3>2
      <4> QED
        BY <4>1 DEF Listed, n
    <3> QED
      BY <3>1, <3>2
  <2>2. ASSUME NEW k \in 1..Len(chan) PROVE chan[k] \in Queued'
    <3>1. k \in 1..Len(chan') /\ k \in 1..(Len(chan) + n) /\ k <= Len(chan)
      BY <1>1, <1>2, <1>3
    <3>2. chan'[k] = chan[k]
      BY <1>3, <3>1
    <3> QED
      BY <3>1, <3>2 DEF Queued
  <2>3. ASSUME NEW i \in 1..n PROVE tasks[i] \in Queued'
    <3> DEFINE k == Len(chan) + i
    <3>1. k \in 1..Len(chan') /\ k \in 1..(Len(chan) + n) /\ ~(k <= Len(chan)) /\ k - Len(chan) = i
      BY <1>1, <1>2, <1>3
    <3> HIDE DEF k
    <3>2. chan'[k] = tasks[i]
      BY <1>3, <3>1
    <3> QED
      BY <3>1, <3>2 DEF Queued
  <2>4. new \subseteq Queued'
    BY <2>3 DEF Listed, n
  <2> HIDE DEF new
  <2>5. Queued' \subseteq Queued \cup new
    BY <2>1 DEF Queued
  <2>6. Queued \subseteq Queued'
    BY <2>2 DEF Queued
  <2> QED
    BY <2>4, <2>5, <2>6
<1>6. Flying' = Flying \cup new /\ Unread' = Unread \cup new /\ Busy' = Busy
  <2> HIDE DEF new
  <2> QED
    BY <1>5 DEF Flying, Busy, Unread
<1>7. CountsExact'
  <2> SUFFICES ASSUME NEW b \in Loads
               PROVE  remaining'[b] = Cardinality(QueuedOf(b)') + Cardinality(HeldOf(b)')
    BY DEF CountsExact
  <2>1. HeldOf(b)' = HeldOf(b)
    BY DEF HeldOf, Held
  <2>2. QueuedOf(b)' = PlacesOf(chan \o tasks, OfLoad(b))
    BY <1>1 DEF QueuedOf, OfLoad, Tasks, PlacesOf
  <2>3. Cardinality(QueuedOf(b)') = Cardinality(QueuedOf(b)) + Cardinality(PlacesOf(tasks, OfLoad(b)))
    BY <1>2, <2>2, PlacesOfConcat DEF QueuedOf
  <2>4. remaining[b] = Cardinality(QueuedOf(b)) + Cardinality(HeldOf(b))
    BY DEF CountsExact
  <2>5. Cardinality(QueuedOf(b)) \in Nat /\ Cardinality(HeldOf(b)) \in Nat
    BY CountsAreFinite
  <2>6. CASE b = c
    <3>1. PlacesOf(tasks, OfLoad(b)) = 1..n
      BY <2>6 DEF PlacesOf, OfLoad, n
    <3>2. Cardinality(PlacesOf(tasks, OfLoad(b))) = n
      <4>1. n \in Int /\ 1 \in Int
        BY <1>1
      <4>2. Cardinality(1..n) = IF 1 > n THEN 0 ELSE n - 1 + 1
        BY <4>1, FS_Interval
      <4> QED
        BY <1>1, <3>1, <4>2
    <3>3. QueuedOf(b) = {}
      <4> SUFFICES ASSUME NEW k \in QueuedOf(b) PROVE FALSE
        OBVIOUS
      <4>1. k \in 1..Len(chan) /\ chan[k].load = b
        BY DEF QueuedOf, PlacesOf, OfLoad
      <4> QED
        BY <2>6, <4>1 DEF Flying, Queued
    <3>4. HeldOf(b) = {}
      BY <2>6 DEF HeldOf, Held, Flying, Busy
    <3>5. Cardinality(QueuedOf(b)) = 0 /\ Cardinality(HeldOf(b)) = 0
      BY <3>3, <3>4, FS_EmptySet
    <3>6. remaining'[b] = n
      BY <1>1, <2>6 DEF IoTyped
    <3> QED
      BY <1>1, <2>1, <2>3, <3>2, <3>5, <3>6
  <2>7. CASE b # c
    <3>1. PlacesOf(tasks, OfLoad(b)) = {}
      BY <2>7 DEF PlacesOf, OfLoad
    <3>2. Cardinality(PlacesOf(tasks, OfLoad(b))) = 0
      BY <3>1, FS_EmptySet
    <3>3. remaining'[b] = remaining[b]
      BY <1>1, <2>7 DEF IoTyped
    <3> QED
      BY <2>1, <2>3, <2>4, <2>5, <3>2, <3>3
  <2> QED
    BY <2>6, <2>7
<1> QED
  BY <1>4, <1>5, <1>6, <1>7

-----------------------------------------------------------------------------
(* The cache and the slices of a load. *)

\* The map and the queue agree, within the capacity.
Sound(c) == Agree(c) /\ Fits(c)

\* A load under way: reads are of known slices.
Looks == [cache: Caches, reads: SUBSET Keys]

\* A load with another cache, or other reads.
LEMMA LoadRecord ==
  ASSUME NEW C, NEW R, NEW load \in [cache: C, reads: R], NEW a \in C, NEW b \in R
  PROVE  /\ [load EXCEPT !.cache = a] = [cache |-> a, reads |-> load.reads]
         /\ [load EXCEPT !.cache = a, !.reads = b] = [cache |-> a, reads |-> b]
<1>1. [load EXCEPT !.cache = a] = [cache |-> a, reads |-> load.reads]
  OBVIOUS
<1>2. [load EXCEPT !.cache = a, !.reads = b] = [[load EXCEPT !.cache = a] EXCEPT !.reads = b]
  OBVIOUS
<1>3. [[cache |-> a, reads |-> load.reads] EXCEPT !.reads = b] = [cache |-> a, reads |-> b]
  OBVIOUS
<1> QED
  BY <1>1, <1>2, <1>3

\* A look at a slice finds it in the cache or makes it one to read; no slice enters
\* the cache without being read.
LEMMA LookAtFacts ==
  ASSUME NEW load \in Looks, Sound(load.cache), NEW k \in Keys
  PROVE  /\ LookAt(load, k) \in Looks /\ Sound(LookAt(load, k).cache)
         /\ k \in load.cache.entries \/ k \in LookAt(load, k).reads
         /\ LookAt(load, k).cache.entries \subseteq load.cache.entries \cup LookAt(load, k).reads
         /\ load.reads \subseteq LookAt(load, k).reads
         /\ LookAt(load, k).reads \subseteq load.reads \cup {k}
         /\ k \in load.cache.entries => /\ LookAt(load, k).reads = load.reads
                                        /\ LookAt(load, k).cache.entries = load.cache.entries
<1> DEFINE r == LookAt(load, k)
<1>0. load.cache \in Caches /\ load.reads \in SUBSET Keys
  BY DEF Looks
<1>1. CASE k \in load.cache.entries
  <2>1. Agree(LookedUp(load.cache, k)) /\ LookedUp(load.cache, k).entries = load.cache.entries
    BY LookedUpKeeps DEF Sound
  <2>2. LookedUp(load.cache, k) \in Caches
    BY <2>1 DEF Agree
  <2>3. r = [cache |-> LookedUp(load.cache, k), reads |-> load.reads]
    <3>1. r = [load EXCEPT !.cache = LookedUp(load.cache, k)]
      BY <1>1 DEF LookAt
    <3> QED
      BY <1>0, <2>2, <3>1, LoadRecord, Zenon DEF Looks
  <2>4. r.cache = LookedUp(load.cache, k) /\ r.reads = load.reads
    BY <2>3
  <2>5. r \in Looks
    BY <1>0, <2>2, <2>3 DEF Looks
  <2>6. Sound(r.cache) /\ r.cache.entries = load.cache.entries
    BY <2>1, <2>4 DEF Sound, Fits
  <2> HIDE DEF r
  <2> QED
    BY <1>1, <2>4, <2>5, <2>6 DEF r
<1>2. CASE k \notin load.cache.entries
  <2>1. Agree(Marked(load.cache, k)) /\ Fits(Marked(load.cache, k))
    BY MarkedKeeps DEF Sound
  <2>2. Marked(load.cache, k).entries \subseteq load.cache.entries \cup {k}
    <3>1. Marked(load.cache, k).entries = RoomFor(load.cache).entries \cup {k}
      BY <1>2, MarkedNew
    <3>2. RoomFor(load.cache).entries \subseteq load.cache.entries
      BY RoomForFacts DEF Sound
    <3> QED
      BY <3>1, <3>2
  <2>3. Marked(load.cache, k) \in Caches /\ load.reads \cup {k} \in SUBSET Keys
    BY <1>0, <2>1 DEF Agree
  <2>4. r = [cache |-> Marked(load.cache, k), reads |-> load.reads \cup {k}]
    <3>1. r = [load EXCEPT !.cache = Marked(load.cache, k), !.reads = load.reads \cup {k}]
      BY <1>2 DEF LookAt
    <3> QED
      BY <1>0, <2>3, <3>1, LoadRecord, Zenon DEF Looks
  <2>5. r.cache = Marked(load.cache, k) /\ r.reads = load.reads \cup {k}
    BY <2>4
  <2>6. r \in Looks
    BY <2>3, <2>4 DEF Looks
  <2>7. Sound(r.cache)
    BY <2>1, <2>5 DEF Sound
  <2> HIDE DEF r
  <2> QED
    BY <1>2, <2>2, <2>5, <2>6, <2>7 DEF r
<1> QED
  BY <1>1, <1>2

\* The looks of a load, one after the other, exist.
LEMMA LooksExist ==
  ASSUME NEW slices \in Seq(Keys)
  PROVE  \E seen :
           /\ seen = [i \in 0..Len(slices) |->
                IF i = 0 THEN [cache |-> cache, reads |-> {}] ELSE LookAt(seen[i - 1], slices[i])]
           /\ LookedAt(slices) = seen[Len(slices)]
<1> DEFINE start == [cache |-> cache, reads |-> {}]
           Def(g, n) == [i \in 0..n |-> IF i = 0 THEN start ELSE LookAt(g[i - 1], slices[i])]
           S == {n \in Nat : \E g : g = Def(g, n)}
<1> HIDE DEF start
<1>1. 0 \in S
  <2> DEFINE g == [i \in 0..0 |-> start]
  <2>1. g = Def(g, 0)
    OBVIOUS
  <2> QED
    BY <2>1
<1>2. ASSUME NEW n \in Nat, n \in S
      PROVE  n + 1 \in S
  <2>1. PICK g : g = Def(g, n)
    BY <1>2
  <2> DEFINE x == LookAt(g[n], slices[n + 1])
             h == [i \in 0..n + 1 |-> IF i = n + 1 THEN x ELSE g[i]]
  <2>2. h = Def(h, n + 1)
    <3>1. \A i \in 0..n + 1 : i # n + 1 => i \in 0..n /\ (i # 0 => i - 1 \in 0..n /\ i - 1 # n + 1)
      OBVIOUS
    <3>2. ASSUME NEW i \in 0..n + 1, i # n + 1
          PROVE  h[i] = Def(h, n + 1)[i]
      <4>1. h[i] = Def(g, n)[i]
        BY <2>1, <3>1, <3>2
      <4>2. i # 0 => h[i - 1] = g[i - 1]
        BY <3>1, <3>2
      <4> QED
        BY <3>1, <3>2, <4>1, <4>2
    <3>3. h[n] = g[n] /\ h[n + 1] = x /\ n + 1 # 0 /\ (n + 1) - 1 = n
      OBVIOUS
    <3>4. h[n + 1] = Def(h, n + 1)[n + 1]
      <4> HIDE DEF h
      <4> QED BY <3>3
    <3> QED
      BY <3>2, <3>4
  <2> HIDE DEF Def, h
  <2> QED
    BY <2>2
<1>3. Len(slices) \in S
  <2> HIDE DEF S
  <2> QED BY <1>1, <1>2, Induction
<1>4. \E g : g = Def(g, Len(slices))
  BY <1>3
<1> DEFINE f == CHOOSE g : g = Def(g, Len(slices))
<1>5. f = Def(f, Len(slices))
  <2> HIDE DEF Def
  <2> QED BY <1>4
<1>6. LookedAt(slices) = f[Len(slices)]
  BY DEF LookedAt, start
<1> QED
  BY <1>5, <1>6 DEF start

\* The slices looked at were cached or are read; the cache holds what it held or what
\* is read; a look at cached slices reads nothing and forgets nothing.
LEMMA LookedAtFacts ==
  ASSUME Sound(cache), NEW slices \in Seq(Keys)
  PROVE  /\ LookedAt(slices) \in Looks /\ Sound(LookedAt(slices).cache)
         /\ LookedAt(slices).cache.entries \subseteq cache.entries \cup LookedAt(slices).reads
         /\ LookedAt(slices).reads \subseteq Listed(slices)
         /\ Listed(slices) \subseteq cache.entries \cup LookedAt(slices).reads
         /\ Listed(slices) \subseteq cache.entries =>
              LookedAt(slices).cache.entries = cache.entries
<1> DEFINE n == Len(slices)
<1>1. PICK seen :
           /\ seen = [i \in 0..Len(slices) |->
                IF i = 0 THEN [cache |-> cache, reads |-> {}] ELSE LookAt(seen[i - 1], slices[i])]
           /\ LookedAt(slices) = seen[Len(slices)]
  BY LooksExist
<1>2. n \in Nat /\ \A i \in 1..n : slices[i] \in Keys
  OBVIOUS
<1> HIDE DEF n
<1>3. seen[0] = [cache |-> cache, reads |-> {}]
  BY <1>1, <1>2 DEF n
<1>4. \A i \in 0..(n - 1) : seen[i + 1] = LookAt(seen[i], slices[i + 1])
  <2> TAKE i \in 0..(n - 1)
  <2>1. i + 1 \in 0..Len(slices) /\ i + 1 # 0 /\ (i + 1) - 1 = i
    BY <1>2 DEF n
  <2> QED
    BY <1>1, <2>1
<1> DEFINE Good(i) ==
             /\ seen[i] \in Looks /\ Sound(seen[i].cache)
             /\ seen[i].cache.entries \subseteq cache.entries \cup seen[i].reads
             /\ \A k \in seen[i].reads : \E j \in 1..i : slices[j] = k
             /\ \A j \in 1..i : slices[j] \in cache.entries \cup seen[i].reads
             /\ (\A j \in 1..i : slices[j] \in cache.entries) => seen[i].cache.entries = cache.entries
           S == {i \in Nat : i <= n => Good(i)}
<1>5. 0 \in S
  <2>1. seen[0] \in Looks
    BY <1>3 DEF Sound, Agree, Looks
  <2>2. seen[0].cache = cache /\ seen[0].reads = {}
    BY <1>3
  <2> QED
    BY <2>1, <2>2
<1>6. ASSUME NEW i \in Nat, i \in S
      PROVE  i + 1 \in S
  <2> SUFFICES ASSUME i + 1 <= n PROVE Good(i + 1)
    OBVIOUS
  <2>1. Good(i)
    BY <1>2, <1>6
  <2>2. i + 1 \in 1..n /\ i \in 0..(n - 1)
    BY <1>2
  <2> DEFINE k == slices[i + 1]
             a == seen[i]
             b == seen[i + 1]
  <2>3. k \in Keys /\ b = LookAt(a, k)
    BY <1>2, <1>4, <2>2
  <2>4. /\ a \in Looks /\ Sound(a.cache)
        /\ a.cache.entries \subseteq cache.entries \cup a.reads
        /\ \A q \in a.reads : \E j \in 1..i : slices[j] = q
        /\ \A j \in 1..i : slices[j] \in cache.entries \cup a.reads
        /\ (\A j \in 1..i : slices[j] \in cache.entries) => a.cache.entries = cache.entries
    BY <2>1
  <2> HIDE DEF a, b, Good
  <2>5. /\ b \in Looks /\ Sound(b.cache)
        /\ k \in a.cache.entries \/ k \in b.reads
        /\ b.cache.entries \subseteq a.cache.entries \cup b.reads
        /\ a.reads \subseteq b.reads
        /\ b.reads \subseteq a.reads \cup {k}
        /\ k \in a.cache.entries => b.reads = a.reads /\ b.cache.entries = a.cache.entries
    BY <2>3, <2>4, LookAtFacts
  <2>6. \A j \in 1..(i + 1) : j \in 1..i \/ j = i + 1
    OBVIOUS
  <2>7. \A j \in 1..i : j \in 1..(i + 1)
    OBVIOUS
  <2>8. i + 1 \in 1..(i + 1)
    OBVIOUS
  <2>9. b.cache.entries \subseteq cache.entries \cup b.reads
    BY <2>4, <2>5
  <2>10. \A q \in b.reads : \E j \in 1..(i + 1) : slices[j] = q
    BY <2>4, <2>5, <2>7, <2>8
  <2>11. \A j \in 1..(i + 1) : slices[j] \in cache.entries \cup b.reads
    BY <2>4, <2>5, <2>6
  <2>12. (\A j \in 1..(i + 1) : slices[j] \in cache.entries) => b.cache.entries = cache.entries
    <3> SUFFICES ASSUME \A j \in 1..(i + 1) : slices[j] \in cache.entries
                 PROVE  b.cache.entries = cache.entries
      OBVIOUS
    <3>1. a.cache.entries = cache.entries
      BY <2>4, <2>7
    <3>2. k \in a.cache.entries
      BY <2>8, <3>1
    <3> QED
      BY <2>5, <3>1, <3>2
  <2> QED
    BY <2>5, <2>9, <2>10, <2>11, <2>12 DEF Good, b
<1>7. n \in S
  <2> HIDE DEF S
  <2> QED BY <1>2, <1>5, <1>6, Induction
<1>8. Good(n)
  BY <1>2, <1>7
<1> QED
  BY <1>1, <1>8 DEF Listed, n

-----------------------------------------------------------------------------
(* The slices of a load and its tasks. *)

\* The slices of some experts of a layer.
SlicesOf(l, ids) == {<<l, e, t>> : e \in ids, t \in 1..Tensors}

\* A quotient and a remainder take a product apart.
LEMMA Quotients ==
  ASSUME NEW a \in Nat, NEW b \in Nat, NEW n \in Nat \ {0}, b < n
  PROVE  (a * n + b) \div n = a /\ (a * n + b) % n = b
<1> DEFINE m == a * n + b
<1>1. a * n \in Nat /\ m \in Nat
  OBVIOUS
<1>2. /\ m \div n \in Nat /\ m % n \in 0..(n - 1)
      /\ m = n * (m \div n) + (m % n)
  <2> HIDE DEF m
  <2> QED
    BY <1>1
<1> DEFINE q == m \div n
           r == m % n
<1>3. q = a
  <2>1. n * q + r = n * a + b /\ q \in Nat /\ r \in Nat /\ r < n
    BY <1>2
  <2> HIDE DEF q, r, m
  <2>2. CASE q < a
    <3>1. n * (q + 1) <= n * a
      BY <2>1, <2>2
    <3> QED
      BY <2>1, <3>1
  <2>3. CASE q > a
    <3>1. n * (a + 1) <= n * q
      BY <2>1, <2>3
    <3> QED
      BY <2>1, <3>1
  <2> QED
    BY <2>1, <2>2, <2>3
<1>4. r = b
  <2>1. n * a = a * n
    OBVIOUS
  <2> QED
    BY <1>2, <1>3, <2>1
<1> QED
  BY <1>3, <1>4

\* Both orders list slices of the experts only; the order of the loads lists them all.
LEMMA SlicesFacts ==
  ASSUME NEW l \in Layers, NEW ids \in SUBSET Experts
  PROVE  /\ SlicesByExpert(l, ids) \in Seq(SlicesOf(l, ids))
         /\ SlicesByTensor(l, ids) \in Seq(SlicesOf(l, ids))
         /\ Listed(SlicesByTensor(l, ids)) = SlicesOf(l, ids)
         /\ SlicesOf(l, ids) \subseteq Keys
<1> DEFINE order == Ascending(ids)
           n == Len(order)
<1>0. \A e \in ids, t \in 1..Tensors : <<l, e, t>> \in SlicesOf(l, ids)
  BY DEF SlicesOf
<1>1. ids \in SUBSET Nat /\ IsFiniteSet(ids)
  BY Constants, FS_Subset
<1>2. order \in Seq(ids) /\ Listed(order) = ids /\ n \in Nat
  BY <1>1, AscendingLists
<1>3. Tensors \in Nat \ {0}
  BY Constants
<1> HIDE DEF order
<1>4. n * Tensors \in Nat /\ n * Tensors = Tensors * n
  BY <1>2, <1>3
<1>5. ASSUME NEW i \in 1..(n * Tensors)
      PROVE  /\ order[((i - 1) \div Tensors) + 1] \in ids
             /\ ((i - 1) % Tensors) + 1 \in 1..Tensors
  <2>1. i - 1 \in Nat /\ i - 1 < n * Tensors
    BY <1>4
  <2>2. (i - 1) \div Tensors \in Nat /\ (i - 1) % Tensors \in 0..(Tensors - 1)
    BY <1>3, <2>1
  <2>3. Tensors * ((i - 1) \div Tensors) <= i - 1
    BY <1>3, <2>1
  <2>4. (i - 1) \div Tensors < n
    <3> DEFINE q == (i - 1) \div Tensors
    <3>1. q \in Nat /\ Tensors * q < n * Tensors
      <4>1. q \in Nat /\ Tensors * q <= i - 1
        BY <2>2, <2>3
      <4> HIDE DEF q, n
      <4>2. Tensors * q \in Nat
        BY <1>3, <4>1
      <4> QED
        BY <1>4, <2>1, <4>1, <4>2
    <3> HIDE DEF q, n
    <3>2. CASE q >= n
      <4>1. Tensors * n <= Tensors * q
        BY <1>2, <1>3, <3>1, <3>2
      <4> QED
        BY <1>2, <1>3, <1>4, <3>1, <4>1
    <3> QED
      BY <1>2, <3>1, <3>2 DEF q
  <2>5. ((i - 1) \div Tensors) + 1 \in 1..n
    BY <1>2, <2>2, <2>4
  <2> QED
    BY <1>2, <1>3, <2>2, <2>5
<1>6. ASSUME NEW i \in 1..(n * Tensors)
      PROVE  /\ order[((i - 1) % n) + 1] \in ids
             /\ ((i - 1) \div n) + 1 \in 1..Tensors
  <2>1. i - 1 \in Nat /\ i - 1 < Tensors * n /\ n # 0
    <3>1. n # 0
      BY <1>3, <1>4
    <3> QED
      BY <1>4, <3>1
  <2>2. (i - 1) \div n \in Nat /\ (i - 1) % n \in 0..(n - 1)
    BY <1>2, <2>1
  <2>3. n * ((i - 1) \div n) <= i - 1
    BY <1>2, <2>1
  <2>4. (i - 1) \div n < Tensors
    <3> DEFINE q == (i - 1) \div n
    <3>1. q \in Nat /\ n * q < Tensors * n
      <4>1. q \in Nat /\ n * q <= i - 1
        BY <2>2, <2>3
      <4> HIDE DEF q, n
      <4>2. n * q \in Nat
        BY <1>2, <4>1
      <4> QED
        BY <1>3, <1>4, <2>1, <4>1, <4>2
    <3> HIDE DEF q, n
    <3>2. CASE q >= Tensors
      <4>1. n * Tensors <= n * q
        BY <1>2, <1>3, <3>1, <3>2
      <4> QED
        BY <1>2, <1>3, <1>4, <3>1, <4>1
    <3> QED
      BY <1>3, <3>1, <3>2 DEF q
  <2>5. ((i - 1) % n) + 1 \in 1..n
    BY <1>2, <2>2
  <2> QED
    BY <1>2, <1>3, <2>2, <2>4, <2>5
<1>7. SlicesByExpert(l, ids) \in Seq(SlicesOf(l, ids))
  <2>1. SlicesByExpert(l, ids) =
          [i \in 1..(n * Tensors) |->
             <<l, order[((i - 1) \div Tensors) + 1], ((i - 1) % Tensors) + 1>>]
    BY DEF SlicesByExpert, order
  <2>2. ASSUME NEW i \in 1..(n * Tensors)
        PROVE  <<l, order[((i - 1) \div Tensors) + 1], ((i - 1) % Tensors) + 1>> \in SlicesOf(l, ids)
    BY <1>0, <1>5
  <2> HIDE DEF n
  <2> QED
    BY <1>4, <2>1, <2>2
<1>8. SlicesByTensor(l, ids) =
        [i \in 1..(n * Tensors) |->
           <<l, order[((i - 1) % n) + 1], ((i - 1) \div n) + 1>>]
  BY DEF SlicesByTensor, order
<1>9. ASSUME NEW i \in 1..(n * Tensors)
      PROVE  <<l, order[((i - 1) % n) + 1], ((i - 1) \div n) + 1>> \in SlicesOf(l, ids)
  BY <1>0, <1>6
<1>10. /\ SlicesByTensor(l, ids) \in Seq(SlicesOf(l, ids))
       /\ Len(SlicesByTensor(l, ids)) = n * Tensors
  <2> HIDE DEF n
  <2> QED
    BY <1>4, <1>8, <1>9
<1>11. ASSUME NEW e \in ids, NEW t \in 1..Tensors
       PROVE  <<l, e, t>> \in Listed(SlicesByTensor(l, ids))
  <2>1. PICK j \in 1..n : order[j] = e
    BY <1>2 DEF Listed
  <2> DEFINE a == t - 1
             b == j - 1
             i == a * n + b + 1
  <2>2. a \in Nat /\ b \in Nat /\ n \in Nat \ {0} /\ b < n /\ a < Tensors
    BY <1>2, <1>3
  <2> HIDE DEF a, b, n
  <2>3. a * n \in Nat /\ i - 1 = a * n + b
    BY <2>2
  <2>4. (i - 1) \div n = a /\ (i - 1) % n = b
    BY <2>2, <2>3, Quotients
  <2>5. i \in 1..(n * Tensors)
    <3>1. n * (a + 1) <= n * Tensors
      BY <1>3, <2>2
    <3>2. n * (a + 1) = a * n + n
      BY <2>2
    <3> QED
      BY <1>4, <2>2, <2>3, <3>1, <3>2
  <2>6. b + 1 = j /\ a + 1 = t
    BY <2>1 DEF a, b
  <2>7. SlicesByTensor(l, ids)[i] = <<l, e, t>>
    <3>1. SlicesByTensor(l, ids)[i] = <<l, order[((i - 1) % n) + 1], ((i - 1) \div n) + 1>>
      BY <1>8, <2>5
    <3> HIDE DEF i
    <3> QED
      BY <2>1, <2>4, <2>6, <3>1
  <2> HIDE DEF i
  <2> QED
    BY <1>10, <2>5, <2>7 DEF Listed
<1>12. SlicesOf(l, ids) \subseteq Keys
  BY Constants DEF SlicesOf
<1>13. Listed(SlicesByTensor(l, ids)) = SlicesOf(l, ids)
  <2>1. Listed(SlicesByTensor(l, ids)) \subseteq SlicesOf(l, ids)
    BY <1>10 DEF Listed
  <2>2. SlicesOf(l, ids) \subseteq Listed(SlicesByTensor(l, ids))
    BY <1>11 DEF SlicesOf
  <2> QED
    BY <2>1, <2>2
<1> QED
  BY <1>7, <1>10, <1>12, <1>13

\* What the check of ensure_experts_loaded looks up is all cached, so that it forgets
\* nothing.
LEMMA CheckFacts ==
  ASSUME Sound(cache), NEW l \in Layers, NEW ids \in SUBSET Experts
  PROVE  /\ AfterCheck(l, ids) \in Caches /\ Sound(AfterCheck(l, ids))
         /\ AfterCheck(l, ids).entries = cache.entries
<1> DEFINE slices == SlicesByExpert(l, ids)
           misses == {i \in DOMAIN slices : ~IsCached(slices[i])}
           hits == HitsBeforeMiss(l, ids)
<1>1. slices \in Seq(Keys)
  BY SlicesFacts
<1> HIDE DEF slices
<1>2. Len(slices) \in Nat /\ DOMAIN slices = 1..Len(slices)
  BY <1>1
<1>3. hits = IF misses = {} THEN slices ELSE SubSeq(slices, 1, Lowest(misses) - 1)
  BY DEF HitsBeforeMiss, slices
<1>4. hits \in Seq(Keys) /\ Listed(hits) \subseteq cache.entries
  <2>1. CASE misses = {}
    <3>1. \A i \in 1..Len(slices) : slices[i] \in cache.entries
      BY <1>2, <2>1 DEF IsCached
    <3> QED
      BY <1>1, <1>3, <2>1, <3>1 DEF Listed
  <2>2. CASE misses # {}
    <3> DEFINE n == Lowest(misses)
    <3>1. n \in misses /\ \A m \in misses : n <= m
      <4>1. misses \in SUBSET Nat
        BY <1>2
      <4>2. \E k \in misses : \A m \in misses : k <= m
        <5> HIDE DEF misses
        <5> QED BY <2>2, <4>1, LeastNumber
      <4> QED
        BY <4>2 DEF Lowest
    <3>2. n \in 1..Len(slices) /\ \A i \in 1..(n - 1) : i \in 1..Len(slices) /\ ~ n <= i
      <4>1. n \in 1..Len(slices)
        BY <1>2, <3>1
      <4> HIDE DEF n
      <4> QED
        BY <1>2, <4>1
    <3>3. \A i \in 1..(n - 1) : slices[i] \in cache.entries
      BY <1>2, <3>1, <3>2 DEF IsCached
    <3> HIDE DEF n
    <3>4. /\ SubSeq(slices, 1, n - 1) \in Seq(Keys)
          /\ Len(SubSeq(slices, 1, n - 1)) = n - 1
          /\ \A i \in 1..(n - 1) : SubSeq(slices, 1, n - 1)[i] = slices[i]
      BY <1>1, <1>2, <3>2
    <3>5. hits = SubSeq(slices, 1, n - 1)
      BY <1>3, <2>2 DEF n
    <3> QED
      BY <3>3, <3>4, <3>5 DEF Listed
  <2> QED
    BY <2>1, <2>2
<1> HIDE DEF hits
<1>5. /\ LookedAt(hits) \in Looks /\ Sound(LookedAt(hits).cache)
      /\ LookedAt(hits).cache.entries = cache.entries
  BY <1>4, LookedAtFacts
<1>6. AfterCheck(l, ids) = LookedAt(hits).cache
  BY DEF AfterCheck, hits
<1>7. LookedAt(hits).cache \in Caches
  BY <1>5 DEF Looks
<1> QED
  BY <1>5, <1>6, <1>7

\* Every slice of a load was cached or is read.
LEMMA LoadFacts ==
  ASSUME Sound(cache), NEW l \in Layers, NEW ids \in SUBSET Experts
  PROVE  /\ Load(l, ids).cache \in Caches /\ Sound(Load(l, ids).cache)
         /\ Load(l, ids).reads \in SUBSET SlicesOf(l, ids)
         /\ SlicesOf(l, ids) \subseteq cache.entries \cup Load(l, ids).reads
         /\ Load(l, ids).cache.entries \subseteq cache.entries \cup Load(l, ids).reads
<1> DEFINE slices == SlicesByTensor(l, ids)
<1>1. slices \in Seq(Keys) /\ Listed(slices) = SlicesOf(l, ids)
  BY SlicesFacts
<1>2. Load(l, ids) = LookedAt(slices)
  BY DEF Load
<1> HIDE DEF slices
<1>3. /\ LookedAt(slices) \in Looks /\ Sound(LookedAt(slices).cache)
      /\ LookedAt(slices).cache.entries \subseteq cache.entries \cup LookedAt(slices).reads
      /\ LookedAt(slices).reads \subseteq Listed(slices)
      /\ Listed(slices) \subseteq cache.entries \cup LookedAt(slices).reads
  BY <1>1, LookedAtFacts
<1>4. LookedAt(slices).cache \in Caches
  BY <1>3 DEF Looks
<1> QED
  BY <1>1, <1>2, <1>3, <1>4

\* The tasks of a load of a layer, which write nothing but some writes.
TasksOf(c, l, update, written) ==
  {x \in Tasks : x.load = c /\ x.layer = l /\ x.update_status = update /\ x.writes \subseteq written}

\* All that reading some slices writes.
Written(reads, writes) == UNION {writes[r] : r \in reads}

\* What a slice writes is in some task.
EachInATask(reads, writes, tasks) ==
  \A r \in reads : \E x \in Listed(tasks) : writes[r] \subseteq x.writes

\* One task at most for each tensor; what a slice writes is in the task of its tensor.
LEMMA TasksForFacts ==
  ASSUME NEW c \in Loads, NEW l \in Layers, NEW update \in BOOLEAN,
         NEW reads \in SUBSET SlicesOf(l, Experts),
         NEW writes \in [reads -> SUBSET (Cells \X Data)]
  PROVE  /\ TasksFor(c, l, update, reads, writes)
              \in Seq(TasksOf(c, l, update, Written(reads, writes)))
         /\ EachInATask(reads, writes, TasksFor(c, l, update, reads, writes))
<1> DEFINE all == [t \in 1..Tensors |-> t]
           read == {r[3] : r \in reads}
           todo == Retained(all, read)
           of(t) == UNION {writes[r] : r \in {s \in reads : s[3] = t}}
           tasks == TasksFor(c, l, update, reads, writes)
           some == TasksOf(c, l, update, Written(reads, writes))
<1>1. Tensors \in Nat
  BY Constants
<1>2. all \in Seq(1..Tensors) /\ Listed(all) = 1..Tensors
  BY <1>1 DEF Listed
<1>3. read \subseteq 1..Tensors
  BY DEF SlicesOf
<1> HIDE DEF all, read
<1>4. todo \in Seq(1..Tensors) /\ Listed(todo) = read
  <2>1. todo \in Seq(1..Tensors)
    BY <1>2, RetainedFacts, Zenon
  <2>2. Listed(todo) = Listed(all) \cap read
    BY <1>2, RetainedFacts, Zenon
  <2> QED
    BY <1>2, <1>3, <2>1, <2>2
<1>5. tasks = [i \in DOMAIN todo |-> Task(c, l, update, of(todo[i]))]
  BY DEF TasksFor, all, read
<1> HIDE DEF todo, tasks
<1>6. Len(todo) \in Nat /\ DOMAIN todo = 1..Len(todo)
  BY <1>4
<1>7. \A t : of(t) \in SUBSET (Cells \X Data)
  OBVIOUS
<1>8. ASSUME NEW t
      PROVE  Task(c, l, update, of(t)) \in some
  <2> DEFINE x == Task(c, l, update, of(t))
  <2>1. x.load = c /\ x.layer = l /\ x.update_status = update /\ x.writes = of(t)
    BY DEF Task
  <2>2. x \in Tasks
    BY <1>7 DEF Task, Tasks
  <2>3. of(t) \subseteq Written(reads, writes)
    BY DEF Written
  <2> HIDE DEF x, of
  <2> QED
    BY <2>1, <2>2, <2>3 DEF TasksOf, x
<1> HIDE DEF some
<1>9. tasks \in Seq(some) /\ Len(tasks) = Len(todo)
      /\ \A i \in 1..Len(todo) : tasks[i] = Task(c, l, update, of(todo[i]))
  <2> HIDE DEF of
  <2> QED
    BY <1>5, <1>6, <1>8
<1>11. ASSUME NEW r \in reads
       PROVE  \E x \in Listed(tasks) : writes[r] \subseteq x.writes
  <2>1. r[3] \in Listed(todo)
    BY <1>4 DEF read
  <2>2. PICK i \in 1..Len(todo) : todo[i] = r[3]
    BY <2>1 DEF Listed
  <2>3. writes[r] \subseteq of(todo[i])
    BY <2>2
  <2> HIDE DEF of
  <2>4. tasks[i].writes = of(todo[i])
    <3>1. tasks[i] = Task(c, l, update, of(todo[i]))
      BY <1>9
    <3> QED
      BY <3>1 DEF Task
  <2>5. tasks[i] \in Listed(tasks)
    BY <1>9 DEF Listed
  <2> QED
    BY <2>3, <2>4, <2>5
<1> QED
  BY <1>9, <1>11 DEF tasks, some, EachInATask

-----------------------------------------------------------------------------
(* The cache in the loader. *)

\* evict_layer of some layers keeps the queue of what is left.
LEMMA WithoutLayersKeeps ==
  ASSUME NEW c, Sound(c), NEW gone
  PROVE  /\ Sound(WithoutLayers(c, gone))
         /\ WithoutLayers(c, gone).entries = {k \in c.entries : k[1] \notin gone}
<1> DEFINE others == {k \in Keys : k[1] \notin gone}
           d == WithoutLayers(c, gone)
           rest == {k \in c.entries : k[1] \notin gone}
           q == Retained(c.lru_order, others)
<1>1. c.lru_order \in Seq(Keys) /\ c.entries \in SUBSET Keys /\ c \in Caches
      /\ Distinct(c.lru_order) /\ Listed(c.lru_order) = c.entries /\ Agree(c) /\ Fits(c)
  BY DEF Sound, Agree, Caches
<1>2. q \in Seq(Keys) /\ Listed(q) = c.entries \cap others /\ Distinct(q)
  <2> HIDE DEF others
  <2> QED BY <1>1, RetainedFacts
<1>3. c.entries \cap others = rest
  BY <1>1
<1>4. d = [c EXCEPT !.entries = rest, !.lru_order = q]
  BY DEF WithoutLayers
<1> HIDE DEF others, q
<1>5. rest \in SUBSET Keys
  BY <1>1
<1> HIDE DEF rest, d
<1>6. d.entries = rest /\ d.lru_order = q /\ d \in Caches
  BY <1>1, <1>2, <1>4, <1>5 DEF Caches
<1>7. Agree(d)
  BY <1>2, <1>3, <1>6 DEF Agree
<1>8. rest \subseteq c.entries /\ IsFiniteSet(c.entries) /\ Cardinality(c.entries) \in Nat
  BY <1>1, AgreeCounts DEF rest
<1>9. Cardinality(rest) <= Cardinality(c.entries) /\ IsFiniteSet(rest)
  BY <1>8, FS_Subset
<1>10. Cardinality(rest) \in Nat
  BY <1>9, FS_CardinalityType
<1>11. Fits(d)
  BY <1>1, <1>6, <1>8, <1>9, <1>10, NeuronCacheAssumption DEF Fits, Room
<1> QED
  BY <1>6, <1>7, <1>11 DEF Sound, rest, d

\* The empty cache is sound.
LEMMA EmptyCacheSound == NeuronCacheInit => Sound(cache)
<1> SUFFICES ASSUME NeuronCacheInit PROVE Sound(cache)
  OBVIOUS
<1>1. cache.entries = {} /\ cache.lru_order = <<>> /\ cache \in Caches
  BY DEF NeuronCacheInit, EmptyCache, Caches
<1>2. Agree(cache)
  BY <1>1 DEF Agree, Distinct, Listed
<1>3. Cardinality(cache.entries) = 0
  BY <1>1, FS_EmptySet
<1> QED
  BY <1>2, <1>3, NeuronCacheAssumption DEF Sound, Fits, Room

\* A speculative load is of a layer and of experts.
LEMMA SpeculationsTyped ==
  SpeculationTargets \subseteq Layers /\ Speculations \subseteq SUBSET Experts
<1>1. SpeculationTargets \subseteq Layers
  BY DEF SpeculationTargets, After
<1>2. Speculations \subseteq SUBSET Experts
  BY DEF Speculations
<1> QED
  BY <1>1, <1>2

\* The thread changes the cache by the operations on it only.
LEMMA CacheStep ==
  ASSUME ThreadTyped, Sound(cache), [Next]_vars
  PROVE  Sound(cache)'
<1>0. layer \in Layers /\ Chosen \in SUBSET Experts
  BY DEF ThreadTyped, Chosen
<1>1. CASE AskHit
  <2>1. cache' = AfterCheck(layer, Chosen)
    BY <1>1 DEF AskHit
  <2>2. Sound(AfterCheck(layer, Chosen))
    BY <1>0, CheckFacts
  <2> QED
    BY <2>1, <2>2 DEF Sound, Agree, Fits
<1>2. CASE AskMiss
  <2>1. cache' = WithoutLayers(AfterCheck(layer, Chosen), Reclaimed)
    BY <1>2 DEF AskMiss
  <2>2. Sound(AfterCheck(layer, Chosen))
    BY <1>0, CheckFacts
  <2>3. Sound(WithoutLayers(AfterCheck(layer, Chosen), Reclaimed))
    BY <2>2, WithoutLayersKeeps
  <2> QED
    BY <2>1, <2>3 DEF Sound, Agree, Fits
<1>3. CASE SendExperts
  <2>1. cache' = Load(layer, Chosen).cache
    BY <1>3 DEF SendExperts
  <2>2. Sound(Load(layer, Chosen).cache)
    BY <1>0, LoadFacts
  <2> QED
    BY <2>1, <2>2 DEF Sound, Agree, Fits
<1>4. CASE Post
  <2>1. \/ cache' = cache
        \/ \E l \in SpeculationTargets, ids \in Speculations : cache' = Load(l, ids).cache
    BY <1>4 DEF Post, Speculate
  <2>2. CASE cache' = cache
    BY <2>2 DEF Sound, Agree, Fits
  <2>3. ASSUME NEW l \in SpeculationTargets, NEW ids \in Speculations, cache' = Load(l, ids).cache
        PROVE  Sound(cache)'
    <3>1. l \in Layers /\ ids \in SUBSET Experts
      BY SpeculationsTyped
    <3>2. Sound(Load(l, ids).cache)
      BY <3>1, LoadFacts
    <3> QED
      BY <2>3, <3>2 DEF Sound, Agree, Fits
  <2> QED
    BY <2>1, <2>2, <2>3
<1>5. CASE UNCHANGED cache
  BY <1>5 DEF Sound, Agree, Fits
<1> QED
  <2>1. /\ Warm \/ StartPass \/ Finish => UNCHANGED cache
        /\ Allocate \/ Mark \/ AskCold \/ SendAll \/ Await => UNCHANGED cache
        /\ Compute \/ Intercept \/ Reset \/ Advance \/ Stop \/ Join => UNCHANGED cache
        /\ (\E w \in Workers : IoThread(w)) \/ Terminated \/ UNCHANGED vars => UNCHANGED cache
    BY DEF Warm, StartPass, Finish, Allocate, Mark, AskCold, SendAll, Await, Compute, Intercept,
           InterceptUnless, Reset, Advance, Stop, Join, IoThread, Terminated, vars, expertVars
  <2> QED
    BY <1>1, <1>2, <1>3, <1>4, <1>5, <2>1 DEF Next, ComputeThread

\* The map and the queue of the neuron cache list the same slices, each once, and no
\* more than it may hold: in the loader, where many operations run under one lock, as
\* under operations one at a time.
THEOREM ExpertCacheQueued == Spec => [](OrderListsEntries /\ WithinCapacity)
<1>1. Init => Sound(cache)
  BY EmptyCacheSound DEF Init
<1>2. PoolInv /\ Sound(cache) /\ [Next]_vars => Sound(cache)'
  BY CacheStep DEF PoolInv
<1>3. Sound(cache) => OrderListsEntries /\ WithinCapacity
  <2> SUFFICES ASSUME Sound(cache) PROVE OrderListsEntries /\ WithinCapacity
    OBVIOUS
  <2>1. Len(cache.lru_order) = Cardinality(cache.entries)
    BY AgreeCounts DEF Sound
  <2> QED
    BY <2>1 DEF Sound, Agree, Fits, Room, Listed, OrderListsEntries, WithinCapacity
<1>4. Spec => []PoolInv
  BY ExpertsUseSlotPool, PTL
<1> QED
  BY <1>1, <1>2, <1>3, <1>4, PTL DEF Spec

-----------------------------------------------------------------------------
(* The wait for experts. *)

\* Tasks that are not touched stay as they are.
LEMMA TasksStay ==
  ASSUME IoTyped, UNCHANGED <<chan, worker, remaining>>
  PROVE  /\ Queued' = Queued /\ Busy' = Busy /\ Flying' = Flying /\ Unread' = Unread
         /\ CountsExact => CountsExact'
         /\ layer_status' \in [Layers -> LayerStatus] /\ parked' \in BOOLEAN /\ pool_open' \in BOOLEAN
            /\ mem' \in [Cells -> Data \cup {Empty}] => IoTyped'
<1>1. Queued' = Queued /\ Busy' = Busy
  BY DEF Queued, Busy
<1>2. Flying' = Flying /\ Unread' = Unread
  BY <1>1 DEF Flying, Busy, Unread
<1>3. \A c \in Loads : QueuedOf(c)' = QueuedOf(c) /\ HeldOf(c)' = HeldOf(c)
  BY DEF QueuedOf, PlacesOf, OfLoad, Tasks, HeldOf, Held
<1>4. CountsExact => CountsExact'
  BY <1>3 DEF CountsExact
<1> QED
  BY <1>1, <1>2, <1>4 DEF IoTyped

\* No task is under way at the start.
LEMMA IoInvInit == IsFiniteSet(Workers) /\ Init => IoInv
<1> SUFFICES ASSUME IsFiniteSet(Workers), Init PROVE IoInv
  OBVIOUS
<1> USE DEF Init, PoolInit
<1>1. Queued = {} /\ Busy = {}
  BY DEF Queued, Busy
<1>2. Flying = {}
  BY <1>1 DEF Flying
<1>3. IoTyped
  <2>1. \A w \in Workers : w \in Busy <=> worker[w].task # NoTask
    BY <1>1
  <2>2. chan \in Seq(Tasks)
    BY EmptySeq
  <2>3. worker \in [Workers -> WorkerState]
    BY DEF WorkerState
  <2>4. /\ layer_status \in [Layers -> LayerStatus] /\ remaining \in [Loads -> Nat]
        /\ mem \in [Cells -> Data \cup {Empty}] /\ parked \in BOOLEAN /\ pool_open \in BOOLEAN
    BY DEF LayerStatus
  <2> QED
    BY <2>1, <2>2, <2>3, <2>4 DEF IoTyped, WorkerState
<1>4. Waiting
  BY <1>2 DEF Waiting
<1>5. CountsExact
  <2> SUFFICES ASSUME NEW c \in Loads
               PROVE  remaining[c] = Cardinality(QueuedOf(c)) + Cardinality(HeldOf(c))
    BY DEF CountsExact
  <2>1. QueuedOf(c) = {} /\ HeldOf(c) = {}
    BY DEF QueuedOf, PlacesOf, HeldOf, Held
  <2> QED
    BY <2>1, FS_EmptySet
<1> QED
  BY <1>3, <1>4, <1>5 DEF IoInv

\* No task that is waited for is under way, and none is published.
Quiet ==
  /\ \A x \in Flying : ~x.update_status
  /\ \A w \in Workers : worker[w].pc # "publishing"

\* So it is unless the thread waits for a layer that is Loading.
LEMMA QuietUnlessLoading ==
  ASSUME IoInv, pc # "await" \/ layer_status[layer] # "Loading"
  PROVE  Quiet
<1>1. \A x \in Flying : ~x.update_status
  BY DEF IoInv, Waiting
<1>2. ASSUME NEW w \in Workers, worker[w].pc = "publishing"
      PROVE  FALSE
  <2>1. w \in Busy
    BY <1>2 DEF Busy
  <2>2. worker[w].task \in Flying
    BY <2>1, TaskInHand DEF IoInv
  <2>3. worker[w].task.update_status
    BY <1>2 DEF IoInv, Waiting
  <2> QED
    BY <1>1, <2>2, <2>3
<1> QED
  BY <1>1, <1>2 DEF Quiet

\* A send needs the layer to be Loading; nothing else is asked of a quiet state.
LEMMA QuietIsEnough ==
  ASSUME Quiet', (pc \in {"send", "send_all"} => layer_status[layer] = "Loading")'
  PROVE  Waiting'
BY DEF Quiet, Waiting

\* The chunks of a whole layer are some number of tasks.
LEMMA ChunksCount ==
  ASSUME IsFiniteSet(Workers), Workers # {}
  PROVE  Chunks \in Nat
<1> DEFINE n == Cardinality(Workers)
           size == (Tensors + n - 1) \div n
<1>1. n \in Nat \ {0} /\ Tensors \in Nat \ {0}
  BY FS_CardinalityType, FS_EmptySet, Constants
<1> HIDE DEF n
<1>2. size \in Nat
  BY <1>1
<1>3. size # 0
  <2>1. Tensors + n - 1 \in Nat /\ n <= Tensors + n - 1
    BY <1>1
  <2>2. Tensors + n - 1 < n * size + n
    BY <1>1, <2>1
  <2> HIDE DEF size
  <2>3. size = 0 => n * size = 0
    BY <1>1
  <2> QED
    BY <1>1, <1>2, <2>1, <2>2, <2>3
<1>4. Chunks = (Tensors + size - 1) \div size
  BY DEF Chunks, n
<1> HIDE DEF size
<1> QED
  BY <1>1, <1>2, <1>3, <1>4

\* Reads into the pool write cells of the layer's slots.
LEMMA InPoolTyped ==
  ASSUME PP!SlotPoolTypeOK, SlotsWhole, NEW l \in Layers, layer_slots[l] # <<>>,
         NEW reads \in SUBSET SlicesOf(l, Experts)
  PROVE  InPool(reads) \in [reads -> SUBSET (Cells \X Data)]
<1>1. layer_slots[l] \in Seq(PP!Slots) /\ Len(layer_slots[l]) = Tensors
  BY DEF PP!SlotPoolTypeOK, SlotsWhole
<1> SUFFICES ASSUME NEW r \in reads
             PROVE  << <<layer_slots[r[1]][r[3]], Position[r[2]]>>, <<r[1], r[3], r[2]>> >>
                      \in Cells \X Data
  BY DEF InPool
<1>2. r[1] = l /\ r[2] \in Experts /\ r[3] \in 1..Tensors
  BY DEF SlicesOf
<1>3. layer_slots[l][r[3]] \in PP!Slots
  BY <1>1, <1>2
<1> QED
  BY <1>2, <1>3, Constants

\* Sending what is waited for: the tasks are of one load and of the thread's layer.
LEMMA SentIsWaitedFor ==
  ASSUME IoInv, Quiet, NEW c \in Loads, NEW tasks \in Seq(Tasks),
         \A x \in Listed(tasks) : x.load = c /\ x.layer = layer /\ x.update_status,
         pc \in {"send", "send_all"}, pc' = "await", UNCHANGED <<layer, layer_status, worker>>,
         Flying' = Flying \cup Listed(tasks)
  PROVE  Waiting'
<1>1. layer_status[layer] = "Loading"
  BY DEF IoInv, Waiting
<1>2. \A x \in Flying' : x.update_status => x \in Listed(tasks)
  BY DEF Quiet
<1>3. \A w \in Workers : worker'[w].pc # "publishing"
  BY DEF Quiet
<1> QED
  BY <1>1, <1>2, <1>3 DEF Waiting


\* The experts that are sent for: the slices of the selection that are not cached, in
\* tasks that write them into the layer's slots.
LEMMA SentExperts ==
  ASSUME IsFiniteSet(Workers), ~IsFiniteSet(Loads), PoolInv, PP!SlotPoolTypeOK, Sound(cache),
         IoInv, SendExperts
  PROVE  \E reads \in SUBSET SlicesOf(layer, Chosen), tasks \in Seq(Tasks) :
           /\ IoTyped' /\ CountsExact'
           /\ Flying' = Flying \cup Listed(tasks) /\ Unread' = Unread \cup Listed(tasks)
           /\ \A x \in Listed(tasks) :
                /\ x.load = FreshLoad /\ x.layer = layer /\ x.update_status
                /\ x.writes \subseteq Written(reads, InPool(reads))
           /\ EachInATask(reads, InPool(reads), tasks)
           /\ SlicesOf(layer, Chosen) \subseteq cache.entries \cup reads
           /\ cache'.entries \subseteq cache.entries \cup reads
           /\ speculated' = speculated \ reads
<1> DEFINE load == Load(layer, Chosen)
           reads == load.reads
           tasks == TasksFor(FreshLoad, layer, TRUE, reads, InPool(reads))
<1>1. layer \in Layers /\ Chosen \in SUBSET Experts /\ layer_slots[layer] # <<>> /\ SlotsWhole
  BY DEF PoolInv, ThreadTyped, SlotsWhole, SendExperts, Chosen
<1>2. IoTyped /\ CountsExact /\ FreshLoad \in Loads /\ \A x \in Flying : x.load # FreshLoad
  BY FreshLoadIsFresh DEF IoInv
<1>3. /\ reads \in SUBSET SlicesOf(layer, Chosen)
      /\ SlicesOf(layer, Chosen) \subseteq cache.entries \cup reads
      /\ load.cache.entries \subseteq cache.entries \cup reads
  BY <1>1, LoadFacts
<1>4. Send(FreshLoad, tasks) /\ cache' = load.cache /\ speculated' = speculated \ reads
      /\ UNCHANGED <<layer_status, parked, pool_open, worker, mem>>
  BY DEF SendExperts
<1> HIDE DEF load, reads
<1>5. reads \in SUBSET SlicesOf(layer, Experts)
  BY <1>1, <1>3 DEF SlicesOf
<1>6. InPool(reads) \in [reads -> SUBSET (Cells \X Data)]
  BY <1>1, <1>5, InPoolTyped
<1>7. /\ tasks \in Seq(Tasks)
      /\ \A x \in Listed(tasks) :
           /\ x.load = FreshLoad /\ x.layer = layer /\ x.update_status
           /\ x.writes \subseteq Written(reads, InPool(reads))
  <2> DEFINE some == TasksOf(FreshLoad, layer, TRUE, Written(reads, InPool(reads)))
  <2>1. FreshLoad \in Loads /\ layer \in Layers /\ TRUE \in BOOLEAN
    BY <1>1, <1>2
  <2>2. tasks \in Seq(some)
    BY <1>5, <1>6, <2>1, TasksForFacts, Zenon
  <2>3. /\ some \subseteq Tasks
        /\ \A x \in some : /\ x.load = FreshLoad /\ x.layer = layer /\ x.update_status
                           /\ x.writes \subseteq Written(reads, InPool(reads))
    BY DEF TasksOf
  <2> HIDE DEF tasks, some
  <2> QED
    BY <2>2, <2>3 DEF Listed
<1>8. EachInATask(reads, InPool(reads), tasks)
  <2>1. FreshLoad \in Loads /\ layer \in Layers /\ TRUE \in BOOLEAN
    BY <1>1, <1>2
  <2> QED
    BY <1>5, <1>6, <2>1, TasksForFacts, Zenon
<1> HIDE DEF tasks
<1>9. \A k \in 1..Len(tasks) : tasks[k].load = FreshLoad
  BY <1>7 DEF Listed
<1>10. /\ IoTyped' /\ CountsExact'
       /\ Flying' = Flying \cup Listed(tasks) /\ Unread' = Unread \cup Listed(tasks)
  BY <1>2, <1>4, <1>7, <1>9, SendStep
<1>11. cache'.entries \subseteq cache.entries \cup reads
  BY <1>3, <1>4
<1> QED
  BY <1>3, <1>4, <1>7, <1>8, <1>10, <1>11

\* Sending the experts of a layer.
LEMMA SendExpertsKeepsIo ==
  ASSUME IsFiniteSet(Workers), ~IsFiniteSet(Loads), PoolInv, PP!SlotPoolTypeOK, Sound(cache),
         IoInv, SendExperts
  PROVE  IoInv'
<1>1. PICK tasks \in Seq(Tasks) :
        /\ IoTyped' /\ CountsExact' /\ Flying' = Flying \cup Listed(tasks)
        /\ \A x \in Listed(tasks) : x.load = FreshLoad /\ x.layer = layer /\ x.update_status
  BY SentExperts
<1>2. FreshLoad \in Loads
  BY FreshLoadIsFresh DEF IoInv
<1>3. /\ pc = "send" /\ pc' = "await" /\ UNCHANGED <<layer_status, worker, layer>>
  BY DEF SendExperts, placeVars
<1>4. Waiting'
  <2>1. Quiet
    BY <1>3, QuietUnlessLoading
  <2> QED
    BY <1>1, <1>2, <1>3, <2>1, SentIsWaitedFor
<1> QED
  BY <1>1, <1>4 DEF IoInv

\* Sending a whole layer, in chunks.
LEMMA SendAllKeepsIo ==
  ASSUME IsFiniteSet(Workers), ~IsFiniteSet(Loads), Workers # {}, PoolInv, IoInv, SendAll
  PROVE  IoInv'
<1> DEFINE chunk == Task(FreshLoad, layer, TRUE, {})
           tasks == [i \in 1..Chunks |-> chunk]
<1>1. layer \in Layers
  BY DEF PoolInv, ThreadTyped
<1>2. IoTyped /\ CountsExact /\ FreshLoad \in Loads /\ \A x \in Flying : x.load # FreshLoad
  BY FreshLoadIsFresh DEF IoInv
<1>3. /\ chunk \in Tasks
      /\ chunk.load = FreshLoad /\ chunk.layer = layer /\ chunk.update_status
  BY <1>1, <1>2 DEF Task, Tasks
<1>4. tasks \in Seq(Tasks) /\ Len(tasks) = Chunks /\ \A i \in 1..Chunks : tasks[i] = chunk
  <2> HIDE DEF chunk
  <2> QED
    BY <1>3, ChunksCount
<1>5. \A x \in Listed(tasks) : x.load = FreshLoad /\ x.layer = layer /\ x.update_status
  <2> HIDE DEF chunk, tasks
  <2>1. \A x \in Listed(tasks) : x = chunk
    BY <1>4 DEF Listed
  <2> QED
    BY <1>3, <2>1
<1>6. /\ Send(FreshLoad, tasks) /\ pc = "send_all" /\ pc' = "await"
      /\ UNCHANGED <<layer_status, parked, pool_open, worker, mem, layer>>
  BY DEF SendAll, placeVars
<1> HIDE DEF tasks, chunk
<1>7. \A k \in 1..Len(tasks) : tasks[k].load = FreshLoad
  BY <1>5 DEF Listed
<1>8. IoTyped' /\ CountsExact' /\ Flying' = Flying \cup Listed(tasks)
  BY <1>2, <1>4, <1>6, <1>7, SendStep
<1>9. Waiting'
  <2>1. Quiet
    BY <1>6, QuietUnlessLoading
  <2> QED
    BY <1>2, <1>4, <1>5, <1>6, <1>8, <2>1, SentIsWaitedFor
<1> QED
  BY <1>8, <1>9 DEF IoInv

\* A speculative load sends tasks that no one waits for and that write nothing; the
\* slices it marks are the ones it reads.
LEMMA SpeculationSent ==
  ASSUME IsFiniteSet(Workers), ~IsFiniteSet(Loads), Sound(cache), IoInv, Post
  PROVE  \E reads \in SUBSET Keys, tasks \in Seq(Tasks) :
           /\ IoTyped' /\ CountsExact'
           /\ Flying' = Flying \cup Listed(tasks) /\ Unread' = Unread \cup Listed(tasks)
           /\ \A x \in Listed(tasks) : ~x.update_status /\ x.writes = {}
           /\ cache'.entries \subseteq cache.entries \cup reads
           /\ speculated' = speculated \cup reads
<1>1. UNCHANGED <<layer_status, parked, pool_open, worker, mem, layer>>
  BY DEF Post
<1>2. CASE UNCHANGED <<chan, remaining, cache, speculated>>
  <2>1. IoTyped' /\ CountsExact' /\ Flying' = Flying /\ Unread' = Unread
    <3>1. /\ layer_status' \in [Layers -> LayerStatus] /\ parked' \in BOOLEAN
          /\ pool_open' \in BOOLEAN /\ mem' \in [Cells -> Data \cup {Empty}]
      BY <1>1 DEF IoInv, IoTyped
    <3> QED
      BY <1>1, <1>2, <3>1, TasksStay DEF IoInv
  <2>2. Listed(<<>>) = {} /\ <<>> \in Seq(Tasks) /\ {} \in SUBSET Keys
    BY DEF Listed
  <2> QED
    BY <1>2, <2>1, <2>2
<1>3. ASSUME NEW l \in SpeculationTargets, NEW ids \in Speculations, Speculate(l, ids)
      PROVE  \E reads \in SUBSET Keys, tasks \in Seq(Tasks) :
               /\ IoTyped' /\ CountsExact'
               /\ Flying' = Flying \cup Listed(tasks) /\ Unread' = Unread \cup Listed(tasks)
               /\ \A x \in Listed(tasks) : ~x.update_status /\ x.writes = {}
               /\ cache'.entries \subseteq cache.entries \cup reads
               /\ speculated' = speculated \cup reads
  <2> DEFINE load == Load(l, ids)
             reads == load.reads
             writes == InLoadingBuffer(reads)
             tasks == TasksFor(FreshLoad, l, FALSE, reads, writes)
  <2>1. l \in Layers /\ ids \in SUBSET Experts
    BY SpeculationsTyped
  <2>2. IoTyped /\ CountsExact /\ FreshLoad \in Loads /\ \A x \in Flying : x.load # FreshLoad
    BY FreshLoadIsFresh DEF IoInv
  <2>3. /\ cache' = load.cache /\ speculated' = speculated \cup reads
        /\ IF reads = {} THEN UNCHANGED <<chan, remaining>> ELSE Send(FreshLoad, tasks)
    BY <1>3 DEF Speculate
  <2>4. reads \in SUBSET SlicesOf(l, ids) /\ load.cache.entries \subseteq cache.entries \cup reads
    BY <2>1, LoadFacts
  <2> HIDE DEF load, reads
  <2>5. reads \in SUBSET SlicesOf(l, Experts) /\ SlicesOf(l, ids) \subseteq Keys
    <3>1. SlicesOf(l, ids) \subseteq Keys
      BY <2>1, SlicesFacts, Zenon
    <3> QED
      BY <2>1, <2>4, <3>1 DEF SlicesOf
  <2>6. /\ reads \in SUBSET Keys
        /\ cache'.entries \subseteq cache.entries \cup reads
    BY <2>3, <2>4, <2>5
  <2>7. writes \in [reads -> SUBSET (Cells \X Data)] /\ \A q \in reads : writes[q] = {}
    BY DEF InLoadingBuffer
  <2> HIDE DEF writes
  <2>8. Written(reads, writes) = {}
    BY <2>7 DEF Written
  <2>9. CASE reads = {}
    <3>1. IoTyped' /\ CountsExact' /\ Flying' = Flying /\ Unread' = Unread
      <4>1. /\ layer_status' \in [Layers -> LayerStatus] /\ parked' \in BOOLEAN
            /\ pool_open' \in BOOLEAN /\ mem' \in [Cells -> Data \cup {Empty}]
        BY <1>1 DEF IoInv, IoTyped
      <4> QED
        BY <1>1, <2>3, <2>9, <4>1, TasksStay DEF IoInv
    <3>2. Listed(<<>>) = {} /\ <<>> \in Seq(Tasks)
      BY DEF Listed
    <3> QED
      BY <2>3, <2>6, <3>1, <3>2
  <2>10. CASE reads # {}
    <3>1. /\ tasks \in Seq(Tasks)
          /\ \A x \in Listed(tasks) : x.load = FreshLoad /\ ~x.update_status /\ x.writes = {}
      <4> DEFINE some == TasksOf(FreshLoad, l, FALSE, Written(reads, writes))
      <4>1. FreshLoad \in Loads /\ l \in Layers /\ FALSE \in BOOLEAN
        BY <2>1, <2>2
      <4>2. tasks \in Seq(some)
        BY <2>5, <2>7, <4>1, TasksForFacts, Zenon
      <4>3. /\ some \subseteq Tasks
            /\ \A x \in some : x.load = FreshLoad /\ x.update_status = FALSE /\ x.writes = {}
        BY <2>8 DEF TasksOf
      <4> HIDE DEF tasks, some
      <4> QED
        BY <4>2, <4>3 DEF Listed
    <3>2. Send(FreshLoad, tasks)
      BY <2>3, <2>10
    <3> HIDE DEF tasks
    <3>3. \A k \in 1..Len(tasks) : tasks[k].load = FreshLoad
      BY <3>1 DEF Listed
    <3>4. /\ IoTyped' /\ CountsExact'
          /\ Flying' = Flying \cup Listed(tasks) /\ Unread' = Unread \cup Listed(tasks)
      BY <1>1, <2>2, <3>1, <3>2, <3>3, SendStep
    <3> QED
      BY <2>3, <2>6, <3>1, <3>4
  <2> QED
    BY <2>9, <2>10
<1> QED
  BY <1>2, <1>3 DEF Post

\* It is none of what is waited for.
LEMMA PostKeepsIo ==
  ASSUME IsFiniteSet(Workers), ~IsFiniteSet(Loads), PoolInv, Sound(cache), IoInv, Post
  PROVE  IoInv'
<1>1. /\ pc = "post" /\ pc' = "reset"
      /\ UNCHANGED <<layer_status, parked, pool_open, worker, mem, layer>>
  BY DEF Post
<1>2. Quiet
  BY <1>1, QuietUnlessLoading
<1>3. PICK tasks \in Seq(Tasks) :
        /\ IoTyped' /\ CountsExact' /\ Flying' = Flying \cup Listed(tasks)
        /\ \A x \in Listed(tasks) : ~x.update_status
  BY SpeculationSent
<1>4. Quiet'
  BY <1>1, <1>2, <1>3 DEF Quiet
<1> QED
  BY <1>1, <1>3, <1>4, QuietIsEnough DEF IoInv

\* What the other steps of the thread do to the I/O pool.
LEMMA QuietSteps ==
  ASSUME IoTyped, PoolInv,
         \/ Warm \/ StartPass \/ Finish \/ AskHit \/ AskMiss \/ Allocate \/ Mark \/ AskCold
         \/ Compute \/ Intercept \/ Reset \/ Advance \/ Stop \/ Join
  PROVE  /\ pc # "await"
         /\ UNCHANGED <<chan, worker, remaining>>
         /\ layer_status' \in [Layers -> LayerStatus] /\ parked' \in BOOLEAN /\ pool_open' \in BOOLEAN
         /\ mem' \in [Cells -> Data \cup {Empty}]
         /\ (pc \in {"send", "send_all"} => layer_status[layer] = "Loading")'
<1>1. /\ layer_status \in [Layers -> LayerStatus] /\ parked \in BOOLEAN /\ pool_open \in BOOLEAN
      /\ mem \in [Cells -> Data \cup {Empty}] /\ layer \in Layers /\ prev \in Layers \cup {-1}
      /\ {"NotLoaded", "Loading"} \subseteq LayerStatus
  BY DEF IoTyped, PoolInv, ThreadTyped, LayerStatus
<1>2. CASE Allocate
  <2>1. /\ pc = "allocate" /\ pc' \in {"submit", "allocate"}
        /\ UNCHANGED <<layer_status, parked, pool_open, chan, remaining, worker>>
    BY <1>2 DEF Allocate
  <2>2. mem' \in [Cells -> Data \cup {Empty}]
    BY <1>1, <1>2 DEF Allocate
  <2> QED
    BY <1>1, <2>1, <2>2
<1>3. CASE Mark
  BY <1>1, <1>3 DEF Mark, placeVars
<1>4. CASE AskCold
  BY <1>1, <1>4 DEF AskCold, placeVars
<1>5. CASE Reset
  <2>1. /\ pc = "reset" /\ pc' = "advance" /\ UNCHANGED <<parked, pool_open, chan, remaining, worker, mem>>
    BY <1>5 DEF Reset
  <2>2. layer_status' \in [Layers -> LayerStatus]
    <3>1. \/ layer_status' = layer_status
          \/ prev >= 0 /\ layer_status' = [layer_status EXCEPT ![prev] = "NotLoaded"]
      BY <1>5 DEF Reset
    <3> QED
      BY <1>1, <3>1
  <2> QED
    BY <1>1, <2>1, <2>2
<1>6. CASE Stop
  BY <1>1, <1>6 DEF Stop, CloseChannel
<1>7. CASE Advance
  <2>1. /\ pc = "advance" /\ pc' \in {"ask", "boundary"} /\ UNCHANGED poolVars
    BY <1>7 DEF Advance
  <2> QED
    BY <1>1, <2>1 DEF poolVars
<1>8. CASE \/ Warm \/ StartPass \/ Finish \/ AskHit \/ AskMiss \/ Compute \/ Intercept \/ Join
  <2>1. pc # "await" /\ pc' \notin {"send", "send_all"} /\ UNCHANGED poolVars
    <3>1. CASE Warm
      BY <3>1 DEF Warm
    <3>2. CASE StartPass \/ Finish \/ Compute \/ Intercept \/ Join
      BY <3>2 DEF StartPass, Finish, Compute, Intercept, InterceptUnless, Join
    <3>3. CASE AskHit \/ AskMiss
      BY <3>3 DEF AskHit, AskMiss, Return
    <3> QED
      BY <1>8, <3>1, <3>2, <3>3
  <2> QED
    BY <1>1, <2>1 DEF poolVars
<1> QED
  BY <1>2, <1>3, <1>4, <1>5, <1>6, <1>7, <1>8

\* Every step keeps what holds of the tasks.
LEMMA IoInvNext ==
  ASSUME IsFiniteSet(Workers), ~IsFiniteSet(Loads), Workers # {},
         PoolInv, PP!SlotPoolTypeOK, Sound(cache), IoInv, [Next]_vars
  PROVE  IoInv'
<1>1. CASE \/ Warm \/ StartPass \/ Finish \/ AskHit \/ AskMiss \/ Allocate \/ Mark \/ AskCold
           \/ Compute \/ Intercept \/ Reset \/ Advance \/ Stop \/ Join
  <2>1. /\ pc # "await"
        /\ UNCHANGED <<chan, worker, remaining>>
        /\ layer_status' \in [Layers -> LayerStatus] /\ parked' \in BOOLEAN /\ pool_open' \in BOOLEAN
        /\ mem' \in [Cells -> Data \cup {Empty}]
        /\ (pc \in {"send", "send_all"} => layer_status[layer] = "Loading")'
    BY <1>1, QuietSteps DEF IoInv
  <2>2. IoTyped' /\ CountsExact' /\ Flying' = Flying
    BY <2>1, TasksStay DEF IoInv
  <2>3. Quiet'
    <3>1. Quiet
      BY <2>1, QuietUnlessLoading
    <3> QED
      BY <2>1, <2>2, <3>1 DEF Quiet
  <2> QED
    BY <2>1, <2>2, <2>3, QuietIsEnough DEF IoInv
<1>2. CASE SendExperts
  BY <1>2, SendExpertsKeepsIo
<1>3. CASE SendAll
  BY <1>3, SendAllKeepsIo
<1>4. CASE Post
  BY <1>4, PostKeepsIo
<1>5. CASE Await
  <2>1. /\ pc = "await"
        /\ UNCHANGED <<chan, worker, remaining, layer_status, pool_open, mem, layer>>
        /\ \/ layer_status[layer] = "Loaded" /\ pc' \notin {"send", "send_all"} /\ UNCHANGED parked
           \/ parked' = TRUE /\ pc' = pc
    BY <1>5 DEF Await, placeVars, Return
  <2>2. IoTyped' /\ CountsExact' /\ Flying' = Flying /\ Queued' = Queued /\ Busy' = Busy
    <3>1. /\ layer_status' \in [Layers -> LayerStatus] /\ parked' \in BOOLEAN
          /\ pool_open' \in BOOLEAN /\ mem' \in [Cells -> Data \cup {Empty}]
      BY <2>1 DEF IoInv, IoTyped
    <3> QED
      BY <2>1, <3>1, TasksStay DEF IoInv
  <2>3. CASE layer_status[layer] = "Loaded" /\ pc' \notin {"send", "send_all"}
    <3>1. Quiet
      BY <2>3, QuietUnlessLoading
    <3>2. Quiet'
      BY <2>1, <2>2, <3>1 DEF Quiet
    <3> QED
      BY <2>2, <2>3, <3>2, QuietIsEnough DEF IoInv
  <2>4. CASE pc' = pc
    BY <2>1, <2>2, <2>4 DEF IoInv, Waiting, OnlyOne
  <2> QED
    BY <2>1, <2>3, <2>4
<1>6. ASSUME NEW w \in Workers, IoThread(w)
      PROVE  IoInv'
  <2>1. Work(w) /\ UNCHANGED <<pc, layer>>
    BY <1>6 DEF IoThread, placeVars
  <2> QED
    BY <2>1, WorkKeepsIo
<1>7. CASE UNCHANGED vars
  <2>1. UNCHANGED <<chan, worker, remaining, layer_status, pool_open, parked, mem, layer, pc>>
    BY <1>7 DEF vars, poolVars, placeVars
  <2>2. IoTyped' /\ CountsExact' /\ Flying' = Flying /\ Queued' = Queued /\ Busy' = Busy
    <3>1. /\ layer_status' \in [Layers -> LayerStatus] /\ parked' \in BOOLEAN
          /\ pool_open' \in BOOLEAN /\ mem' \in [Cells -> Data \cup {Empty}]
      BY <2>1 DEF IoInv, IoTyped
    <3> QED
      BY <2>1, <3>1, TasksStay DEF IoInv
  <2> QED
    BY <2>1, <2>2 DEF IoInv, Waiting, OnlyOne
<1> QED
  BY <1>1, <1>2, <1>3, <1>4, <1>5, <1>6, <1>7 DEF Next, ComputeThread, Terminated

\* The thread, the pool and the cache, together.
LEMMA PartsAlways == Spec => []PoolInv /\ []PP!SlotPoolTypeOK /\ []Sound(cache)
<1>1. PP!SlotPoolSpec => []PP!SlotPoolTypeOK
  BY PoolAssumption, PP!TypeCorrect
<1>2. Init => Sound(cache)
  BY EmptyCacheSound DEF Init
<1>3. PoolInv /\ Sound(cache) /\ [Next]_vars => Sound(cache)'
  BY CacheStep DEF PoolInv
<1> QED
  BY <1>1, <1>2, <1>3, ExpertsUseSlotPool, PTL DEF Spec

\* With a completion for every load.
LEMMA IoAlways ==
  ASSUME IsFiniteSet(Workers), Workers # {}, ~IsFiniteSet(Loads)
  PROVE  Spec => []IoInv
<1>1. Init => IoInv
  BY IoInvInit
<1>2. PoolInv /\ PP!SlotPoolTypeOK /\ Sound(cache) /\ IoInv /\ [Next]_vars => IoInv'
  BY IoInvNext
<1> QED
  BY <1>1, <1>2, PartsAlways, PTL DEF Spec

\* The counter of a load is exact, whether it is waited for or speculative, and however
\* the loads overlap: fetch_sub does not pass zero, and one task of each load sees that
\* it is the last (io_worker, IoCompletion).
THEOREM ExpertCountsExact ==
  ASSUME IsFiniteSet(Workers), Workers # {}, ~IsFiniteSet(Loads)
  PROVE  Spec => []RemainingIsExact
<1>1. IoInv => RemainingIsExact
  <2> SUFFICES ASSUME IoInv, NEW c \in Loads
               PROVE  remaining[c] = Cardinality({k \in 1..Len(chan) : chan[k].load = c})
                        + Cardinality({w \in Workers : Held(w) /\ worker[w].task.load = c})
    BY DEF RemainingIsExact
  <2>1. \A k \in 1..Len(chan) : chan[k] \in Tasks
    BY DEF IoInv, IoTyped
  <2>2. QueuedOf(c) = {k \in 1..Len(chan) : chan[k].load = c}
    BY <2>1 DEF QueuedOf, PlacesOf, OfLoad
  <2> QED
    BY <2>2 DEF IoInv, CountsExact, HeldOf
<1> QED
  BY <1>1, IoAlways, PTL

\* When the forward pass goes on, nothing it waited for is still to be read: a
\* speculative load of the same layer that finishes meanwhile publishes nothing
\* (update_status), and the last task of the load waited for publishes last.
THEOREM ExpertsWaitedFor ==
  ASSUME IsFiniteSet(Workers), Workers # {}, ~IsFiniteSet(Loads)
  PROVE  Spec => []WaitedForAll
<1>1. IoInv => WaitedForAll
  <2> SUFFICES ASSUME IoInv, pc = "compute"
               PROVE  /\ \A i \in 1..Len(chan) : ~chan[i].update_status
                      /\ \A w \in Workers : Held(w) => ~worker[w].task.update_status
    BY DEF WaitedForAll
  <2>1. Quiet
    BY QuietUnlessLoading
  <2>2. \A i \in 1..Len(chan) : chan[i] \in Flying
    BY DEF Queued, Flying
  <2>3. ASSUME NEW w \in Workers, Held(w)
        PROVE  worker[w].task \in Flying
    BY <2>3 DEF Held, Busy, Flying
  <2> QED
    BY <2>1, <2>2, <2>3 DEF Quiet
<1> QED
  BY <1>1, IoAlways, PTL

-----------------------------------------------------------------------------
(* What the cache promises. *)

\* What SlotPool's theorems say of the slots.
PoolFacts == PP!SlotPoolTypeOK /\ PP!NoneShared /\ PP!NoneLost /\ PP!ClaimIsApart

\* Where a slice belongs in the pool, and what is there once it is read.
Placed(k) == layer_slots[k[1]] # <<>>
CellOf(k) == <<layer_slots[k[1]][k[3]], Position[k[2]]>>
DatumOf(k) == <<k[1], k[3], k[2]>>
WriteOf(k) == <<CellOf(k), DatumOf(k)>>

Present(k) == Placed(k) /\ mem[CellOf(k)] = DatumOf(k)
Pending(k) == Placed(k) /\ \E x \in Unread : WriteOf(k) \in x.writes
Underway(k) == Present(k) \/ Pending(k)

\* A write that puts a slice of the layer where it belongs.
RightWrite(w, l) == \E k \in Keys : k[1] = l /\ Placed(k) /\ w = WriteOf(k)

\* Only what is waited for writes: a speculative load reads into the loading buffer.
OnlyWaited == \A x \in Flying : x.update_status \/ x.writes = {}
WritesRight == \A x \in Flying : \A w \in x.writes : RightWrite(w, x.layer)
CacheHeld == \A k \in cache.entries \ speculated : Underway(k)

\* An allocation that evicts a layer began with the cache forgetting every slice that
\* an eviction can take away: only speculated ones are left.
RoomMade ==
  pc = "allocate" => cache.entries \subseteq speculated \/ Len(free_slots) + Len(claim.slots) >= Tensors

HitsInv == OnlyWaited /\ WritesRight /\ CacheHeld /\ RoomMade

\* The facts hold throughout.
LEMMA PoolFactsAlways == Spec => []PoolFacts
<1>1. PP!SlotPoolInit => PP!SlotPoolTypeOK /\ PP!NoneShared /\ PP!NoneLost /\ PP!ClaimIsApart
  BY PoolAssumption, PP!TypeInit, PP!SharedInit, PP!LostInit
<1>2. PP!SlotPoolTypeOK /\ PP!NoneShared /\ PP!NoneLost /\ PP!ClaimIsApart
        /\ [PP!SlotPoolNext]_PP!slotVars
        => PP!SlotPoolTypeOK' /\ PP!NoneShared' /\ PP!NoneLost' /\ PP!ClaimIsApart'
  BY PoolAssumption, PP!TypeStep, PP!SharedStep, PP!LostStep
<1> QED
  BY <1>1, <1>2, ExpertsUseSlotPool, PTL DEF PP!SlotPoolSpec, PoolFacts

\* A slice has a cell; a cell is one slice's alone.
LEMMA CellsApart ==
  ASSUME PoolInv, PoolFacts
  PROVE  /\ \A k \in Keys : k[1] \in Layers /\ k[2] \in Experts /\ k[3] \in 1..Tensors
                              /\ DatumOf(k) \in Data /\ k = <<k[1], k[2], k[3]>>
         /\ \A k \in Keys : Placed(k) => CellOf(k) \in Cells
         /\ \A j, k \in Keys : Placed(j) /\ Placed(k) /\ CellOf(j) = CellOf(k) => j = k
<1>1. \A k \in Keys : k[1] \in Layers /\ k[2] \in Experts /\ k[3] \in 1..Tensors
                      /\ DatumOf(k) \in Data /\ k = <<k[1], k[2], k[3]>>
  BY Constants DEF DatumOf
<1>2. ASSUME NEW k \in Keys, Placed(k)
      PROVE  /\ layer_slots[k[1]] \in Seq(PP!Slots) /\ Len(layer_slots[k[1]]) = Tensors
             /\ layer_slots[k[1]][k[3]] \in PP!Slots
  <2>1. /\ layer_slots[k[1]] \in Seq(PP!Slots)
        /\ Len(layer_slots[k[1]]) = Tensors
    BY <1>1, <1>2 DEF PoolInv, SlotsWhole, PoolFacts, PP!SlotPoolTypeOK, Placed
  <2> QED
    BY <1>1, <2>1
<1>3. ASSUME NEW k \in Keys, Placed(k)
      PROVE  CellOf(k) \in Cells
  BY <1>1, <1>2, <1>3, Constants DEF CellOf
<1>4. ASSUME NEW j \in Keys, NEW k \in Keys, Placed(j), Placed(k), CellOf(j) = CellOf(k)
      PROVE  j = k
  <2>1. layer_slots[j[1]][j[3]] = layer_slots[k[1]][k[3]] /\ Position[j[2]] = Position[k[2]]
    BY <1>4 DEF CellOf
  <2>2. j[2] = k[2]
    BY <1>1, <2>1, Constants
  <2>3. /\ j[1] \in Layers /\ k[1] \in Layers
        /\ j[3] \in 1..Len(layer_slots[j[1]]) /\ k[3] \in 1..Len(layer_slots[k[1]])
    BY <1>1, <1>2, <1>4
  <2>4. j[1] = k[1]
    BY <2>1, <2>3 DEF PoolFacts, PP!NoneShared, PP!Disjoint
  <2>5. j[3] = k[3]
    BY <2>1, <2>3, <2>4 DEF PoolFacts, PP!NoneShared, PP!Distinct
  <2> QED
    BY <1>1, <2>2, <2>4, <2>5
<1> QED
  BY <1>1, <1>3, <1>4

\* Slots, memory and tasks that stay leave every slice where it is.
LEMMA UnderwayStays ==
  ASSUME layer_slots' = layer_slots, mem' = mem, Unread \subseteq Unread'
  PROVE  \A k : Underway(k) => Underway(k)'
<1> SUFFICES ASSUME NEW k, Underway(k) PROVE Underway(k)'
  OBVIOUS
<1>1. (Placed(k)' <=> Placed(k)) /\ CellOf(k)' = CellOf(k) /\ DatumOf(k)' = DatumOf(k)
      /\ WriteOf(k)' = WriteOf(k)
  BY DEF Placed, CellOf, DatumOf, WriteOf
<1> QED
  BY <1>1 DEF Underway, Present, Pending

\* So do right writes, wherever the slots stay.
LEMMA RightWritesStay ==
  ASSUME layer_slots' = layer_slots
  PROVE  \A w, l : RightWrite(w, l) => RightWrite(w, l)'
BY DEF RightWrite, Placed, WriteOf, CellOf, DatumOf

\* Reading the writes of a task: a slice that was in place stays, one that was to be
\* written by the task is in place.
LEMMA PreadPlaces ==
  ASSUME PoolInv, PoolFacts, IoInv, WritesRight, layer_slots' = layer_slots,
         NEW x \in Flying, mem' = AfterRead(x.writes)
  PROVE  \A k \in Keys : Placed(k) /\ (Present(k) \/ WriteOf(k) \in x.writes) => Present(k)'
<1> SUFFICES ASSUME NEW k \in Keys, Placed(k), Present(k) \/ WriteOf(k) \in x.writes
             PROVE  Present(k)'
  OBVIOUS
<1>1. Placed(k)' /\ CellOf(k)' = CellOf(k) /\ DatumOf(k)' = DatumOf(k)
  BY DEF Placed, CellOf, DatumOf
<1> DEFINE c == CellOf(k)
           d == DatumOf(k)
<1>2. c \in Cells /\ d \in Data
  BY CellsApart
<1>3. mem'[c] = IF \E e \in Data : <<c, e>> \in x.writes
                  THEN CHOOSE e \in Data : <<c, e>> \in x.writes ELSE mem[c]
  BY <1>2 DEF AfterRead
<1>4. ASSUME NEW e \in Data, <<c, e>> \in x.writes
      PROVE  e = d
  <2>1. PICK j \in Keys : Placed(j) /\ <<c, e>> = WriteOf(j)
    BY <1>4 DEF WritesRight, RightWrite
  <2>2. CellOf(j) = CellOf(k) /\ e = DatumOf(j)
    BY <2>1 DEF WriteOf
  <2>3. j = k
    BY <2>1, <2>2, CellsApart
  <2> QED
    BY <2>2, <2>3
<1>5. mem'[c] = d
  <2>1. CASE \E e \in Data : <<c, e>> \in x.writes
    <3>1. mem'[c] \in Data /\ <<c, mem'[c]>> \in x.writes
      BY <1>3, <2>1
    <3> QED
      BY <1>4, <3>1
  <2>2. CASE ~ \E e \in Data : <<c, e>> \in x.writes
    <3>1. <<c, d>> \notin x.writes
      BY <1>2, <2>2
    <3>2. mem[c] = d
      BY <3>1 DEF WriteOf, Present
    <3> QED
      BY <1>3, <2>2, <3>2
  <2> QED
    BY <2>1, <2>2
<1> QED
  BY <1>1, <1>5 DEF Present

\* The workers read what was to be read where it belongs.
LEMMA WorkPlaces ==
  ASSUME IsFiniteSet(Workers), ~IoFaults, PoolInv, PoolFacts, IoInv, OnlyWaited, WritesRight,
         NEW w \in Workers, IoThread(w)
  PROVE  /\ OnlyWaited' /\ WritesRight'
         /\ \A k \in Keys : Underway(k) => Underway(k)'
<1>1. layer_slots' = layer_slots
  BY DEF IoThread, slotVars
<1>2. ASSUME Flying' \subseteq Flying
      PROVE  OnlyWaited' /\ WritesRight'
  <2>1. OnlyWaited'
    BY <1>2 DEF OnlyWaited
  <2>2. WritesRight'
    BY <1>1, <1>2, RightWritesStay DEF WritesRight
  <2> QED
    BY <2>1, <2>2
<1>3. CASE Recv(w)
  <2>1. Flying' = Flying /\ Unread' = Unread
    BY <1>3, RecvStep DEF IoInv
  <2>2. mem' = mem
    BY <1>3 DEF Recv
  <2> QED
    BY <1>1, <1>2, <2>1, <2>2, UnderwayStays
<1>4. CASE Pread(w)
  <2> DEFINE x == worker[w].task
  <2>1. Flying' = Flying /\ x \in Flying /\ Unread \subseteq Unread' \cup {x}
    BY <1>4, PreadStep DEF IoInv
  <2>2. mem' = AfterRead(x.writes)
    BY <1>4 DEF Pread
  <2> HIDE DEF x
  <2>3. ASSUME NEW k \in Keys, Underway(k)
        PROVE  Underway(k)'
    <3>1. CASE Present(k) \/ (Placed(k) /\ WriteOf(k) \in x.writes)
      <4>1. Placed(k)
        BY <3>1 DEF Present
      <4>2. Present(k)'
        BY <1>1, <2>1, <2>2, <3>1, <4>1, PreadPlaces
      <4> QED
        BY <4>2 DEF Underway
    <3>2. ASSUME Placed(k), NEW y \in Unread, WriteOf(k) \in y.writes, WriteOf(k) \notin x.writes
          PROVE  Underway(k)'
      <4>1. y \in Unread'
        BY <2>1, <3>2
      <4>2. Placed(k)' /\ WriteOf(k)' = WriteOf(k)
        BY <1>1, <3>2 DEF Placed, WriteOf, CellOf, DatumOf
      <4> QED
        BY <3>2, <4>1, <4>2 DEF Underway, Pending
    <3> QED
      BY <2>3, <3>1, <3>2 DEF Underway, Pending
  <2> QED
    BY <1>2, <2>1, <2>3
<1>5. CASE Count(w)
  <2>1. Flying' \subseteq Flying /\ Unread' = Unread
    BY <1>5, CountStep DEF IoInv
  <2>2. mem' = mem
    BY <1>5 DEF Count, CountThen
  <2> QED
    BY <1>1, <1>2, <2>1, <2>2, UnderwayStays
<1>6. CASE Publish(w)
  <2>1. worker[w].task.layer \in Layers
    <3>1. w \in Busy
      BY <1>6 DEF Publish, Busy
    <3>2. worker[w].task \in Tasks
      BY <3>1, TaskInHand DEF IoInv
    <3> QED
      BY <3>2 DEF Tasks
  <2>2. Flying' \subseteq Flying /\ Unread' = Unread
    BY <1>6, <2>1, PublishStep DEF IoInv
  <2>3. mem' = mem
    BY <1>6 DEF Publish
  <2> QED
    BY <1>1, <1>2, <2>2, <2>3, UnderwayStays
<1>7. CASE Exit(w)
  <2>1. Flying' = Flying /\ Unread' = Unread /\ mem' = mem
    BY <1>7, ExitStep DEF IoInv
  <2> QED
    BY <1>1, <1>2, <2>1, UnderwayStays
<1> QED
  BY <1>3, <1>4, <1>5, <1>6, <1>7 DEF IoThread, Work

\* A step of the thread that touches neither slots nor memory nor tasks.
LEMMA CalmStep ==
  ASSUME OnlyWaited, WritesRight, IoTyped, UNCHANGED <<layer_slots, mem, chan, worker, remaining>>
  PROVE  /\ OnlyWaited' /\ WritesRight'
         /\ \A k : Underway(k) => Underway(k)'
<1>1. Flying' = Flying /\ Unread' = Unread
  BY TasksStay
<1>2. OnlyWaited'
  BY <1>1 DEF OnlyWaited
<1>3. WritesRight'
  BY <1>1, RightWritesStay DEF WritesRight
<1>4. \A k : Underway(k) => Underway(k)'
  BY <1>1, UnderwayStays
<1> QED
  BY <1>2, <1>3, <1>4

\* No task that writes is under way unless the thread waits.
LEMMA NothingFlies ==
  ASSUME IoInv, OnlyWaited, pc # "await" \/ layer_status[layer] # "Loading"
  PROVE  (\A x \in Flying : x.writes = {}) /\ \A k : Underway(k) => Present(k)
<1>1. \A x \in Flying : x.writes = {}
  BY QuietUnlessLoading DEF Quiet, OnlyWaited
<1>2. Unread \subseteq Flying
  BY TaskInHand DEF Flying, Unread, Busy
<1> QED
  BY <1>1, <1>2 DEF Underway, Pending

\* AskMiss: the layers that may be evicted have no entries left.
LEMMA AskMissMakesRoom ==
  ASSUME PoolInv, PoolFacts, Sound(cache), CacheHeld, AskMiss
  PROVE  RoomMade' /\ cache'.entries \subseteq cache.entries /\ speculated' = speculated
<1>0. speculated' = speculated
  BY DEF AskMiss
<1>1. layer \in Layers /\ Chosen \in SUBSET Experts
  BY DEF PoolInv, ThreadTyped, Chosen
<1>2. cache' = WithoutLayers(AfterCheck(layer, Chosen), Reclaimed)
  BY DEF AskMiss
<1>3. Sound(AfterCheck(layer, Chosen)) /\ AfterCheck(layer, Chosen).entries = cache.entries
  BY <1>1, CheckFacts
<1>4. cache'.entries = {k \in cache.entries : k[1] \notin Reclaimed}
  BY <1>2, <1>3, WithoutLayersKeeps
<1>5. CASE pc' # "allocate"
  BY <1>0, <1>4, <1>5 DEF RoomMade
<1>6. CASE pc' = "allocate"
  <2>1. layer_slots[layer] = <<>> /\ Pool!BeginAllocate(layer, Tensors)
    BY <1>6 DEF AskMiss
  <2>2. free_slots' = free_slots /\ claim'.slots = <<>>
    BY <2>1 DEF Pool!BeginAllocate
  <2>3. Len(free_slots) \in Nat /\ Tensors \in Nat /\ Len(<<>>) = 0
    BY Constants DEF PoolFacts, PP!SlotPoolTypeOK
  <2>4. CASE Len(free_slots) < Tensors
    <3>1. ASSUME NEW k \in cache.entries \ speculated
          PROVE  k[1] \in Reclaimed
      <4>1. k \in Keys
        BY DEF Sound, Agree, Caches
      <4>2. layer_slots[k[1]] # <<>>
        BY DEF CacheHeld, Underway, Present, Pending, Placed
      <4>3. k[1] \in Layers
        BY <4>1, CellsApart
      <4> QED
        BY <2>1, <2>4, <4>2, <4>3 DEF Reclaimed
    <3> QED
      BY <1>0, <1>4, <3>1 DEF RoomMade
  <2>5. CASE ~ Len(free_slots) < Tensors
    BY <1>0, <1>4, <2>2, <2>3, <2>5 DEF RoomMade
  <2> QED
    BY <2>4, <2>5
<1> QED
  BY <1>5, <1>6

\* allocate_layer, when it began with room, evicts nothing.
LEMMA AllocateKeepsHits ==
  ASSUME PoolInv, PoolFacts, IoInv, Sound(cache), HitsInv, Allocate
  PROVE  HitsInv'
<1>1. /\ pc = "allocate" /\ Pool!AllocateStep /\ cache' = cache /\ speculated' = speculated
      /\ UNCHANGED <<chan, worker, remaining>>
      /\ pc' = IF claim' = Pool!NoClaim THEN "submit" ELSE pc
  BY DEF Allocate, expertVars
<1>2. (\A x \in Flying : x.writes = {}) /\ \A k : Underway(k) => Present(k)
  BY <1>1, NothingFlies DEF HitsInv
<1>3. Flying' = Flying /\ Unread' = Unread
  BY <1>1, TasksStay DEF IoInv
<1>4. OnlyWaited' /\ WritesRight'
  BY <1>2, <1>3 DEF OnlyWaited, WritesRight
<1>5. /\ claim.layer = layer /\ claim.want = Tensors /\ claim # Pool!NoClaim
      /\ layer_slots[layer] = <<>> /\ layer \in Layers
  <2>1. claim.layer = layer /\ claim.want = Tensors /\ claim # Pool!NoClaim /\ layer \in Layers
    BY <1>1 DEF PoolInv, SlotsWhole, ThreadTyped
  <2> QED
    BY <2>1 DEF PoolFacts, PP!ClaimIsApart
<1>6. CASE cache.entries \subseteq speculated
  BY <1>1, <1>4, <1>6 DEF HitsInv, CacheHeld, RoomMade
<1>7. CASE ~(cache.entries \subseteq speculated)
  <2>1. Len(free_slots) + Len(claim.slots) >= Tensors
    BY <1>1, <1>7 DEF HitsInv, RoomMade
  <2>2. /\ free_slots \in Seq(PP!Slots) /\ claim.slots \in Seq(PP!Slots) /\ Tensors \in Nat
        /\ layer_slots \in [Layers -> Seq(PP!Slots)]
    BY Constants DEF PoolFacts, PP!SlotPoolTypeOK
  <2>3. ~Pool!EvictOldest
    <3> SUFFICES ASSUME Pool!EvictOldest PROVE FALSE
      OBVIOUS
    <3>1. free_slots = <<>> /\ Len(claim.slots) < claim.want
      BY DEF Pool!EvictOldest, Pool!EvictLeaving
    <3>2. Len(free_slots) = 0
      BY <3>1
    <3> QED
      BY <1>5, <2>1, <2>2, <3>1, <3>2
  <2>4. CASE Pool!PopFree
    <3>1. /\ layer_slots' = layer_slots /\ free_slots # <<>>
          /\ free_slots' = Pool!Front(free_slots)
          /\ claim'.slots = Append(claim.slots, Pool!Last(free_slots))
      BY <2>4 DEF Pool!PopFree, Pool!PopWhile, Pool!Gather
    <3>2. mem' = mem
      <4>1. \A c \in Cells : mem'[c] = mem[c]
        BY <3>1 DEF Allocate
      <4>2. mem' \in [Cells -> Data \cup {Empty}] /\ mem \in [Cells -> Data \cup {Empty}]
        BY <1>1, QuietSteps DEF IoInv, IoTyped
      <4> QED
        BY <4>1, <4>2
    <3>3. Len(free_slots') = Len(free_slots) - 1 /\ Len(claim'.slots) = Len(claim.slots) + 1
      <4>1. Len(Pool!Front(free_slots)) = Len(free_slots) - 1 /\ Pool!Last(free_slots) \in PP!Slots
        <5>1. Pool!Front(free_slots) = PP!Front(free_slots) /\ Pool!Last(free_slots) = PP!Last(free_slots)
          BY DEF Pool!Front, PP!Front, Pool!Last, PP!Last
        <5>2. Len(PP!Front(free_slots)) = Len(free_slots) - 1 /\ PP!Last(free_slots) \in PP!Slots
          BY <2>2, <3>1, PoolAssumption, PP!PopProperties DEF PP!SlotPoolAssumption
        <5> QED
          BY <5>1, <5>2
      <4> QED
        BY <2>2, <3>1, <4>1
    <3>4. RoomMade'
      <4>1. Len(free_slots) \in Nat /\ Len(claim.slots) \in Nat
        BY <2>2
      <4> QED
        BY <2>1, <2>2, <3>3, <4>1 DEF RoomMade
    <3>5. CacheHeld'
      <4>1. \A k : Underway(k) => Underway(k)'
        BY <1>3, <3>1, <3>2, UnderwayStays
      <4> QED
        BY <1>1, <4>1 DEF HitsInv, CacheHeld
    <3> QED
      BY <1>4, <3>4, <3>5 DEF HitsInv
  <2>5. CASE Pool!EndAllocate
    <3>1. /\ layer_slots' = [layer_slots EXCEPT ![layer] = claim.slots]
          /\ claim' = Pool!NoClaim
      BY <1>5, <2>5 DEF Pool!EndAllocate
    <3>2. mem' = mem
      <4>1. \A l \in Layers \ {claim.layer} : layer_slots'[l] = layer_slots[l]
        BY <1>5, <2>2, <3>1
      <4>2. \A c \in Cells : mem'[c] = mem[c]
        BY <4>1 DEF Allocate
      <4>3. mem' \in [Cells -> Data \cup {Empty}] /\ mem \in [Cells -> Data \cup {Empty}]
        BY <1>1, QuietSteps DEF IoInv, IoTyped
      <4> QED
        BY <4>2, <4>3
    <3>3. RoomMade'
      BY <1>1, <3>1 DEF RoomMade
    <3>4. CacheHeld'
      <4> SUFFICES ASSUME NEW k \in cache.entries \ speculated PROVE Underway(k)'
        BY <1>1 DEF CacheHeld
      <4>1. k \in Keys /\ Present(k)
        BY <1>2 DEF HitsInv, CacheHeld, Sound, Agree, Caches
      <4>2. k[1] \in Layers /\ k[1] # layer
        BY <1>5, <4>1, CellsApart DEF Present, Placed
      <4>3. layer_slots'[k[1]] = layer_slots[k[1]]
        BY <2>2, <3>1, <4>2
      <4>4. Present(k)'
        BY <3>2, <4>1, <4>3 DEF Present, Placed, CellOf, DatumOf
      <4> QED
        BY <4>4 DEF Underway
    <3> QED
      BY <1>4, <3>3, <3>4 DEF HitsInv
  <2> QED
    BY <1>1, <2>3, <2>4, <2>5 DEF Pool!AllocateStep
<1> QED
  BY <1>6, <1>7

\* SendExperts: what is marked and was not cached is about to be read into place, and is
\* no longer a slice that was only speculated about.
LEMMA SendExpertsKeepsHits ==
  ASSUME IsFiniteSet(Workers), ~IsFiniteSet(Loads), PoolInv, PoolFacts, Sound(cache), IoInv,
         HitsInv, SendExperts
  PROVE  /\ HitsInv'
         /\ \A k \in SlicesOf(layer, Chosen) \ speculated' : Underway(k)'
<1>1. PP!SlotPoolTypeOK
  BY DEF PoolFacts
<1>2. PICK reads \in SUBSET SlicesOf(layer, Chosen), tasks \in Seq(Tasks) :
        /\ IoTyped' /\ CountsExact'
        /\ Flying' = Flying \cup Listed(tasks) /\ Unread' = Unread \cup Listed(tasks)
        /\ \A x \in Listed(tasks) :
             /\ x.load = FreshLoad /\ x.layer = layer /\ x.update_status
             /\ x.writes \subseteq Written(reads, InPool(reads))
        /\ EachInATask(reads, InPool(reads), tasks)
        /\ SlicesOf(layer, Chosen) \subseteq cache.entries \cup reads
        /\ cache'.entries \subseteq cache.entries \cup reads
        /\ speculated' = speculated \ reads
  BY <1>1, SentExperts
<1>3. /\ pc = "send" /\ pc' = "await" /\ layer_slots' = layer_slots /\ mem' = mem
      /\ layer_slots[layer] # <<>> /\ layer \in Layers /\ Chosen \in SUBSET Experts
  BY DEF SendExperts, slotVars, PoolInv, SlotsWhole, ThreadTyped, Chosen
<1>4. \A x \in Flying : x.writes = {}
  BY <1>3, NothingFlies DEF HitsInv
<1>5. ASSUME NEW r \in reads
      PROVE  r \in Keys /\ r[1] = layer /\ Placed(r) /\ InPool(reads)[r] = {WriteOf(r)}
  <2>1. r \in Keys /\ r[1] = layer
    <3>1. r \in SlicesOf(layer, Chosen)
      BY <1>5
    <3>2. SlicesOf(layer, Chosen) \subseteq Keys
      BY <1>3, SlicesFacts, Zenon
    <3>3. r[1] = layer
      BY <3>1 DEF SlicesOf
    <3> QED
      BY <3>1, <3>2, <3>3
  <2> QED
    BY <1>3, <2>1 DEF Placed, InPool, WriteOf, CellOf, DatumOf
<1>6. OnlyWaited'
  BY <1>2, <1>4 DEF OnlyWaited
<1>7. WritesRight'
  <2> SUFFICES ASSUME NEW x \in Flying', NEW w \in x.writes
               PROVE  RightWrite(w, x.layer)'
    BY DEF WritesRight
  <2>1. x.layer = layer /\ w \in Written(reads, InPool(reads))
    <3>1. x \in Listed(tasks)
      BY <1>2, <1>4
    <3> QED
      BY <1>2, <3>1
  <2>2. PICK r \in reads : w = WriteOf(r)
    BY <1>5, <2>1 DEF Written
  <2>3. RightWrite(w, x.layer)
    BY <1>5, <2>1, <2>2 DEF RightWrite
  <2> QED
    BY <1>3, <2>3, RightWritesStay
<1>8. \A k : Underway(k) => Underway(k)'
  BY <1>2, <1>3, UnderwayStays
<1>9. ASSUME NEW r \in reads
      PROVE  Underway(r)'
  <2>1. PICK x \in Listed(tasks) : InPool(reads)[r] \subseteq x.writes
    BY <1>2 DEF EachInATask
  <2>2. x \in Unread' /\ WriteOf(r) \in x.writes /\ Placed(r)
    BY <1>2, <1>5, <2>1
  <2>3. WriteOf(r)' = WriteOf(r) /\ Placed(r)'
    BY <1>3, <2>2 DEF WriteOf, CellOf, DatumOf, Placed
  <2> QED
    BY <2>2, <2>3 DEF Underway, Pending
<1>10. CacheHeld'
  <2> SUFFICES ASSUME NEW k \in cache'.entries \ speculated' PROVE Underway(k)'
    BY DEF CacheHeld
  <2> QED
    BY <1>2, <1>8, <1>9 DEF HitsInv, CacheHeld
<1>11. \A k \in SlicesOf(layer, Chosen) \ speculated' : Underway(k)'
  BY <1>2, <1>8, <1>9 DEF HitsInv, CacheHeld
<1> QED
  BY <1>3, <1>6, <1>7, <1>10, <1>11 DEF HitsInv, RoomMade

\* SendAll: the chunks write nothing (the loading buffer is unmapped).
LEMMA SendAllKeepsHits ==
  ASSUME IsFiniteSet(Workers), ~IsFiniteSet(Loads), Workers # {}, PoolInv, PoolFacts, IoInv,
         HitsInv, SendAll
  PROVE  HitsInv'
<1> DEFINE chunk == Task(FreshLoad, layer, TRUE, {})
           tasks == [i \in 1..Chunks |-> chunk]
<1>1. layer \in Layers
  BY DEF PoolInv, ThreadTyped
<1>2. IoTyped /\ CountsExact /\ FreshLoad \in Loads /\ \A x \in Flying : x.load # FreshLoad
  BY FreshLoadIsFresh DEF IoInv
<1>3. /\ chunk \in Tasks /\ chunk.load = FreshLoad
      /\ chunk.layer = layer /\ chunk.update_status /\ chunk.writes = {}
  BY <1>1, <1>2 DEF Task, Tasks
<1>4. /\ Send(FreshLoad, tasks) /\ pc = "send_all" /\ pc' = "await"
      /\ UNCHANGED <<layer_status, parked, pool_open, worker, mem, layer, layer_slots, cache,
                     speculated>>
  BY DEF SendAll, placeVars, expertVars, slotVars
<1> HIDE DEF chunk
<1>5. tasks \in Seq(Tasks) /\ Len(tasks) = Chunks /\ \A i \in 1..Chunks : tasks[i] = chunk
  BY <1>3, ChunksCount
<1> HIDE DEF tasks
<1>6. \A k \in 1..Len(tasks) : tasks[k].load = FreshLoad
  BY <1>3, <1>5
<1>7. Listed(tasks) \subseteq {chunk}
  BY <1>5 DEF Listed
<1>8. Flying' = Flying \cup Listed(tasks) /\ Unread' = Unread \cup Listed(tasks)
  BY <1>2, <1>4, <1>5, <1>6, SendStep
<1>9. \A x \in Flying' : x \in Flying \/ (x.update_status /\ x.writes = {})
  BY <1>3, <1>7, <1>8
<1>10. OnlyWaited'
  BY <1>9 DEF HitsInv, OnlyWaited
<1>11. WritesRight'
  <2> SUFFICES ASSUME NEW x \in Flying', NEW w \in x.writes
               PROVE  RightWrite(w, x.layer)'
    BY DEF WritesRight
  <2>1. RightWrite(w, x.layer)
    BY <1>9 DEF HitsInv, WritesRight
  <2> QED
    BY <1>4, <2>1, RightWritesStay
<1>12. \A k : Underway(k) => Underway(k)'
  BY <1>4, <1>8, UnderwayStays
<1>13. CacheHeld'
  BY <1>4, <1>12 DEF HitsInv, CacheHeld
<1> QED
  BY <1>4, <1>10, <1>11, <1>13 DEF HitsInv, RoomMade

\* Post: what it marks is speculated, what it sends writes nothing.
LEMMA PostKeepsHits ==
  ASSUME IsFiniteSet(Workers), ~IsFiniteSet(Loads), PoolInv, Sound(cache), IoInv, HitsInv, Post
  PROVE  HitsInv'
<1>1. PICK reads \in SUBSET Keys, tasks \in Seq(Tasks) :
        /\ Flying' = Flying \cup Listed(tasks) /\ Unread' = Unread \cup Listed(tasks)
        /\ \A x \in Listed(tasks) : x.writes = {}
        /\ cache'.entries \subseteq cache.entries \cup reads
        /\ speculated' = speculated \cup reads
  BY SpeculationSent
<1>2. layer_slots' = layer_slots /\ mem' = mem /\ pc' = "reset"
  BY DEF Post, slotVars
<1>3. OnlyWaited'
  BY <1>1 DEF HitsInv, OnlyWaited
<1>4. WritesRight'
  <2> SUFFICES ASSUME NEW x \in Flying', NEW w \in x.writes
               PROVE  RightWrite(w, x.layer)'
    BY DEF WritesRight
  <2>1. RightWrite(w, x.layer)
    BY <1>1 DEF HitsInv, WritesRight
  <2> QED
    BY <1>2, <2>1, RightWritesStay
<1>5. \A k : Underway(k) => Underway(k)'
  BY <1>1, <1>2, UnderwayStays
<1>6. CacheHeld'
  BY <1>1, <1>5 DEF HitsInv, CacheHeld
<1> QED
  BY <1>2, <1>3, <1>4, <1>6 DEF HitsInv, RoomMade

\* What the remaining steps of the thread leave alone.
LEMMA CalmSteps ==
  ASSUME PoolInv, Sound(cache),
         \/ Warm \/ StartPass \/ Finish \/ AskHit \/ Mark \/ AskCold \/ Await \/ Compute
         \/ Intercept \/ Reset \/ Advance \/ Stop \/ Join \/ Terminated \/ UNCHANGED vars
  PROVE  /\ UNCHANGED <<layer_slots, mem, chan, worker, remaining, speculated>>
         /\ cache'.entries = cache.entries
         /\ pc' = "allocate" => UNCHANGED <<pc, free_slots, claim>>
<1>1. layer \in Layers /\ Chosen \in SUBSET Experts
  BY DEF PoolInv, ThreadTyped, Chosen
<1>2. CASE AskHit
  <2>1. cache' = AfterCheck(layer, Chosen) /\ pc' \in {"warm", "compute"}
        /\ UNCHANGED <<layer_slots, mem, chan, worker, remaining, speculated>>
    BY <1>2 DEF AskHit, poolVars, slotVars, Return
  <2>2. cache'.entries = cache.entries
    BY <1>1, <2>1, CheckFacts
  <2> QED
    BY <2>1, <2>2
<1>3. CASE Warm
  <2>1. pc' \in {"warm", "ask"} /\ UNCHANGED <<layer_slots, mem, chan, worker, remaining, cache, speculated>>
    BY <1>3 DEF Warm, poolVars, slotVars
  <2> QED
    BY <2>1
<1>4. CASE StartPass \/ Finish \/ Compute \/ Intercept \/ Join
  <2>1. pc' # "allocate" /\ UNCHANGED <<layer_slots, mem, chan, worker, remaining, cache, speculated>>
    BY <1>4 DEF StartPass, Finish, Compute, Intercept, InterceptUnless, Join, poolVars, slotVars,
                expertVars
  <2> QED
    BY <2>1
<1>5. CASE Mark \/ AskCold \/ Reset \/ Advance \/ Stop
  <2>1. pc' # "allocate" /\ UNCHANGED <<layer_slots, mem, chan, worker, remaining, cache, speculated>>
    BY <1>5 DEF Mark, AskCold, Reset, Advance, Stop, CloseChannel, poolVars, slotVars, expertVars
  <2> QED
    BY <2>1
<1>6. CASE Await
  <2>1. pc' # "allocate" /\ UNCHANGED <<layer_slots, mem, chan, worker, remaining, cache, speculated>>
    BY <1>6 DEF Await, Return, slotVars, expertVars
  <2> QED
    BY <2>1
<1>7. CASE Terminated \/ UNCHANGED vars
  BY <1>7 DEF Terminated, vars, poolVars, slotVars, expertVars
<1> QED
  BY <1>2, <1>3, <1>4, <1>5, <1>6, <1>7

\* Every step keeps the promise of the cache.
LEMMA HitsInvNext ==
  ASSUME IsFiniteSet(Workers), ~IsFiniteSet(Loads), Workers # {}, ~IoFaults,
         PoolInv, PoolFacts, Sound(cache), IoInv, HitsInv, [Next]_vars
  PROVE  HitsInv'
<1>1. CASE \/ Warm \/ StartPass \/ Finish \/ AskHit \/ Mark \/ AskCold \/ Await \/ Compute
           \/ Intercept \/ Reset \/ Advance \/ Stop \/ Join \/ Terminated \/ UNCHANGED vars
  <2>1. /\ UNCHANGED <<layer_slots, mem, chan, worker, remaining, speculated>>
        /\ cache'.entries = cache.entries
        /\ pc' = "allocate" => UNCHANGED <<pc, free_slots, claim>>
    BY <1>1, CalmSteps
  <2>2. OnlyWaited' /\ WritesRight' /\ \A k : Underway(k) => Underway(k)'
    BY <2>1, CalmStep DEF HitsInv, IoInv
  <2>3. CacheHeld'
    BY <2>1, <2>2 DEF HitsInv, CacheHeld
  <2>4. RoomMade'
    BY <2>1 DEF HitsInv, RoomMade
  <2> QED
    BY <2>2, <2>3, <2>4 DEF HitsInv
<1>2. CASE AskMiss
  <2>1. UNCHANGED <<layer_slots, mem, chan, worker, remaining>>
    BY <1>2 DEF AskMiss, Pool!BeginAllocate, poolVars, slotVars
  <2>2. OnlyWaited' /\ WritesRight' /\ \A k : Underway(k) => Underway(k)'
    BY <2>1, CalmStep DEF HitsInv, IoInv
  <2>3. RoomMade' /\ cache'.entries \subseteq cache.entries /\ speculated' = speculated
    BY <1>2, AskMissMakesRoom DEF HitsInv
  <2>4. CacheHeld'
    BY <2>2, <2>3 DEF HitsInv, CacheHeld
  <2> QED
    BY <2>2, <2>3, <2>4 DEF HitsInv
<1>3. CASE Allocate
  BY <1>3, AllocateKeepsHits
<1>4. CASE SendExperts
  BY <1>4, SendExpertsKeepsHits
<1>5. CASE SendAll
  BY <1>5, SendAllKeepsHits
<1>6. ASSUME NEW w \in Workers, IoThread(w)
      PROVE  HitsInv'
  <2>1. UNCHANGED <<cache, speculated, pc, free_slots, claim>>
    BY <1>6 DEF IoThread, expertVars, slotVars
  <2>2. OnlyWaited' /\ WritesRight' /\ \A k \in Keys : Underway(k) => Underway(k)'
    BY <1>6, WorkPlaces DEF HitsInv
  <2>3. cache.entries \subseteq Keys
    BY DEF Sound, Agree, Caches
  <2>4. CacheHeld'
    BY <2>1, <2>2, <2>3 DEF HitsInv, CacheHeld
  <2>5. RoomMade'
    BY <2>1 DEF HitsInv, RoomMade
  <2> QED
    BY <2>2, <2>4, <2>5 DEF HitsInv
<1>7. CASE Post
  BY <1>7, PostKeepsHits
<1> QED
  BY <1>1, <1>2, <1>3, <1>4, <1>5, <1>6, <1>7 DEF Next, ComputeThread

\* An empty cache promises nothing.
LEMMA HitsInvInit == Init => HitsInv
<1> SUFFICES ASSUME Init PROVE HitsInv
  OBVIOUS
<1>1. Queued = {} /\ Busy = {}
  BY DEF Init, PoolInit, Queued, Busy
<1>2. Flying = {}
  BY <1>1 DEF Flying
<1>3. cache.entries = {} /\ pc = "warm"
  BY DEF Init, NeuronCacheInit, EmptyCache
<1> QED
  BY <1>2, <1>3 DEF HitsInv, OnlyWaited, WritesRight, CacheHeld, RoomMade

\* All the invariants, together.
LEMMA HitsAlways ==
  ASSUME IsFiniteSet(Workers), Workers # {}, ~IsFiniteSet(Loads), ~IoFaults
  PROVE  Spec => []HitsInv
<1>1. PoolInv /\ PoolFacts /\ Sound(cache) /\ IoInv /\ HitsInv /\ [Next]_vars => HitsInv'
  BY HitsInvNext
<1> QED
  BY <1>1, HitsInvInit, PartsAlways, PoolFactsAlways, IoAlways, PTL DEF Spec

\* A slice the check of ensure_experts_loaded finds in the cache is in the layer's slot,
\* unless a speculative load was the last to mark it: whatever was evicted, reclaimed or
\* read late, as long as no read fails.
THEOREM HitsPresent ==
  ASSUME IsFiniteSet(Workers), Workers # {}, ~IsFiniteSet(Loads), ~IoFaults
  PROVE  Spec => []OnlySpeculationMisleads
<1>1. IoInv /\ HitsInv => OnlySpeculationMisleads
  <2> SUFFICES ASSUME IoInv, HitsInv, pc = "ask",
                      NEW slice \in cache.entries \ speculated,
                      slice[1] = layer, slice[2] \in Chosen
               PROVE  /\ layer_slots[layer] # <<>>
                      /\ mem[<<layer_slots[layer][slice[3]], Position[slice[2]]>>]
                           = <<layer, slice[3], slice[2]>>
    BY DEF OnlySpeculationMisleads
  <2>1. Present(slice)
    BY NothingFlies DEF HitsInv, CacheHeld
  <2> QED
    BY <2>1 DEF Present, Placed, CellOf, DatumOf
<1> QED
  BY <1>1, HitsAlways, IoAlways, PTL

-----------------------------------------------------------------------------
(* What the graph computes from. *)

\* From the router's result on, what the router picked is the selection of the layer.
RoutedChosen ==
  /\ pc = "reset" => node # "router"
  /\ \/ node = "experts" /\ pc \notin {"boundary", "stop", "join", "done"}
     \/ node = "router" /\ pc = "advance"
     => routed = Chosen

\* Once the thread waits or computes, each slice of the selection that was not only
\* speculated about is in place or to be read, and the tensors of the layer point to where.
ChosenHeld ==
  /\ pc = "send_all" => Chosen = {}
  /\ pc \in {"await", "compute"} => \A k \in SlicesOf(layer, Chosen) \ speculated : Underway(k)
  /\ pc \in {"send", "await", "compute"} /\ Chosen # {} /\ layer_slots[layer] # <<>>
       => data_ptr[layer] = layer_slots[layer]

\* Every step keeps the selection the router's.
LEMMA RoutedChosenNext ==
  ASSUME NumExperts <= RouterLimit, PoolInv, RoutedChosen, [Next]_vars
  PROVE  RoutedChosen'
<1>1. selected \in [Layers -> SUBSET Experts] /\ layer \in Layers
  BY DEF PoolInv, ThreadTyped
<1>2. CASE Warm
  <2>1. node = "attention"
    BY <1>2 DEF Warm, PoolInv, ThreadPlaced
  <2>2. node' = node /\ pc' \in {"warm", "ask"}
    BY <1>2 DEF Warm
  <2> QED
    BY <2>1, <2>2 DEF RoutedChosen
<1>3. CASE StartPass \/ Finish \/ Stop \/ Join
  <2>1. pc' \in {"stop", "join", "done"} \/ (node' = "attention" /\ pc' = "ask")
    BY <1>3 DEF StartPass, Finish, Stop, Join
  <2> QED
    BY <2>1 DEF RoutedChosen
<1>4. CASE AskHit \/ AskMiss \/ Allocate \/ Mark \/ SendExperts \/ AskCold \/ SendAll \/ Await
  <2>1. /\ UNCHANGED <<selected, routed, layer, node>>
        /\ pc \notin {"boundary", "stop", "join", "done"} /\ pc' \notin {"reset", "advance"}
    BY <1>4 DEF AskHit, AskMiss, Allocate, Mark, SendExperts, AskCold, SendAll, Await, Return,
                placeVars, expertVars
  <2> QED
    BY <2>1 DEF RoutedChosen, Chosen
<1>5. CASE Compute
  <2>1. /\ UNCHANGED <<selected, layer, node>> /\ pc = "compute" /\ pc' = "post"
        /\ node # "router" => routed' = routed
    BY <1>5 DEF Compute, placeVars
  <2> QED
    BY <2>1 DEF RoutedChosen, Chosen
<1>6. CASE Intercept
  <2>1. ~(NumExperts > RouterLimit)
    BY ExpertAssumption
  <2>2. /\ selected' = [selected EXCEPT ![layer] = routed] /\ UNCHANGED <<layer, routed>>
        /\ pc' = "advance"
    BY <1>6, <2>1 DEF Intercept, InterceptUnless, placeVars
  <2>3. routed' = Chosen'
    BY <1>1, <2>2 DEF Chosen
  <2> QED
    BY <2>2, <2>3 DEF RoutedChosen
<1>7. CASE Post
  <2>1. UNCHANGED <<selected, routed, layer, node>> /\ node # "router" /\ pc = "post" /\ pc' = "reset"
    BY <1>7 DEF Post
  <2> QED
    BY <2>1 DEF RoutedChosen, Chosen
<1>8. CASE Reset
  <2>1. UNCHANGED <<selected, routed, layer, node>> /\ pc = "reset" /\ pc' = "advance"
    BY <1>8 DEF Reset, placeVars, expertVars
  <2> QED
    BY <2>1 DEF RoutedChosen, Chosen
<1>9. CASE Advance
  <2>1. CASE node # "experts"
    <3>1. /\ UNCHANGED <<selected, routed, layer>> /\ pc = "advance" /\ pc' = "ask"
          /\ node' = IF node = "attention" THEN "router" ELSE "experts"
      BY <1>9, <2>1 DEF Advance
    <3> QED
      BY <2>1, <3>1 DEF RoutedChosen, Chosen, PoolInv, ThreadTyped
  <2>2. CASE node = "experts"
    <3>1. (node' = "attention" /\ pc' = "ask") \/ (pc' = "boundary" /\ node' = node)
      BY <1>9, <2>2 DEF Advance
    <3> QED
      BY <2>2, <3>1 DEF RoutedChosen
  <2> QED
    BY <2>1, <2>2
<1>10. ASSUME \/ Terminated \/ UNCHANGED vars \/ \E w \in Workers : IoThread(w)
       PROVE  RoutedChosen'
  <2>1. UNCHANGED <<selected, routed, layer, node, pc>>
    BY <1>10 DEF Terminated, vars, IoThread, placeVars, expertVars
  <2> QED
    BY <2>1 DEF RoutedChosen, Chosen
<1> QED
  BY <1>2, <1>3, <1>4, <1>5, <1>6, <1>7, <1>8, <1>9, <1>10 DEF Next, ComputeThread

\* A layer's selection is of slices, and only an empty one has none.
LEMMA ChosenSlices ==
  ASSUME PoolInv
  PROVE  /\ layer \in Layers /\ Chosen \in SUBSET Experts
         /\ SlicesOf(layer, Chosen) \subseteq Keys
         /\ \A k \in SlicesOf(layer, Chosen) : k[1] = layer
         /\ Chosen = {} => SlicesOf(layer, Chosen) = {}
         /\ Chosen # {} => SlicesOf(layer, Chosen) # {}
<1>1. layer \in Layers /\ Chosen \in SUBSET Experts
  BY DEF PoolInv, ThreadTyped, Chosen
<1>2. SlicesOf(layer, Chosen) \subseteq Keys
  BY <1>1, SlicesFacts, Zenon
<1>3. \A k \in SlicesOf(layer, Chosen) : k[1] = layer
  BY DEF SlicesOf
<1>4. Chosen = {} => SlicesOf(layer, Chosen) = {}
  BY DEF SlicesOf
<1>5. ASSUME NEW e \in Chosen PROVE SlicesOf(layer, Chosen) # {}
  <2>1. 1 \in 1..Tensors
    BY Constants
  <2>2. <<layer, e, 1>> \in SlicesOf(layer, Chosen)
    BY <2>1 DEF SlicesOf
  <2> QED
    BY <2>2
<1> QED
  BY <1>1, <1>2, <1>3, <1>4, <1>5

\* AskHit: all the selection is cached; if the layer has slots, the pointers are rewritten.
LEMMA AskHitHolds ==
  ASSUME PoolInv, IoInv, HitsInv, AskHit
  PROVE  ChosenHeld'
<1>1. /\ AllCached /\ Chosen # {} /\ pc' \in {"warm", "compute"}
      /\ UNCHANGED <<layer_slots, mem, chan, worker, remaining, layer, selected, speculated>>
      /\ data_ptr' = IF layer_slots[layer] = <<>> THEN data_ptr
                     ELSE [data_ptr EXCEPT ![layer] = layer_slots[layer]]
  BY DEF AskHit, Return, poolVars, slotVars, placeVars
<1>2. Chosen' = Chosen
  BY <1>1 DEF Chosen
<1>3. \A k \in SlicesOf(layer, Chosen) \ speculated : Underway(k)
  <2>1. SlicesOf(layer, Chosen) \subseteq cache.entries
    BY <1>1 DEF AllCached, IsCached, SlicesOf
  <2> QED
    BY <2>1 DEF HitsInv, CacheHeld
<1>4. layer \in Layers
  BY DEF PoolInv, ThreadTyped
<1>5. \A k : Underway(k) => Underway(k)'
  BY <1>1, CalmStep DEF HitsInv, IoInv
<1>6. layer_slots[layer] # <<>> => data_ptr'[layer] = layer_slots[layer]
  BY <1>1, <1>4 DEF PoolInv, ThreadTyped
<1> QED
  BY <1>1, <1>2, <1>3, <1>5, <1>6 DEF ChosenHeld

\* Every step keeps the selection in place.
LEMMA ChosenHeldNext ==
  ASSUME IsFiniteSet(Workers), ~IsFiniteSet(Loads), Workers # {}, ~IoFaults,
         PoolInv, PoolFacts, Sound(cache), IoInv, HitsInv, ChosenHeld, [Next]_vars
  PROVE  ChosenHeld'
<1>1. ASSUME pc' \notin {"send_all", "send", "await", "compute"}
      PROVE  ChosenHeld'
  BY <1>1 DEF ChosenHeld
<1>2. CASE \/ Warm \/ StartPass \/ Finish \/ AskMiss \/ Compute \/ Intercept \/ Post \/ Reset
           \/ Advance \/ Stop \/ Join \/ Terminated
  <2>1. pc' \notin {"send_all", "send", "await", "compute"}
    BY <1>2 DEF Warm, StartPass, Finish, AskMiss, Compute, Intercept, InterceptUnless, Post, Reset,
                Advance, Stop, Join, Terminated, vars
  <2> QED
    BY <1>1, <2>1
<1>3. CASE Allocate
  <2>1. pc' \in {"submit", "allocate"}
    BY <1>3 DEF Allocate
  <2> QED
    BY <1>1, <2>1
<1>4. CASE AskHit
  BY <1>4, AskHitHolds
<1>5. CASE Mark
  <2>1. /\ pc' = "send" /\ UNCHANGED <<layer, layer_slots>>
        /\ data_ptr' = [data_ptr EXCEPT ![layer] = layer_slots[layer]]
    BY <1>5 DEF Mark, placeVars, slotVars
  <2>2. data_ptr'[layer] = layer_slots[layer]
    BY <2>1 DEF PoolInv, ThreadTyped
  <2> QED
    BY <2>1, <2>2 DEF ChosenHeld
<1>6. CASE SendExperts
  <2>1. /\ pc = "send" /\ pc' = "await"
        /\ UNCHANGED <<layer, layer_slots, data_ptr, selected>>
    BY <1>6 DEF SendExperts, placeVars, slotVars
  <2>2. \A k \in SlicesOf(layer, Chosen) \ speculated' : Underway(k)'
    BY <1>6, SendExpertsKeepsHits
  <2>3. Chosen' = Chosen
    BY <2>1 DEF Chosen
  <2> QED
    BY <2>1, <2>2, <2>3 DEF ChosenHeld
<1>7. CASE AskCold \/ SendAll
  <2>1. Chosen = {} /\ UNCHANGED <<layer, selected>>
    BY <1>7 DEF AskCold, SendAll, ChosenHeld, placeVars, expertVars
  <2>2. Chosen' = {} /\ layer' = layer /\ SlicesOf(layer, Chosen) = {}
    BY <2>1, ChosenSlices DEF Chosen
  <2>3. SlicesOf(layer, Chosen)' = {}
    BY <2>1, <2>2
  <2> QED
    BY <2>2, <2>3 DEF ChosenHeld
<1>8. CASE Await
  <2>1. /\ pc = "await" /\ pc' \in {"await", "warm", "compute"}
        /\ UNCHANGED <<layer, layer_slots, data_ptr, selected, speculated, mem, chan,
                  worker, remaining>>
    BY <1>8 DEF Await, Return, placeVars, slotVars, expertVars
  <2>2. \A k : Underway(k) => Underway(k)'
    BY <2>1, CalmStep DEF HitsInv, IoInv
  <2>3. Chosen' = Chosen
    BY <2>1 DEF Chosen
  <2> QED
    BY <2>1, <2>2, <2>3 DEF ChosenHeld
<1>9. ASSUME NEW w \in Workers, IoThread(w)
      PROVE  ChosenHeld'
  <2>1. UNCHANGED <<pc, layer, layer_slots, data_ptr, selected, speculated>>
    BY <1>9 DEF IoThread, placeVars, slotVars, expertVars
  <2>2. \A k \in Keys : Underway(k) => Underway(k)'
    BY <1>9, WorkPlaces DEF HitsInv
  <2>3. Chosen' = Chosen /\ SlicesOf(layer, Chosen) \subseteq Keys
    BY <2>1, ChosenSlices DEF Chosen
  <2> QED
    BY <2>1, <2>2, <2>3 DEF ChosenHeld
<1>10. CASE UNCHANGED vars
  <2>1. UNCHANGED <<pc, layer, layer_slots, data_ptr, selected, speculated, mem, chan,
                  worker, remaining>>
    BY <1>10 DEF vars, poolVars, placeVars, slotVars, expertVars
  <2>2. \A k : Underway(k) => Underway(k)'
    BY <2>1, CalmStep DEF HitsInv, IoInv
  <2>3. Chosen' = Chosen
    BY <2>1 DEF Chosen
  <2> QED
    BY <2>1, <2>2, <2>3 DEF ChosenHeld
<1> QED
  BY <1>2, <1>3, <1>4, <1>5, <1>6, <1>7, <1>8, <1>9, <1>10 DEF Next, ComputeThread

\* A generation begins before any wait and any router.
LEMMA RoutedInit == Init => RoutedChosen /\ ChosenHeld
BY DEF Init, RoutedChosen, ChosenHeld

\* The router's part, where intercept_router_output looks at the router at all.
RoutedInv == NumExperts <= RouterLimit => RoutedChosen

\* When the expert node of a layer is computed, what the router has just picked (of at
\* most RouterLimit experts) is the selection, and each expert of the selection is in the
\* memory the tensors point to, where the file's order puts it, unless a speculative load
\* was the last to mark it: for any layers, order and number of experts, as long as no
\* read fails.
THEOREM SelectedPresent ==
  ASSUME IsFiniteSet(Workers), Workers # {}, ~IsFiniteSet(Loads), ~IoFaults
  PROVE  Spec => []OnlySpeculatedAreMissing
<1>1. PoolInv /\ RoutedInv /\ [Next]_vars => RoutedInv'
  BY RoutedChosenNext DEF RoutedInv
<1>2. PoolInv /\ PoolFacts /\ Sound(cache) /\ IoInv /\ HitsInv /\ ChosenHeld /\ [Next]_vars
        => ChosenHeld'
  BY ChosenHeldNext
<1>3. Init => RoutedInv /\ ChosenHeld
  BY RoutedInit DEF RoutedInv
<1>4. PoolInv /\ IoInv /\ HitsInv /\ RoutedInv /\ ChosenHeld => OnlySpeculatedAreMissing
  <2> SUFFICES ASSUME PoolInv, IoInv, HitsInv, RoutedInv, ChosenHeld, pc = "compute", node = "experts"
               PROVE  /\ NumExperts <= RouterLimit => routed \subseteq Chosen
                      /\ \A e \in Chosen, t \in 1..Tensors :
                           \/ <<layer, e, t>> \in speculated
                           \/ mem[<<data_ptr[layer][t], Position[e]>>] = <<layer, t, e>>
    BY DEF OnlySpeculatedAreMissing
  <2>1. NumExperts <= RouterLimit => routed \subseteq Chosen
    BY DEF RoutedInv, RoutedChosen
  <2>2. ASSUME NEW e \in Chosen, NEW t \in 1..Tensors, <<layer, e, t>> \notin speculated
        PROVE  mem[<<data_ptr[layer][t], Position[e]>>] = <<layer, t, e>>
    <3> DEFINE k == <<layer, e, t>>
    <3>1. k \in SlicesOf(layer, Chosen) \ speculated
      BY <2>2 DEF SlicesOf
    <3>2. Present(k)
      BY <3>1, NothingFlies DEF ChosenHeld, HitsInv
    <3>3. layer_slots[layer] # <<>> /\ mem[<<layer_slots[layer][t], Position[e]>>] = <<layer, t, e>>
      BY <3>2 DEF Present, Placed, CellOf, DatumOf
    <3>4. data_ptr[layer] = layer_slots[layer]
      BY <2>2, <3>3 DEF ChosenHeld
    <3> QED
      BY <3>3, <3>4
  <2> QED
    BY <2>1, <2>2
<1> QED
  BY <1>1, <1>2, <1>3, <1>4, HitsAlways, PartsAlways, PoolFactsAlways, IoAlways, PTL DEF Spec
=============================================================================
