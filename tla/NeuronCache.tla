---------------------------- MODULE NeuronCache ----------------------------
(***************************************************************************)
(* NeuronCache of src/cache/neuron_cache.rs: which expert slices are       *)
(* believed to be in memory.  It owns no memory: a key is marked loaded    *)
(* when its read is submitted and forgotten when it is the least recently  *)
(* used at capacity or when its layer is evicted.                          *)
(*                                                                         *)
(* A key is <<layer, expert, tensor type>>.  The operations are written on *)
(* the value of the cache, because callers run many of them under one lock *)
(* (ExpertStream); the actions below run them one at a time.  The hit and  *)
(* miss counters are statistics and are left out.                          *)
(***************************************************************************)
EXTENDS Naturals, Sequences, FiniteSets, Lists

CONSTANTS
  Keys,     \* (layer, expert_id, tensor_type)
  Capacity  \* most slices believed loaded

ASSUME NeuronCacheAssumption == Keys \subseteq Nat \X Nat \X Nat /\ Capacity \in Nat

VARIABLE cache  \* entries: HashMap<CacheKey, ()>;  lru_order: VecDeque<CacheKey>

EmptyCache == [entries |-> {}, lru_order |-> <<>>]

(* lru_order.retain(|k| *k != key); lru_order.push_back(key) *)
Promoted(order, key) == Append(Retained(order, Keys \ {key}), key)

(* Mutant: a hit does not promote. *)
LookedUpOnly(c, key) == c

(* is_loaded: a hit promotes the key to most recently used.                *)
LookedUp(c, key) ==
  IF key \in c.entries THEN [c EXCEPT !.lru_order = Promoted(@, key)] ELSE c

(* evict_lru: pop the front of the order; an empty order evicts nothing.   *)
WithoutOldest(c) ==
  IF c.lru_order = <<>> THEN c
  ELSE [entries |-> c.entries \ {Head(c.lru_order)}, lru_order |-> Tail(c.lru_order)]

MarkedAbove(c, key, full) ==
  IF key \in c.entries THEN [c EXCEPT !.lru_order = Promoted(@, key)]
  ELSE LET room == IF full THEN WithoutOldest(c) ELSE c
       IN [entries |-> room.entries \cup {key}, lru_order |-> Append(room.lru_order, key)]

(* Mutant: evicts only when over capacity. *)
MarkedLate(c, key) == MarkedAbove(c, key, Cardinality(c.entries) > Capacity)

(* mark_loaded: promote a known key, else insert it, at capacity in place  *)
(* of the least recently used one.                                         *)
Marked(c, key) == MarkedAbove(c, key, Cardinality(c.entries) >= Capacity)

(* Mutant: the order keeps the layer's keys. *)
EntriesWithoutLayer(c, l) == [c EXCEPT !.entries = {k \in @ : k[1] # l}]

(* evict_layer: forget every slice of a layer.                             *)
WithoutLayer(c, l) ==
  [entries |-> {k \in c.entries : k[1] # l},
   lru_order |-> Retained(c.lru_order, {k \in Keys : k[1] # l})]

-----------------------------------------------------------------------------
NeuronCacheInit == cache = EmptyCache

IsLoaded(key) == cache' = LookedUp(cache, key)
MarkLoaded(key) == cache' = Marked(cache, key)
EvictLayer(l) == cache' = WithoutLayer(cache, l)

-----------------------------------------------------------------------------
(* The queue and the entries hold keys of the cache only.                  *)
NeuronCacheTypeOK ==
  cache \in [entries: SUBSET Keys, lru_order: Seq(Keys)]

(* The map and the order are two records of the same set: every entry is   *)
(* queued exactly once.  An entry missing from the order could never be    *)
(* evicted again; a key queued but not entered would make evict_lru free   *)
(* nothing and the cache outgrow its capacity.                             *)
OrderListsEntries ==
  /\ {cache.lru_order[i] : i \in 1..Len(cache.lru_order)} = cache.entries
  /\ Len(cache.lru_order) = Cardinality(cache.entries)

(* "Maximum number of expert slices to keep loaded."  A cache of capacity  *)
(* 0 holds one: mark_loaded inserts after an eviction that found nothing.  *)
WithinCapacity ==
  Cardinality(cache.entries) <= IF Capacity = 0 THEN 1 ELSE Capacity
=============================================================================
