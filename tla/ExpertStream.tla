---------------------------- MODULE ExpertStream ----------------------------
(***************************************************************************)
(* Expert-streaming of src/compute/nvme_backend.rs: all but the experts of *)
(* a mixture-of-experts model stays on the GPU; the experts the router     *)
(* picks are read into pool slots when they are needed.  A slot holds one  *)
(* fused tensor of a layer, with a position for each expert.  The compute  *)
(* thread runs the token loop of generate_with_nvme_scheduling and, inside *)
(* each decode, eval_callback_expert_streaming before (ask) and after      *)
(* every graph node; SlotPool, NeuronCache and IoPool are its parts.       *)
(*                                                                         *)
(* Only layers with expert tensors are walked through: at any other layer  *)
(* the callback returns at once, because the buffer holds nothing of it.   *)
(* A cell is <<slot, position>>; a datum <<l, t, e>> is expert e of the    *)
(* t-th fused tensor of layer l.  buffer_base still points to the loading  *)
(* buffer, which activate_expert_pool has unmapped: a read into it fails   *)
(* and pread_region ignores that, so such a task writes nothing.           *)
(***************************************************************************)
EXTENDS IoPool, Integers, NeuronCache

CONSTANTS
  NumExperts,   \* num_experts_total
  ExpertsUsed,  \* num_experts_used: experts the router picks for a token
  Tensors,      \* fused expert tensors per layer (3, or 2 with GateUp)
  NumSlots,     \* slots of the pool
  Position,     \* expert_permutation: where the model file has each expert
  RouterLimit,  \* intercept_router_output ignores a router with more experts (64)
  SpecLimit,    \* experts of a speculative load (4)
  MaxPasses     \* bound: decode calls

Experts == 0..(NumExperts - 1)

VARIABLES
  pc,        \* where the compute thread is
  layer,     \* the layer it is at
  node,      \* "attention", "router", "experts": the kinds of graph nodes
  current_layer, prev,  \* PrefetchState.current_layer; the callback's local
  selected,  \* selected_experts: {} for a layer not in the map
  warm,      \* layers warm_cache_from_coactivation has still to visit
  passes,    \* decode calls made
  routed,    \* what the router of the layer picked; {} before it has run
  data_ptr,  \* tensor->data of each layer's fused tensors: slots
  speculated, \* history: slices a speculative load marked, not read into a slot since
  layer_slots, free_slots, claim, panicked  \* the ExpertPool

ASSUME ExpertAssumption ==
  /\ Layers \subseteq Nat /\ Layers # {}
  /\ NumExperts \in Nat \ {0}
  /\ Tensors \in Nat \ {0} /\ NumSlots \in Nat /\ Tensors <= NumSlots
  /\ Position \in Bijection(Experts, Experts)
  /\ {ExpertsUsed, RouterLimit, SpecLimit, MaxPasses} \subseteq Nat
  /\ Keys = Layers \X Experts \X (1..Tensors)
  /\ Cells = (0..(NumSlots - 1)) \X Experts
  /\ Data = Layers \X (1..Tensors) \X Experts
  /\ Empty \notin Data
  /\ NoTask \notin [load: Loads, layer: Layers, update_status: BOOLEAN,
                    writes: SUBSET (Cells \X Data)]
  /\ IoFaults \in BOOLEAN

Pool == INSTANCE SlotPool WITH MaxTensors <- Tensors

slotVars == <<layer_slots, free_slots, claim, panicked>>
placeVars == <<layer, node, current_layer, prev, warm, passes>>
expertVars == <<selected, routed, data_ptr, cache, speculated>>
vars == <<poolVars, slotVars, placeVars, expertVars, pc>>

Lowest(S) == CHOOSE l \in S : \A m \in S : l <= m
After(l) == {m \in Layers : m > l}

(* The fused tensors of a layer all point to slot 0 until it is loaded.    *)
Init ==
  /\ PoolInit
  /\ Pool!SlotPoolInit
  /\ NeuronCacheInit
  /\ selected = [l \in Layers |-> {}]
  /\ routed = {}
  /\ speculated = {}
  /\ data_ptr = [l \in Layers |-> [t \in 1..Tensors |-> 0]]
  /\ layer = Lowest(Layers) /\ node = "attention"
  /\ current_layer = -1 /\ prev = -1
  /\ passes = 0
  /\ warm \in {{}, Layers}
  /\ pc = "warm"

-----------------------------------------------------------------------------
(* The cache and a list of slices, under one lock of neuron_cache.         *)

(* Every tensor's slice of each expert, expert by expert.                  *)
SlicesByExpert(l, ids) ==
  LET order == Ascending(ids)
  IN [i \in 1..(Len(order) * Tensors) |->
        <<l, order[((i - 1) \div Tensors) + 1], ((i - 1) % Tensors) + 1>>]

(* Every expert's slice of each tensor, tensor by tensor.                  *)
SlicesByTensor(l, ids) ==
  LET order == Ascending(ids)
  IN [i \in 1..(Len(order) * Tensors) |->
        <<l, order[((i - 1) % Len(order)) + 1], ((i - 1) \div Len(order)) + 1>>]

IsCached(slice) == slice \in cache.entries

(* The check of ensure_experts_loaded looks slices up until one misses.    *)
HitsBeforeMiss(l, ids) ==
  LET slices == SlicesByExpert(l, ids)
      misses == {i \in DOMAIN slices : ~IsCached(slices[i])}
  IN IF misses = {} THEN slices ELSE SubSeq(slices, 1, Lowest(misses) - 1)

(* A look at each slice in turn: is_loaded promotes a cached slice; any    *)
(* other is read and, before anything is submitted, marked loaded, and the *)
(* key it evicts is dropped.                                               *)
LookAt(load, slice) ==
  IF slice \in load.cache.entries
    THEN [load EXCEPT !.cache = LookedUp(@, slice)]
    ELSE [load EXCEPT !.cache = Marked(@, slice), !.reads = @ \cup {slice}]

LookedAt(slices) ==
  LET seen[i \in 0..Len(slices)] ==
        IF i = 0 THEN [cache |-> cache, reads |-> {}] ELSE LookAt(seen[i - 1], slices[i])
  IN seen[Len(slices)]

AfterCheck(l, ids) == LookedAt(HitsBeforeMiss(l, ids)).cache
Load(l, ids) == LookedAt(SlicesByTensor(l, ids))

(* One task for each tensor with something to read; writes gives what      *)
(* reading a slice writes.                                                 *)
TasksFor(c, l, update, reads, writes) ==
  LET toRead == Retained([t \in 1..Tensors |-> t], {r[3] : r \in reads})
  IN [i \in DOMAIN toRead |->
        Task(c, l, update, UNION {writes[r] : r \in {s \in reads : s[3] = toRead[i]}})]

(* slot_offsets[i] + mapped_eid * expert_stride                            *)
InPool(reads) ==
  [r \in reads |-> {<< <<layer_slots[r[1]][r[3]], Position[r[2]]>>, <<r[1], r[3], r[2]>> >>}]

(* buffer_base + ...: the loading buffer is unmapped.                      *)
InLoadingBuffer(reads) == [r \in reads |-> {}]

-----------------------------------------------------------------------------
(* warm_cache_from_coactivation: with data from earlier runs, each layer's *)
(* most frequent experts become its selection and are loaded.  The counts  *)
(* are not modelled: any experts may be the most frequent.                 *)
Warming == passes = 0

Warm ==
  /\ pc = "warm"
  /\ \E l \in warm, top \in SUBSET Experts :
       /\ Cardinality(top) <= ExpertsUsed
       /\ warm' = warm \ {l}
       /\ IF top = {}
            THEN UNCHANGED <<selected, layer, pc>>
            ELSE /\ selected' = [selected EXCEPT ![l] = top]
                 /\ layer' = l
                 /\ pc' = "ask"
  /\ UNCHANGED <<poolVars, slotVars, node, current_layer, prev, passes, routed, data_ptr, cache,
                 speculated>>

(* A decode, of the prompt first and then of each generated token.         *)
StartPass ==
  /\ pc = "boundary" \/ (pc = "warm" /\ warm = {})
  /\ passes < MaxPasses
  /\ passes' = passes + 1
  /\ layer' = Lowest(Layers) /\ node' = "attention" /\ routed' = {}
  /\ pc' = "ask"
  /\ UNCHANGED <<poolVars, slotVars, current_layer, prev, warm, selected, data_ptr, cache, speculated>>

Finish ==
  /\ pc = "boundary"
  /\ pc' = "stop"
  /\ UNCHANGED <<poolVars, slotVars, placeVars, expertVars>>

-----------------------------------------------------------------------------
(* ensure_experts_loaded of the layer's selection, in pool mode.           *)
Chosen == selected[layer]
Return == IF Warming THEN "warm" ELSE "compute"
AllCached == \A e \in Chosen, t \in 1..Tensors : IsCached(<<layer, e, t>>)

(* rewrite_tensor_ptrs_for_layer: only if the layer has slots.             *)
AskHit ==
  /\ pc = "ask" /\ Chosen # {} /\ AllCached
  /\ cache' = AfterCheck(layer, Chosen)
  /\ data_ptr' = IF layer_slots[layer] = <<>> THEN data_ptr
                 ELSE [data_ptr EXCEPT ![layer] = layer_slots[layer]]
  /\ pc' = Return
  /\ UNCHANGED <<poolVars, slotVars, placeVars, selected, routed, speculated>>

(* Mutant: only the cache entries of later layers are dropped.             *)
ReclaimedBehind == {l \in After(layer) : layer_slots[l] # <<>> /\ Len(free_slots) < Tensors}

(* "Evict old layer's neuron cache entries if pool reclaims slots."        *)
Reclaimed ==
  {l \in Layers : l # layer /\ layer_slots[l] # <<>> /\ Len(free_slots) < Tensors}

(* evict_layer of each of them; it does not matter which comes first.      *)
WithoutLayers(c, gone) ==
  [c EXCEPT !.entries = {k \in @ : k[1] \notin gone},
            !.lru_order = Retained(@, {k \in Keys : k[1] \notin gone})]

AskMiss ==
  /\ pc = "ask" /\ Chosen # {} /\ ~AllCached
  /\ cache' = WithoutLayers(AfterCheck(layer, Chosen), Reclaimed)
  /\ IF layer_slots[layer] = <<>>
       THEN Pool!BeginAllocate(layer, Tensors) /\ pc' = "allocate"
       ELSE pc' = "submit" /\ UNCHANGED slotVars
  /\ UNCHANGED <<poolVars, placeVars, selected, routed, data_ptr, speculated>>

(* allocate_layer; a layer it evicts has its pages released.               *)
Allocate ==
  /\ pc = "allocate"
  /\ Pool!AllocateStep
  /\ mem' = [c \in Cells |->
       IF \E l \in Layers \ {claim.layer} : /\ layer_slots'[l] # layer_slots[l]
                                            /\ \E t \in 1..Tensors : layer_slots[l][t] = c[1]
         THEN Empty ELSE mem[c]]
  /\ pc' = IF claim' = Pool!NoClaim THEN "submit" ELSE pc
  /\ UNCHANGED <<layer_status, parked, pool_open, chan, remaining, worker, placeVars, expertVars>>

(* load_experts_pooled: rewrite the pointers, mark the slices, set Loading *)
(* ... (its early return for a load of nothing is never taken: the check   *)
(* has found a slice missing, and nothing has marked it since).            *)
Mark ==
  /\ pc = "submit"
  /\ data_ptr' = [data_ptr EXCEPT ![layer] = layer_slots[layer]]
  /\ layer_status' = [layer_status EXCEPT ![layer] = "Loading"]
  /\ pc' = "send"
  /\ UNCHANGED <<parked, pool_open, chan, remaining, worker, mem, slotVars, placeVars,
                 selected, routed, cache, speculated>>

(* ... and send.  Marking is done here, in the same step as the sends that *)
(* use its result: no other thread looks at the cache.                     *)
SendExperts ==
  /\ pc = "send"
  /\ LET load == Load(layer, Chosen)
     IN /\ cache' = load.cache
        /\ speculated' = speculated \ load.reads
        /\ Send(FreshLoad, TasksFor(FreshLoad, layer, TRUE, load.reads, InPool(load.reads)))
  /\ pc' = "await"
  /\ UNCHANGED <<layer_status, parked, pool_open, worker, mem, slotVars, placeVars,
                 selected, routed, data_ptr>>

(* No selection: the prediction made from no experts is always empty, so   *)
(* ensure_layer_loaded reads the whole layer, in one chunk for each worker,*)
(* into buffer_base.                                                       *)
AskCold ==
  /\ pc = "ask" /\ Chosen = {}
  /\ IF layer_status[layer] = "NotLoaded"
       THEN /\ layer_status' = [layer_status EXCEPT ![layer] = "Loading"]
            /\ pc' = "send_all"
       ELSE pc' = "await" /\ UNCHANGED layer_status
  /\ UNCHANGED <<parked, pool_open, chan, remaining, worker, mem, slotVars, placeVars, expertVars>>

Chunks ==
  LET size == (Tensors + Cardinality(Workers) - 1) \div Cardinality(Workers)
  IN (Tensors + size - 1) \div size

SendAll ==
  /\ pc = "send_all"
  /\ Send(FreshLoad, [i \in 1..Chunks |-> Task(FreshLoad, layer, TRUE, {})])
  /\ pc' = "await"
  /\ UNCHANGED <<layer_status, parked, pool_open, worker, mem, slotVars, placeVars, expertVars>>

(* The wait on layer_notify both paths end in.                             *)
Await ==
  /\ pc = "await" /\ ~parked
  /\ IF layer_status[layer] = "Loaded"
       THEN pc' = Return /\ UNCHANGED parked
       ELSE parked' = TRUE /\ UNCHANGED pc
  /\ UNCHANGED <<layer_status, pool_open, chan, remaining, worker, mem, slotVars, placeVars,
                 expertVars>>

-----------------------------------------------------------------------------
(* The node itself.  The router picks ExpertsUsed experts for each token   *)
(* of the batch.                                                           *)
Compute ==
  /\ pc = "compute"
  /\ IF node = "router"
       THEN \E picked \in SUBSET Experts :
              Cardinality(picked) >= ExpertsUsed /\ routed' = picked
       ELSE UNCHANGED routed
  /\ pc' = "post"
  /\ UNCHANGED <<poolVars, slotVars, placeVars, selected, data_ptr, cache, speculated>>

InterceptUnless(kept) ==
  /\ pc = "post" /\ node = "router"
  /\ selected' = IF kept THEN selected ELSE [selected EXCEPT ![layer] = routed]
  /\ pc' = "advance"
  /\ UNCHANGED <<poolVars, slotVars, placeVars, routed, data_ptr, cache, speculated>>

(* Mutant: a selection is stored once and kept.                            *)
InterceptOnce == InterceptUnless(selected[layer] # {})

(* ask = false of ffn_moe_argsort: intercept_router_output, then return.   *)
Intercept == InterceptUnless(NumExperts > RouterLimit)

(* The experts of a speculative load: the selection, then the predicted    *)
(* ones, cut off at SpecLimit.  The counts are not modelled: the matrix    *)
(* may predict any experts.                                                *)
Speculations ==
  {p \in SUBSET Experts : /\ Cardinality(p) <= SpecLimit
                          /\ \/ Chosen \subseteq p
                             \/ p \subseteq Chosen /\ Cardinality(p) = SpecLimit}

(* The next expert layer, if it is at most three layers ahead.             *)
SpeculationTargets == {l \in After(layer) : l <= layer + 3 /\ l = Lowest(After(layer))}

(* submit_expert_load: marked like any load, read into buffer_base, never  *)
(* waited for.                                                             *)
Speculate(l, ids) ==
  LET load == Load(l, ids)
  IN /\ cache' = load.cache
     /\ speculated' = speculated \cup load.reads
     /\ IF load.reads = {}
          THEN UNCHANGED <<chan, remaining>>
          ELSE Send(FreshLoad, TasksFor(FreshLoad, l, FALSE, load.reads, InLoadingBuffer(load.reads)))

(* ask = false of any other node: swap current_layer, speculate if the     *)
(* layer has a selection ...                                               *)
Post ==
  /\ pc = "post" /\ node # "router"
  /\ prev' = current_layer
  /\ current_layer' = layer
  /\ IF Chosen = {} \/ SpeculationTargets = {}
       THEN UNCHANGED <<chan, remaining, cache, speculated>>
       ELSE \E l \in SpeculationTargets, ids \in Speculations : Speculate(l, ids)
  /\ pc' = "reset"
  /\ UNCHANGED <<layer_status, parked, pool_open, worker, mem, slotVars, layer, node, warm,
                 passes, selected, routed, data_ptr>>

(* ... then "reset layer status to NotLoaded so next token can re-load".   *)
Reset ==
  /\ pc = "reset"
  /\ layer_status' = IF prev >= 0 /\ prev < layer
                       THEN [layer_status EXCEPT ![prev] = "NotLoaded"] ELSE layer_status
  /\ pc' = "advance"
  /\ UNCHANGED <<parked, pool_open, chan, remaining, worker, mem, slotVars, placeVars, expertVars>>

Advance ==
  /\ pc = "advance"
  /\ IF node # "experts"
       THEN /\ node' = IF node = "attention" THEN "router" ELSE "experts"
            /\ pc' = "ask"
            /\ UNCHANGED <<layer, routed>>
       ELSE /\ routed' = {}
            /\ IF After(layer) # {}
                 THEN layer' = Lowest(After(layer)) /\ node' = "attention" /\ pc' = "ask"
                 ELSE pc' = "boundary" /\ UNCHANGED <<layer, node>>
  /\ UNCHANGED <<poolVars, slotVars, current_layer, prev, warm, passes, selected, data_ptr,
                 cache, speculated>>

-----------------------------------------------------------------------------
Stop ==
  /\ pc = "stop"
  /\ CloseChannel
  /\ pc' = "join"
  /\ UNCHANGED <<slotVars, placeVars, expertVars>>

Join ==
  /\ pc = "join"
  /\ AllExited
  /\ pc' = "done"
  /\ UNCHANGED <<poolVars, slotVars, placeVars, expertVars>>

Terminated == pc = "done" /\ UNCHANGED vars

ComputeThread ==
  \/ Warm \/ StartPass \/ Finish
  \/ AskHit \/ AskMiss \/ Allocate \/ Mark \/ SendExperts \/ AskCold \/ SendAll \/ Await
  \/ Compute \/ Intercept \/ Post \/ Reset \/ Advance
  \/ Stop \/ Join

IoThread(w) == Work(w) /\ UNCHANGED <<slotVars, placeVars, expertVars, pc>>

Next == ComputeThread \/ (\E w \in Workers : IoThread(w)) \/ Terminated

(* Threads are scheduled by the operating system: none is starved.         *)
Fairness == WF_vars(ComputeThread) /\ \A w \in Workers : WF_vars(IoThread(w))

Spec == Init /\ [][Next]_vars
FairSpec == Spec /\ Fairness

-----------------------------------------------------------------------------
(* Properties *)

(* llama.cpp computes expert e from position e of the tensor.              *)
Reads(e, t) == mem[<<data_ptr[layer][t], e>>]

(* "Router interception identifies selected experts in the eval callback,  *)
(* then loads only the needed expert strides": when the expert node of a   *)
(* layer is computed, each expert the router has just picked is read from  *)
(* memory that holds that expert.                                          *)
RoutedExpertsPresent ==
  pc = "compute" /\ node = "experts" =>
    \A e \in routed, t \in 1..Tensors : Reads(e, t) = <<layer, t, e>>

(* "When a cache hit occurs, no I/O is needed - the data is already in     *)
(* place": a slice the check of ensure_experts_loaded finds in the cache   *)
(* is in the layer's slot.                                                 *)
HitMeansPresent ==
  pc = "ask" =>
    \A slice \in cache.entries : slice[1] = layer /\ slice[2] \in Chosen =>
      /\ layer_slots[layer] # <<>>
      /\ mem[<<layer_slots[layer][slice[3]], Position[slice[2]]>>] = <<layer, slice[3], slice[2]>>

(* What is left of both claims when the next layer has experts too: a hit  *)
(* that is not in place is a slice some speculative load has marked and no *)
(* load of ensure_experts_loaded has read since.  No eviction, reclaimed   *)
(* slot or late read is a second way to miss one.                          *)
OnlySpeculationMisleads ==
  pc = "ask" =>
    \A slice \in cache.entries \ speculated : slice[1] = layer /\ slice[2] \in Chosen =>
      /\ layer_slots[layer] # <<>>
      /\ mem[<<layer_slots[layer][slice[3]], Position[slice[2]]>>] = <<layer, slice[3], slice[2]>>

(* And when the expert node is computed, what the router has just picked   *)
(* (up to RouterLimit experts) is the selection, and each expert of the    *)
(* selection is where the model file's order puts it, or was speculated.   *)
OnlySpeculatedAreMissing ==
  pc = "compute" /\ node = "experts" =>
    /\ NumExperts <= RouterLimit => routed \subseteq Chosen
    /\ \A e \in Chosen, t \in 1..Tensors :
         \/ <<layer, e, t>> \in speculated
         \/ mem[<<data_ptr[layer][t], Position[e]>>] = <<layer, t, e>>

(* "update_status: true so completion triggers LayerStatus::Loaded": when   *)
(* the forward pass goes on, nothing it waited for is still to be read,    *)
(* whatever speculative loads of the same layer finish meanwhile.          *)
WaitedForAll ==
  pc = "compute" =>
    /\ \A i \in 1..Len(chan) : ~chan[i].update_status
    /\ \A w \in Workers : Held(w) => ~worker[w].task.update_status

(* Every generation ends: no wait for experts and no join lasts forever.   *)
Terminates == <>(pc = "done")
=============================================================================
