------------------------------- MODULE DenseFfn -------------------------------
(***************************************************************************)
(* Dense FFN-streaming: attention and norms stay on the GPU, the FFN       *)
(* tensors of each layer are read into slots of a small pool just before   *)
(* they are used.  The compute thread runs generate_with_nvme_scheduling   *)
(* and, inside each decode, eval_callback_dense_ffn_streaming before (ask) *)
(* and after every graph node; it allocates slots (SlotPool), submits one  *)
(* task per tensor (IoPool) and rewrites tensor->data to the slots.        *)
(*                                                                         *)
(* A cell of memory is a pool slot; the datum <<l, t>> is the t-th FFN     *)
(* tensor of layer l.  A layer's graph nodes are numbered; only the last   *)
(* one reads the FFN tensors (attention comes first).                      *)
(***************************************************************************)
EXTENDS IoPool, Integers, SequencesExt, Lists

CONSTANTS
  NumLayers,      \* PrefetchState.num_layers
  NumSlots,       \* slots of the pool
  Tensors,        \* FFN tensors per layer (gate, up, down: 3)
  NumResident,    \* resident_ffn_layers is the first NumResident layers
  NodesPerLayer,  \* bound: graph nodes per layer
  MaxPasses       \* bound: decode calls

ASSUME DenseAssumption ==
  /\ NumLayers \in Nat \ {0}
  /\ Layers = 0..(NumLayers - 1)
  /\ Tensors \in Nat \ {0}
  /\ NumSlots \in Nat /\ Tensors <= NumSlots
  /\ NumResident \in 0..NumLayers
  /\ NodesPerLayer \in Nat \ {0, 1}
  /\ MaxPasses \in Nat
  /\ Cells = 0..(NumSlots - 1)
  /\ Data = Layers \X (1..Tensors)
  /\ Empty \notin Data
  /\ NoTask \notin [load: Loads, layer: Layers, update_status: BOOLEAN,
                    writes: SUBSET (Cells \X Data)]
  /\ IoFaults \in BOOLEAN

VARIABLES
  pc,             \* where the compute thread is
  layer, node,    \* the graph node it is at
  current_layer,  \* PrefetchState.current_layer
  prev,           \* the local of the callback
  todo,           \* layers to pass to prefetch_dense_ffn
  ret,            \* where the prefetch loop returns to
  passes,         \* decode calls made
  data_ptr,       \* tensor->data of each layer's FFN tensors: slots, or <<>>
  overtaken,      \* history: a layer lost its slots while a load of it was under way
  layer_slots, free_slots, claim, panicked  \* the ExpertPool

Pool == INSTANCE SlotPool WITH MaxTensors <- Tensors

slotVars == <<layer_slots, free_slots, claim, panicked>>
threadVars == <<pc, layer, node, current_layer, prev, todo, ret, passes, data_ptr, overtaken>>
vars == <<poolVars, threadVars, slotVars>>

StreamingLayers == {l \in Layers : l >= NumResident}
Streaming(l) == l \in StreamingLayers

(* Prefetch lookahead = (pool slots / tensors per layer) - 1, at least 1. *)
Lookahead == IF NumSlots \div Tensors >= 2 THEN (NumSlots \div Tensors) - 1 ELSE 1

(* first_streaming..(first_streaming + 4).min(num_layers) *)
WarmUp == Retained([k \in 1..4 |-> NumResident + k - 1], StreamingLayers)

(* The layers of a list neither Loaded nor Loading in the status snapshot. *)
ToPrefetch(list) ==
  Retained(list, {l \in Layers : layer_status[l] = "NotLoaded"})

(* The first decode is preceded by an unconditional prefetch of WarmUp.    *)
Init ==
  /\ PoolInit
  /\ Pool!SlotPoolInit
  /\ data_ptr = [l \in Layers |-> <<>>]
  /\ overtaken = FALSE
  /\ layer = 0 /\ node = 1
  /\ current_layer = -1 /\ prev = -1
  /\ passes = 0
  /\ pc = "prefetch" /\ todo = WarmUp /\ ret = "boundary"

-----------------------------------------------------------------------------
(* The part prefetch_dense_ffn and ensure_dense_ffn_loaded share: allocate *)
(* slots, rewrite the pointers, set Loading, send one task per tensor.     *)
(* ensure comes from "ask" and waits; prefetch comes from "prefetch".      *)
Ensuring == pc \in {"ask_alloc", "ask_mark", "ask_send"}
Target == IF Ensuring THEN layer ELSE Head(todo)

(* A task that reads the layer is queued or in a worker's hands.           *)
Underway(l) ==
  \/ \E k \in 1..Len(chan) : chan[k].layer = l
  \/ \E w \in Workers : worker[w].task # NoTask /\ worker[w].task.layer = l

Allocate ==
  /\ pc \in {"ask_alloc", "prefetch_alloc"}
  /\ Pool!AllocateStep
  /\ LET evicted == {l \in Layers \ {claim.layer} : layer_slots'[l] # layer_slots[l]}
     IN /\ mem' = [s \in Cells |->
               IF \E l \in evicted, i \in 1..Tensors : layer_slots[l][i] = s
                 THEN Empty ELSE mem[s]]
        /\ overtaken' = (overtaken \/ \E l \in evicted : Underway(l))
  /\ pc' = IF claim' # Pool!NoClaim THEN pc
           ELSE IF Ensuring THEN "ask_mark" ELSE "prefetch_mark"
  /\ UNCHANGED <<layer_status, parked, pool_open, chan, remaining, worker,
                 layer, node, current_layer, prev, todo, ret, passes, data_ptr>>

Mark ==
  /\ pc \in {"ask_mark", "prefetch_mark"}
  /\ data_ptr' = [data_ptr EXCEPT ![Target] = layer_slots[Target]]
  /\ layer_status' = [layer_status EXCEPT ![Target] = "Loading"]
  /\ pc' = IF Ensuring THEN "ask_send" ELSE "prefetch_send"
  /\ UNCHANGED <<parked, pool_open, chan, remaining, worker, mem, slotVars,
                 layer, node, current_layer, prev, todo, ret, passes, overtaken>>

LoadTasks(c, l) ==
  [t \in 1..Tensors |-> Task(c, l, TRUE, {<<layer_slots[l][t], <<l, t>>>>})]

SendTasks ==
  /\ pc \in {"ask_send", "prefetch_send"}
  /\ Send(FreshLoad, LoadTasks(FreshLoad, Target))
  /\ pc' = IF Ensuring THEN "await" ELSE "prefetch"
  /\ todo' = IF Ensuring THEN todo ELSE Tail(todo)
  /\ UNCHANGED <<layer_status, parked, pool_open, worker, mem, slotVars,
                 layer, node, current_layer, prev, ret, passes, data_ptr, overtaken>>

(* prefetch_dense_ffn for the next layer of todo; allocate_layer returns   *)
(* the layer's slots if it has any.                                        *)
Prefetch ==
  /\ pc = "prefetch"
  /\ IF todo = <<>>
       THEN pc' = ret /\ UNCHANGED slotVars
       ELSE IF layer_slots[Head(todo)] = <<>>
         THEN Pool!BeginAllocate(Head(todo), Tensors) /\ pc' = "prefetch_alloc"
         ELSE pc' = "prefetch_mark" /\ UNCHANGED slotVars
  /\ UNCHANGED <<poolVars, layer, node, current_layer, prev, todo, ret, passes, data_ptr,
                 overtaken>>

-----------------------------------------------------------------------------
(* The generation loop: a prompt chunk is decoded at once, a generated     *)
(* token after the token-boundary prefetch of WarmUp.                      *)
StartPass ==
  /\ pc = "boundary"
  /\ passes < MaxPasses
  /\ passes' = passes + 1
  /\ layer' = 0 /\ node' = 1
  /\ \E prompt \in BOOLEAN :
       IF passes = 0 \/ prompt
         THEN pc' = "ask" /\ UNCHANGED <<todo, ret>>
         ELSE pc' = "prefetch" /\ todo' = ToPrefetch(WarmUp) /\ ret' = "ask"
  /\ UNCHANGED <<poolVars, slotVars, current_layer, prev, data_ptr, overtaken>>

Finish ==
  /\ pc = "boundary"
  /\ pc' = "stop"
  /\ UNCHANGED <<poolVars, slotVars, layer, node, current_layer, prev,
                 todo, ret, passes, data_ptr, overtaken>>

AskIf(ready) ==
  /\ pc = "ask"
  /\ IF ~Streaming(layer)
       THEN pc' = "compute" /\ UNCHANGED <<slotVars, data_ptr>>
       ELSE IF layer_status[layer] \in ready
         THEN /\ data_ptr' = IF layer_slots[layer] = <<>> THEN data_ptr
                             ELSE [data_ptr EXCEPT ![layer] = layer_slots[layer]]
              /\ pc' = "compute"
              /\ UNCHANGED slotVars
         ELSE /\ IF layer_slots[layer] = <<>>
                   THEN Pool!BeginAllocate(layer, Tensors) /\ pc' = "ask_alloc"
                   ELSE pc' = "ask_mark" /\ UNCHANGED slotVars
              /\ UNCHANGED data_ptr
  /\ UNCHANGED <<poolVars, layer, node, current_layer, prev, todo, ret, passes, overtaken>>

(* Mutant: a layer that is Loading is taken for Loaded. *)
AskImpatient == AskIf({"Loaded", "Loading"})

(* ask = true.  A resident layer's pointers are set to its own buffer.     *)
(* ensure_dense_ffn_loaded: a Loaded layer only has its pointers rewritten *)
(* to the slots it holds, if it holds any; otherwise the layer is loaded,  *)
(* whether or not a load of it is already under way.                       *)
Ask == AskIf({"Loaded"})

Await ==
  /\ pc = "await"
  /\ ~parked
  /\ IF layer_status[layer] = "Loaded"
       THEN pc' = "compute" /\ UNCHANGED parked
       ELSE parked' = TRUE /\ UNCHANGED pc
  /\ UNCHANGED <<layer_status, pool_open, chan, remaining, worker, mem, slotVars,
                 layer, node, current_layer, prev, todo, ret, passes, data_ptr, overtaken>>

Compute ==
  /\ pc = "compute"
  /\ pc' = "post"
  /\ UNCHANGED <<poolVars, slotVars, layer, node, current_layer, prev,
                 todo, ret, passes, data_ptr, overtaken>>

-----------------------------------------------------------------------------
(* ask = false: release the previous streaming layer's slots ...           *)
Post ==
  /\ pc = "post"
  /\ prev' = current_layer
  /\ current_layer' = layer
  /\ IF current_layer >= 0 /\ current_layer < layer /\ Streaming(current_layer)
       THEN /\ Pool!ReleaseSlots(current_layer)
            /\ mem' = [s \in Cells |->
                 IF \E i \in 1..Tensors : /\ layer_slots[current_layer] # <<>>
                                          /\ layer_slots[current_layer][i] = s
                   THEN Empty ELSE mem[s]]
            /\ overtaken' = (overtaken \/ Underway(current_layer))
            /\ pc' = "unload"
       ELSE pc' = "look_ahead" /\ UNCHANGED <<mem, slotVars, overtaken>>
  /\ UNCHANGED <<layer_status, parked, pool_open, chan, remaining, worker,
                 layer, node, todo, ret, passes, data_ptr>>

(* ... then its status ... *)
Unload ==
  /\ pc = "unload"
  /\ layer_status' = [layer_status EXCEPT ![prev] = "NotLoaded"]
  /\ pc' = "look_ahead"
  /\ UNCHANGED <<parked, pool_open, chan, remaining, worker, mem, slotVars,
                 layer, node, current_layer, prev, todo, ret, passes, data_ptr, overtaken>>

(* ... and prefetch the streaming layers ahead that the status snapshot    *)
(* shows neither Loaded nor Loading.                                       *)
LookAhead ==
  /\ pc = "look_ahead"
  /\ todo' = ToPrefetch(Retained([k \in 1..Lookahead |-> layer + k], StreamingLayers))
  /\ ret' = "advance"
  /\ pc' = "prefetch"
  /\ UNCHANGED <<poolVars, slotVars, layer, node, current_layer, prev,
                 passes, data_ptr, overtaken>>

Advance ==
  /\ pc = "advance"
  /\ IF node < NodesPerLayer
       THEN node' = node + 1 /\ pc' = "ask" /\ UNCHANGED layer
       ELSE IF layer + 1 < NumLayers
         THEN node' = 1 /\ layer' = layer + 1 /\ pc' = "ask"
         ELSE pc' = "boundary" /\ UNCHANGED <<layer, node>>
  /\ UNCHANGED <<poolVars, slotVars, current_layer, prev, todo, ret, passes, data_ptr, overtaken>>

-----------------------------------------------------------------------------
Stop ==
  /\ pc = "stop"
  /\ CloseChannel
  /\ pc' = "join"
  /\ UNCHANGED <<slotVars, layer, node, current_layer, prev, todo, ret, passes, data_ptr,
                 overtaken>>

Join ==
  /\ pc = "join"
  /\ AllExited
  /\ pc' = "done"
  /\ UNCHANGED <<poolVars, slotVars, layer, node, current_layer, prev,
                 todo, ret, passes, data_ptr, overtaken>>

Terminated == pc = "done" /\ UNCHANGED vars

ComputeThread ==
  \/ Prefetch \/ Allocate \/ Mark \/ SendTasks
  \/ StartPass \/ Finish
  \/ Ask \/ Await \/ Compute \/ Post \/ Unload \/ LookAhead \/ Advance
  \/ Stop \/ Join

IoThread(w) == Work(w) /\ UNCHANGED <<threadVars, slotVars>>

Next == ComputeThread \/ (\E w \in Workers : IoThread(w)) \/ Terminated

(* Threads are scheduled by the operating system: none is starved.         *)
Fairness == WF_vars(ComputeThread) /\ \A w \in Workers : WF_vars(IoThread(w))

Spec == Init /\ [][Next]_vars
FairSpec == Spec /\ Fairness

-----------------------------------------------------------------------------
(* Properties *)

ComputesFfn == pc = "compute" /\ node = NodesPerLayer /\ Streaming(layer)

(* "Load all dense FFN tensors for a layer into pool slots, blocking until *)
(* complete": when the FFN node of a layer is computed, each of its        *)
(* tensors points to a slot that holds that tensor's data.                 *)
RightWeights ==
  ComputesFfn => /\ Len(data_ptr[layer]) = Tensors
                 /\ \A t \in 1..Tensors : mem[data_ptr[layer][t]] = <<layer, t>>

(* So it is in the first pass on a pool with a slot for every tensor, late *)
(* duplicate loads and all ...                                             *)
FirstPassIsRight == passes <= 1 => RightWeights

(* ... and in every pass on any pool, for a layer that holds slots, until  *)
(* a layer loses its slots (released, or evicted by an allocation) while a *)
(* load of it is still under way.  Nothing else misleads the FFN node: an  *)
(* evicted layer whose status still says Loaded holds no slots.            *)
HeldSlotsAreRight == ~overtaken /\ layer_slots[layer] # <<>> => RightWeights

(* A layer is Loading only while a load of it is about to be sent, has a   *)
(* task queued or in a worker's hands: no wait in ensure_dense_ffn_loaded  *)
(* is in vain, though several loads of one layer may overlap.              *)
LoadingIsUnderway ==
  \A l \in Layers : layer_status[l] = "Loading" =>
    (pc \in {"ask_send", "prefetch_send"} /\ Target = l) \/ Underway(l)

(* Every generation ends: no wait for a layer and no join lasts forever.   *)
Terminates == <>(pc = "done")
=============================================================================
