----------------------------- MODULE LayerLoader -----------------------------
(***************************************************************************)
(* Standard NVMe streaming: whole layers are read into the posix_memalign  *)
(* buffer at fixed offsets, ahead of the forward pass, and released behind *)
(* it.  One compute thread runs load_model / generate_from_loaded (or      *)
(* generate_with_nvme_scheduling), whose forward passes call eval_callback *)
(* before (ask) and after every graph node; the I/O workers run beside it. *)
(*                                                                         *)
(* A layer's regions are split into NumParts[l] chunks, one IoPoolTask     *)
(* each (submit_layer_load); NumParts[l] = 0 is a layer with no tensor in  *)
(* the buffer.  The Arc<IoCompletion> of a load is named after its layer:  *)
(* OneLoadPerLayer below is the claim that makes this sound.               *)
(* Expert-aware loads (selected_experts) are not in this module.           *)
(***************************************************************************)
EXTENDS IoPool, Integers, SequencesExt, Lists

CONSTANTS
  NumLayers,      \* PrefetchState.num_layers
  NumParts,       \* chunks submit_layer_load makes of a layer's regions
  NvmeLayers,     \* PrefetchState.nvme_layers
  NodesPerLayer,  \* bound: graph nodes per layer
  Lookaheads,     \* values adaptive_lookahead can return
  Residencies,    \* the modes load_model may decide on (see residency)
  MaxPasses       \* bound: decode calls

PartsOf(l) == {<<l, i>> : i \in 1..NumParts[l]}

ASSUME LoaderAssumption ==
  /\ NumLayers \in Nat \ {0}
  /\ Layers = 0..(NumLayers - 1)
  /\ NumParts \in [Layers -> Nat]
  /\ NvmeLayers \subseteq Layers
  /\ NodesPerLayer \in Nat \ {0}
  /\ Lookaheads \subseteq 2..8 /\ Lookaheads # {}
  /\ Residencies \subseteq {"streaming", "resident", "preloaded"}
  /\ Residencies # {}
  /\ MaxPasses \in Nat
  /\ Workers # {}  \* num_io_workers: 2 to 4
  /\ Loads = Layers
  /\ Cells = UNION {PartsOf(l) : l \in Layers}
  /\ Data = Cells
  /\ Empty \notin Data
  /\ IoFaults \in BOOLEAN
  /\ NoTask \notin [load: Loads, layer: Layers, update_status: BOOLEAN,
                    writes: SUBSET (Cells \X Data)]

VARIABLES
  residency,      \* "streaming", or keep_resident ("resident": the NVMe spill
                  \* fits, the callback is disabled), with should_preload
                  \* ("preloaded": the RAM layers are read at the start)
  pc,             \* where the compute thread is
  layer, node,    \* the graph node it is at
  current_layer,  \* PrefetchState.current_layer
  prev,           \* the local of eval_callback
  todo,           \* layers still to pass to request_prefetch, or to wait for
  ret,            \* where the prefetch loop returns to
  passes          \* decode calls made

loaderVars == <<residency, pc, layer, node, current_layer, prev, todo, ret, passes>>
vars == <<poolVars, loaderVars>>

PCs == {"preload_wait", "boundary", "prefetch", "prefetch_submit", "ask", "submit",
        "await", "compute", "post", "release", "unload", "advance",
        "stop", "join", "done"}

(* A completion counter never goes below zero (remaining is an AtomicUsize), *)
(* and every task and list of layers names layers that exist.              *)
TypeOK ==
  /\ layer_status \in [Layers -> LayerStatus]
  /\ parked \in BOOLEAN
  /\ pool_open \in BOOLEAN
  /\ chan \in Seq([load: Loads, layer: Layers, update_status: BOOLEAN,
                   writes: SUBSET (Cells \X Data)])
  /\ remaining \in [Loads -> Nat]
  /\ worker \in [Workers ->
       [pc: {"idle", "reading", "counting", "publishing", "exited"},
        task: [load: Loads, layer: Layers, update_status: BOOLEAN,
               writes: SUBSET (Cells \X Data)] \cup {NoTask}]]
  /\ mem \in [Cells -> Data \cup {Empty}]
  /\ residency \in Residencies
  /\ pc \in PCs
  /\ layer \in Layers
  /\ node \in 1..NodesPerLayer
  /\ current_layer \in Layers \cup {-1}
  /\ prev \in Layers \cup {-1}
  /\ todo \in Seq(Layers)
  /\ ret \in {"preload_wait", "boundary", "ask", "advance"}
  /\ passes \in 0..MaxPasses

(* sorted_nvme_layers *)
SortedNvme == Ascending(NvmeLayers)
RamLayers == {l \in Layers : NumParts[l] > 0 /\ l \notin NvmeLayers}

(* start_io_pool has run.  With should_preload, preload_ram_layers         *)
(* requests every RAM layer, in the order the HashMap gives its keys.      *)
Init ==
  /\ PoolInit
  /\ residency \in Residencies
  /\ layer = 0 /\ node = 1
  /\ current_layer = -1 /\ prev = -1
  /\ passes = 0
  /\ pc = "prefetch"
  /\ IF residency = "preloaded"
       THEN todo \in SetToSeqs(RamLayers) /\ ret = "preload_wait"
       ELSE todo = SortedNvme /\ ret = "boundary"

-----------------------------------------------------------------------------
(* submit_layer_load, after the caller has set Loading. *)
LoadTasks(l) ==
  [i \in 1..NumParts[l] |-> Task(l, l, TRUE, {<< <<l, i>>, <<l, i>> >>})]

SubmitLayerLoad(l) ==
  IF NumParts[l] = 0 \/ ~pool_open
    THEN /\ PublishLoaded(l)
         /\ UNCHANGED <<pool_open, chan, remaining, worker, mem>>
    ELSE /\ Send(l, LoadTasks(l))
         /\ UNCHANGED <<layer_status, parked, pool_open, worker, mem>>

SetLoading(l) ==
  /\ layer_status' = [layer_status EXCEPT ![l] = "Loading"]
  /\ UNCHANGED <<parked, pool_open, chan, remaining, worker, mem>>

(* The compute thread goes to sleep in layer_notify.wait. *)
Park ==
  /\ parked' = TRUE
  /\ UNCHANGED <<layer_status, pool_open, chan, remaining, worker, mem, loaderVars>>

RequestUnless(skipped) ==
  LET l == Head(todo)
  IN /\ pc = "prefetch"
     /\ todo # <<>>
     /\ IF layer_status[l] \in skipped
          THEN /\ todo' = Tail(todo)
               /\ UNCHANGED <<pc, poolVars>>
          ELSE /\ SetLoading(l)
               /\ pc' = "prefetch_submit"
               /\ UNCHANGED todo
     /\ UNCHANGED <<layer, node, current_layer, prev, ret, passes>>

(* Mutant: a layer already Loading is submitted again. *)
RequestAgain == RequestUnless({"Loaded"})

(* request_prefetch(Layer(l)) for the layers of todo, in order. *)
RequestPrefetch == RequestUnless({"Loaded", "Loading"})

PrefetchSubmit ==
  /\ pc = "prefetch_submit"
  /\ SubmitLayerLoad(Head(todo))
  /\ todo' = Tail(todo)
  /\ pc' = "prefetch"
  /\ UNCHANGED <<layer, node, current_layer, prev, ret, passes>>

(* preload_ram_layers goes on to wait for the same layers.                 *)
PrefetchDone ==
  /\ pc = "prefetch"
  /\ todo = <<>>
  /\ pc' = ret
  /\ todo' = IF ret = "preload_wait" THEN SetToSeq(RamLayers) ELSE <<>>
  /\ UNCHANGED <<poolVars, layer, node, current_layer, prev, ret, passes>>

PreloadUntil(ready) ==
  /\ pc = "preload_wait"
  /\ ~parked
  /\ IF todo = <<>>
       THEN /\ todo' = SortedNvme
            /\ pc' = "prefetch"
            /\ ret' = "boundary"
            /\ UNCHANGED <<poolVars, layer, node, current_layer, prev, passes>>
       ELSE IF layer_status[Head(todo)] \in ready
         THEN /\ todo' = Tail(todo)
              /\ UNCHANGED <<poolVars, pc, layer, node, current_layer, prev, ret, passes>>
         ELSE Park

(* Mutant: does not wait for a layer that is Loading. *)
PreloadImpatient == PreloadUntil({"Loaded", "Loading"})

(* The second loop of preload_ram_layers; prefetch_all_nvme follows it.    *)
PreloadWait == PreloadUntil({"Loaded"})

-----------------------------------------------------------------------------
(* The generation loop: a prompt chunk is decoded at once, a generated     *)
(* token after prefetch_all_nvme, unless the model is kept resident.       *)
StartPass ==
  /\ pc = "boundary"
  /\ passes < MaxPasses
  /\ passes' = passes + 1
  /\ layer' = 0 /\ node' = 1
  /\ \E prompt \in BOOLEAN :
       IF prompt \/ residency # "streaming"
         THEN pc' = "ask" /\ UNCHANGED <<todo, ret>>
         ELSE pc' = "prefetch" /\ todo' = SortedNvme /\ ret' = "ask"
  /\ UNCHANGED <<poolVars, current_layer, prev>>

(* End of sequence, the receiver is gone, or max_tokens.                   *)
Finish ==
  /\ pc = "boundary"
  /\ pc' = "stop"
  /\ UNCHANGED <<poolVars, layer, node, current_layer, prev, todo, ret, passes>>

-----------------------------------------------------------------------------
(* eval_callback returns at once when prefetch_enabled is off, and for a   *)
(* node whose layer has no region.                                         *)
CallbackOn(l) == residency = "streaming" /\ NumParts[l] > 0

(* Mutant: a layer that is Loading is taken for Loaded. *)
AskImpatient ==
  /\ pc = "ask"
  /\ IF CallbackOn(layer) /\ layer_status[layer] = "NotLoaded"
       THEN SetLoading(layer) /\ pc' = "submit"
       ELSE UNCHANGED poolVars /\ pc' = "compute"
  /\ UNCHANGED <<layer, node, current_layer, prev, todo, ret, passes>>

(* ask = true: ensure_layer_loaded. *)
Ask ==
  /\ pc = "ask"
  /\ ~parked
  /\ IF CallbackOn(layer) /\ layer_status[layer] = "Loading"
       THEN Park
       ELSE /\ IF CallbackOn(layer) /\ layer_status[layer] = "NotLoaded"
                 THEN SetLoading(layer) /\ pc' = "submit"
                 ELSE UNCHANGED poolVars /\ pc' = "compute"
            /\ UNCHANGED <<layer, node, current_layer, prev, todo, ret, passes>>

Submit ==
  /\ pc = "submit"
  /\ SubmitLayerLoad(layer)
  /\ pc' = "await"
  /\ UNCHANGED <<layer, node, current_layer, prev, todo, ret, passes>>

Await ==
  /\ pc = "await"
  /\ ~parked
  /\ IF layer_status[layer] = "Loaded"
       THEN /\ pc' = "compute"
            /\ UNCHANGED <<poolVars, layer, node, current_layer, prev, todo, ret, passes>>
       ELSE Park

(* llama.cpp computes the node between the two callbacks. *)
Compute ==
  /\ pc = "compute"
  /\ pc' = IF CallbackOn(layer) THEN "post" ELSE "advance"
  /\ UNCHANGED <<poolVars, layer, node, current_layer, prev, todo, ret, passes>>

(* ask = false: current_layer.swap; act only when the layer moved forward. *)
Post ==
  /\ pc = "post"
  /\ prev' = current_layer
  /\ current_layer' = layer
  /\ pc' = IF current_layer >= 0 /\ current_layer < layer THEN "release" ELSE "advance"
  /\ UNCHANGED <<poolVars, layer, node, todo, ret, passes>>

ReleaseOf(l) ==
  /\ pc = "release"
  /\ mem' = [c \in Cells |-> IF l \in NvmeLayers /\ c \in PartsOf(l)
                               THEN Empty ELSE mem[c]]
  /\ pc' = "unload"
  /\ UNCHANGED <<layer_status, parked, pool_open, chan, remaining, worker,
                 layer, node, current_layer, prev, todo, ret, passes>>

(* Mutant: releases the layer it moved to instead of the one it left. *)
ReleaseCurrent == ReleaseOf(layer)

(* release_layer: MADV_FREE the pages first ...                            *)
Release == ReleaseOf(prev)

(* for lookahead in 2..=lookahead_max *)
Targets(lookahead_max) ==
  Ascending({t \in NvmeLayers : layer + 2 <= t /\ t <= layer + lookahead_max})

(* ... then the status; a layer without regions is left as it was.  The    *)
(* callback goes on to prefetch ahead.                                     *)
Unload ==
  /\ pc = "unload"
  /\ layer_status' = IF prev \in NvmeLayers /\ NumParts[prev] > 0
                       THEN [layer_status EXCEPT ![prev] = "NotLoaded"]
                       ELSE layer_status
  /\ \E lookahead_max \in Lookaheads : todo' = Targets(lookahead_max)
  /\ ret' = "advance"
  /\ pc' = "prefetch"
  /\ UNCHANGED <<parked, pool_open, chan, remaining, worker, mem,
                 layer, node, current_layer, prev, passes>>

Advance ==
  /\ pc = "advance"
  /\ IF node < NodesPerLayer
       THEN node' = node + 1 /\ pc' = "ask" /\ UNCHANGED layer
       ELSE IF layer + 1 < NumLayers
         THEN node' = 1 /\ layer' = layer + 1 /\ pc' = "ask"
         ELSE pc' = "boundary" /\ UNCHANGED <<layer, node>>
  /\ UNCHANGED <<poolVars, current_layer, prev, todo, ret, passes>>

-----------------------------------------------------------------------------
(* stop_io_pool: IoPool::drop closes the channel and joins the workers.    *)
Stop ==
  /\ pc = "stop"
  /\ CloseChannel
  /\ pc' = "join"
  /\ UNCHANGED <<layer, node, current_layer, prev, todo, ret, passes>>

Join ==
  /\ pc = "join"
  /\ AllExited
  /\ pc' = "done"
  /\ UNCHANGED <<poolVars, layer, node, current_layer, prev, todo, ret, passes>>

Terminated == pc = "done" /\ UNCHANGED vars

ComputeThread ==
  /\ \/ RequestPrefetch \/ PrefetchSubmit \/ PrefetchDone \/ PreloadWait
     \/ StartPass \/ Finish
     \/ Ask \/ Submit \/ Await \/ Compute \/ Post \/ Release \/ Unload \/ Advance
     \/ Stop \/ Join
  /\ UNCHANGED residency

IoThread(w) == Work(w) /\ UNCHANGED loaderVars

Next == ComputeThread \/ (\E w \in Workers : IoThread(w)) \/ Terminated

(* Threads are scheduled by the operating system: none is starved.         *)
Fairness == WF_vars(ComputeThread) /\ \A w \in Workers : WF_vars(IoThread(w))

Spec == Init /\ [][Next]_vars
FairSpec == Spec /\ Fairness

-----------------------------------------------------------------------------
(* Properties *)

Present(l) == \A c \in PartsOf(l) : mem[c] = c

(* The forward pass is inside a layer the callback manages: the layer's    *)
(* first node was let through and its last node is not done.               *)
Inside ==
  /\ CallbackOn(layer)
  /\ \/ pc \in {"compute", "post", "release", "unload", "advance"}
     \/ pc \in {"prefetch", "prefetch_submit"} /\ ret = "advance"
     \/ pc = "ask" /\ node > 1

(* ensure_layer_loaded: whenever the forward pass is inside a layer, every *)
(* chunk of the layer's data is in the buffer, though the layer may have   *)
(* been requested by a prefetch, released a pass ago and read by several   *)
(* workers in any order.                                                   *)
InsideMeansPresent == Inside => Present(layer)

(* LayerStatus::Loading is what keeps a second load of a layer from being  *)
(* submitted while tasks of an earlier one are queued or being read.       *)
OneLoadPerLayer ==
  /\ pc = "submit" => IdleLoad(layer)
  /\ pc = "prefetch_submit" => IdleLoad(Head(todo))

(* release_layer frees the pages of a layer only when the forward pass is  *)
(* past it and no worker can still read into it.                           *)
ReleaseIsQuiet ==
  [][\A l \in Layers :
       (\E c \in PartsOf(l) : mem[c] # Empty /\ mem'[c] = Empty)
         => l # layer /\ IdleLoad(l) /\ layer_status[l] = "Loaded"]_vars

(* preload_ram_layers returns only when every RAM layer is in the buffer.  *)
Preloaded ==
  residency = "preloaded" /\ passes > 0 => \A l \in RamLayers : Present(l)

(* stop_io_pool returns after the channel is drained and the workers are   *)
(* gone: nothing touches the buffer afterwards and nothing stays Loading.  *)
StoppedIsDrained ==
  pc = "done" => /\ chan = <<>>
                 /\ \A l \in Layers : layer_status[l] # "Loading" /\ remaining[l] = 0
                 /\ \A w \in Workers : worker[w].pc = "exited"

(* Every generation ends: no wait for a layer and no join lasts forever.   *)
Terminates == <>(pc = "done")

(* The loader implements the abstract layer store.                         *)
Resident == {l \in Layers : NumParts[l] > 0 /\ Present(l)}
None == -1
Store == INSTANCE LayerStore WITH
  resident <- Resident, using <- IF Inside THEN layer ELSE None
StoreSpec == Store!Spec
=============================================================================
