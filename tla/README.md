# A TLA+ model of hypura

Hypura runs language models that do not fit in memory: part of the weights
stays on NVMe and is read into memory while llama.cpp computes. Wrong
synchronisation shows up as garbage tokens, not as an error. This directory
models the machinery that decides *when which bytes are where*, what the
program keeps between its runs, how it plans for a machine and how it serves
requests; it checks the models with TLC on small instances and proves with
TLAPS most of the safety properties those runs check; liveness is left to TLC.

Paths below are relative to `src/src/` unless they start with `src/`.

## 1. Inventory

| Part | Where | State | Operations | What makes it hard |
|---|---|---|---|---|
| I/O pool | `compute/nvme_backend.rs` 46–234 | task channel, workers, `IoCompletion.remaining` | `IoPool::new`, `io_worker`, `pread_region`, `drop` | several workers finish one load in any order; shutdown with work queued |
| Layer loader | `nvme_backend.rs` 273–737, 2356–2491; `compute/inference.rs` | `layer_status`, `layer_notify`, the buffer, `current_layer` | `request_prefetch`, `ensure_layer_loaded`, `release_layer`, `preload_ram_layers`, `prefetch_all_nvme`, `eval_callback`, the token loop | prefetch, wait and release of one layer race with its reads |
| Slot allocator | `nvme_backend.rs` 1657–1731 (`ExpertPool`) | `layer_slots`, `free_slots` | `allocate_layer`, `release_layer` | eviction inside an allocation |
| Dense FFN-streaming | `nvme_backend.rs` 1061–1413, 2494–2560; `inference.rs` 800–1098 | the above, `tensor->data` | `ensure_dense_ffn_loaded`, `prefetch_dense_ffn`, the callback, the token loop | eviction and release against reads in flight; pointers against slots |
| MoE expert streaming | `nvme_backend.rs` 474–545, 742–1058, 1417–1477, 2431–2485, 2563–2728 | `selected_experts`, neuron cache, pool | `ensure_experts_loaded`, `load_experts_pooled`, `submit_expert_load`, router interception | speculative reads; a cache that is marked before data arrives; router output of an earlier token |
| Neuron cache | `cache/neuron_cache.rs` | LRU queue, entries, counters | `is_loaded`, `mark_loaded`, `evict_layer` | consistency of the two structures at capacity |
| Co-activation matrix | `cache/coactivation.rs`, `nvme_backend.rs` 1417–1453, 1633–1655, 2026–2040 | counters, in memory and on disk | `record`, `record_cross_layer`, `warm_cache_from_coactivation`, `predict_*`, `save`, `load` | saved in place, on drop only |
| KV cache manager | `cache/kv_cache.rs`, `inference.rs` 867–1116 | position, interval counter; llama.cpp's cells | `set_position`, `advance`, `check_and_compact` | looks at the cache every 256 tokens only |
| Expert layout, `hypura optimize` | `io/expert_layout.rs`, `cli/optimize.rs`, `nvme_backend.rs` 1908–1939 | reordered file, sidecar permutation | order, copy, reorder, sidecar, inversion | position against expert; two files written one after the other, in place |
| Placement, GPU budget | `scheduler/*.rs`, `inference.rs` 107–185, 370–488, 597–960, `nvme_backend.rs` 2234–2337 | none (pure) | tier capacities, five strategies, offload count, overrides, residency, pool size | each stage repeats the arithmetic of another with its own constants; saturation |
| Server | `server/*.rs`, `cli/serve.rs`, `inference.rs` 250–370 | model mutex, token, result and response channels | generate/chat handlers, streamed or collected | disconnects, errors, panics, slow clients |
| NVMe prefetcher | `io/async_reader.rs` | two channels | `submit`, `recv`, reader task | a request that never gets a result |
| Profile and commands | `profiler/mod.rs`, `cli/run.rs`, `cli/profile.rs` | `hardware_profile.json` | save, load, stale; `run`, `profile` | a file half written by a command that was killed |
| Model file, measurements, telemetry, other commands, bindings, C shim | `model/`, `profiler/`, `telemetry/`, `cli/`, `compute/ffi.rs`, `src/hypura-sys/` | – | parsing, measuring, printing, glue | not modelled: formats, hardware and text, hardly any control |

How they interact: one *compute thread* (the CLI's blocking task or the server's
`spawn_blocking` holding the model mutex) runs the token loop. Inside
`ctx.decode`, llama.cpp calls `eval_callback` on that same thread before
(`ask`) and after every graph node. The callback uses the loader for the mode
in force; the loaders share one `PrefetchState` with the 2–4 I/O workers. The
workers only take tasks from the channel, write memory, count the completion
and set `layer_status`. Before that, placement has decided from the model file
and the hardware profile which tensors go where and which mode applies; after
it, dropping `PrefetchState` saves the co-activation counts, from which the next
run warms its cache and `hypura optimize` lays out the experts. In the server,
every request's blocking closure takes the model's mutex, generates, and feeds
a token channel that an async task empties towards the client.

Correctness, per part:

- I/O pool: a completion counter is exact; exactly one task of a load
  publishes it; shutdown drains the channel.
- Layer loader: data is present while a layer is computed; no layer is loaded
  twice at once; pages are released only when nobody reads or fills them; no
  wait is in vain.
- Slot allocator: slots are neither shared nor lost; an allocation that fits
  the pool succeeds.
- Dense FFN-streaming: FFN nodes read the right tensor; the layer being
  computed keeps its slots; a layer that is `Loaded` has slots.
- Expert streaming: a cache hit means the data is there; the experts the
  router chose are the ones loaded.
- Neuron cache: entries and queue hold the same keys, at most `capacity`.
- KV cache: fewer positions than prompt or window plus an interval; never
  without the ones still hot.
- Layout: the slice read for expert *e* is expert *e*; a completed optimize loses
  no expert, and a killed one spoils one tensor at most.
- Co-activation: counts are symmetric; a save includes what was saved before,
  unless a save of it was killed.
- Placement: no tier exceeds its budget; what one stage decides, the next can
  carry out; the run fits the machine.
- Server: each response ends; one generation at a time; tokens arrive whole and
  in order; counts mean success; a client cannot hold the model.

## 2. Modules

| Module | Models | Uses |
|---|---|---|
| `IoPool` | channel, workers, completion counters, `layer_status`, condition variable, memory | – |
| `LayerStore` | abstract: what layer streaming promises | – |
| `Lists` | `Vec::sort` and `retain` (operators) | – |
| `Lists_proofs` | lemmas about them, and about lists in general | extends `Lists` |
| `LayerLoader` | standard streaming and keep-resident mode, from `start_io_pool` to `stop_io_pool` | extends `IoPool`, `Lists`; implements `LayerStore` |
| `LayerLoader_proofs` | theorems about `LayerLoader` | extends `LayerLoader`, `Lists_proofs` |
| `MCLayerLoader` | instances of it | extends `LayerLoader` |
| `SlotPool` | `ExpertPool` | – |
| `SlotPool_proofs` | theorems about `SlotPool` | extends `SlotPool` |
| `NeuronCache` | `NeuronCache` | extends `Lists` |
| `NeuronCacheAge` | `NeuronCache` with a history variable (order of use) | extends `NeuronCache` |
| `MCNeuronCache` | an instance of it | extends `NeuronCacheAge` |
| `ExpertStream` | MoE expert-streaming (pool mode) | extends `IoPool`, `NeuronCache`, instantiates `SlotPool` |
| `ExpertStream_proofs` | theorems about `NeuronCacheAge` and `ExpertStream` | extends both and `Lists_proofs`, instantiates `SlotPool_proofs` |
| `MCExpertStream` | instances of it | extends `ExpertStream` |
| `DenseFfn` | dense FFN-streaming | extends `IoPool`, `Lists`, instantiates `SlotPool` |
| `DenseFfn_proofs` | theorems about `DenseFfn` | extends `DenseFfn`, `Lists_proofs`, instantiates `SlotPool_proofs` |
| `MCDenseFfn` | instances of it | extends `DenseFfn` |
| `KvCache` | `KvCacheManager` and the cells of one generation | – |
| `CoActivation` | the matrix and what is made of it: warm selection, expert order (operators) | – |
| `Session` | files on disk, and `profile`, `run`, `optimize` one after another, killed anywhere | extends `KvCache`, `CoActivation`, `Lists` |
| `Session_proofs` | theorems about `KvCache` and `Session` | extends `Session`, `Lists_proofs` |
| `MCSession` | an instance of it | extends `Session` |
| `Placement` | from tensor sizes and a machine to tiers, offload, overrides, residency and pool | – |
| `Placement_proofs` | theorems about `Placement` | extends `Placement`, `Lists_proofs` |
| `MCPlacement` | models and machines for it | extends `Placement` |
| `Server` | requests on the shared model, with worker, task and client | – |
| `Server_proofs` | theorems about `Server` | extends `Server` |
| `MCServer` | an instance of it | extends `Server` |

### State and actions against the code

*Atomicity.* A step is what happens between two points where another thread
can act: a lock is taken, a message is sent or received, a `pread` or an atomic
operation happens. `request_prefetch` is two steps (status under its lock, then
the sends under the pool lock), `release_layer` two (`madvise`, then status),
one task in a worker four (receive, read, `fetch_sub`, publish). Sends of one
load are one step because the `io_pool` lock is held over them. `allocate_layer`
runs under the pool lock; its loop is nevertheless one iteration a step in
`SlotPool`, which lets the proofs speak about the middle of an allocation.

*Memory.* A cell is the destination of one task (a chunk of a layer's regions,
or a slot). Its content is the datum last read into it, or `Empty` after
`MADV_FREE` (the kernel may or may not have reclaimed the page; `Empty` stands
for "must not be relied on"). File offsets, sizes and bytes are not modelled.

*The forward pass.* `layer` and `node` walk through the graph in order;
`Ask`, `Compute`, `Post` are the callback before a node, the node, and the
callback after it. `NodesPerLayer` = 2 distinguishes the first node (which waits
or loads) from the last (which in `DenseFfn` is the one that reads the FFN).

*The condition variable.* `parked` is true while the compute thread sleeps in
`layer_notify.wait`; `notify_all` clears it; the sleeper then looks at the
status again. There is one sleeper because there is one compute thread
(`SAFETY` comment at `inference.rs:75`).

*Identities of loads.* `Arc<IoCompletion>` is a name from `Loads`. In
`LayerLoader` it is the layer's index, which is sound because of
`OneLoadPerLayer` (checked). In `DenseFfn` and `ExpertStream`, where one layer
may have several loads at once, it is any name no live task uses.

*Experts.* In `ExpertStream` a slot has a position for each expert, a cell is
`<<slot, position>>`, a datum `<<layer, tensor, expert>>`. A node is of one of
three kinds: before the router, the router (its `ask = false` is intercepted and
returns), the expert matrix products. The router may pick any experts, a
co-activation prediction may be any set (its counters are not modelled); the
prediction a cold start asks for is made from no experts, which always yields
none, so it is not an alternative there. `buffer_base` points to the loading
buffer, which `activate_expert_pool` unmaps: a task that reads into it writes
nothing (`pread` fails, `pread_region` ignores it). Layers without expert
tensors are skipped, because the callback returns at once for them. Marking
slices in the cache and sending their reads are one step: only the compute
thread looks at the cache.

*A generation's cache.* `KvCache` holds the positions `lo .. hi-1`: prompts are
decoded in batches and nothing is removed until the first token is sampled, so
what is removed is always a prefix. The manager exists if the plan has a warm
window (`Managed`). `Sample` is one loop iteration up to the decode, with the
`advance` in it; the token sampled is counted before it is decoded, which is why
`WindowKept` reads `hi + 1`.

*Files.* In `Session` one command runs at a time. A file is absent, torn or
whole: `std::fs::write` and `copy` write in place, so a save is two steps, and
`Kill` may come between any two. What a torn JSON file does is what its reader
does: the sidecar and the counts fall back to their defaults, the profile is an
error. A torn model file is refused by the loader. Reordering rewrites one tensor
at a time inside a file that loads all along, so it is two steps per tensor:
`BeginReorder` has written the experts before some position, at that position the
old expert, the new one or a mixture of both (`Cut`), and none after it;
`EndReorder` has written all. A kill between them leaves the tensor so, with one
expert twice and another nowhere. What is written stays in the order it was
written: the page cache survives a kill, and a loss of power is not modelled. Two
histories tell what became of a file: `optimized`, the files a complete optimize
has made, and `cutSaves`, those whose last save of counts was killed (such a save
truncates first and so loses all counts before it). File `f + 1` is
`<stem>.optimized` of file `f`. A run is in expert-streaming mode, whose graph
walk (`AfterNode`) records the selections. A generation that ends saves the
counts when the state is dropped; the error of a full cache does not, because
the raw `Arc` handed to the callback is never reclaimed.

*Selections* are sets: the code sorts and deduplicates them. Scores and orders
are the code's, ties included (`max_by_key` takes the last of equals).

*Sizes.* In `Placement` they are tenths of a GiB and contexts units of 1024
tokens. What is computed in floating point is not: the LP solver may return any
placement its constraints admit, the greedy search any of its cutoffs that fits.
A model is uniform over its layers, as the real ones nearly are. The stages are
the actions (`Place...`, `Offload`, `Load...`), so that every later stage sees
any answer of the earlier.

*Requests.* In `Server` a request has a worker (`spawn_blocking`'s closure), a
task (the streaming task, or the handler that collects) and a client. The
closure's locals are dropped before its captures: the mutex is given back
before the sender of the result goes. `result` holds the counts, or
`NoCounts` when the sender went without sending. `/api/generate` and `/api/chat`
share the control, so one set of actions stands for both. Tokens are numbered
per request; text and templates are left out.

*Server and CLI.* `LayerLoader` covers both: a server request is a sequence of
passes with `current_layer` and the statuses carried over from the request
before; `residency` is what `load_model` decided on once. The request's initial
`prefetch_all_nvme` is the `prompt = FALSE` branch of `StartPass`; in
keep-resident mode it finds every layer Loaded or Loading and does nothing, so
it is left out there.

## 3. Runs

| Run | Bounds | Shows |
|---|---|---|
| `layer_loader` | 6 layers (3 NVMe of 2, 2 and 3 chunks, two RAM, one without regions), every residency, 2 workers, lookahead 2 or 3, 2 passes | the loader's invariants, preload, `ReleaseIsQuiet`, refinement of `LayerStore`, termination |
| `slot_pool` | 5 slots, 3 layers, allocations of 1–3 slots | no slot shared or lost, no exhaustion |
| `dense_ffn` | 4 layers, one resident, a slot for each of the others, 2 passes | right weights, though layers are loaded twice: always in the first pass, in the second until a layer is released with a load under way |
| `dense_ffn_evict` | 3 layers of 2 tensors, 4 slots, 1 pass | exact counters, no wait in vain and termination under eviction |
| `dense_ffn_stale` | 3 layers, 3 slots, 2 passes | violation: a late completion revives a released layer |
| `neuron_cache` | two layers of three slices, room for three | map and queue agree, capacity, least recently used first |
| `expert_stream` | layers 0, 4, 8 of two tensors and two experts, slots for two layers, cache for 5 of 12 slices, 2 passes | the routed experts are in place, termination |
| `expert_stream_near` | layers 0 and 1 of two tensors and two experts in another order, speculation on, 3 slots (one layer), cache for 5 of 8 slices, 2 passes | no wait ends early; only slices a speculative load has marked are missed |
| `expert_stream_spec` | layers 0 and 1, one tensor | violation: a hit on a slice read elsewhere |
| `placement` | 12 models, machines of 4 to 256 GiB, contexts of 4096, 8192 and 16384 tokens | every strategy's plan fits, the offload count and the overrides cover the schedule, dense streaming leaves memory to the system |
| `session` | 2 layers of 3 experts, 3 fused tensors, 2 generations of up to 2 tokens, context of 6, optimize in between | counts are kept unless a save of them is killed, experts are found, a killed optimize spoils one tensor at most, the profile is fresh, window and bound of the KV cache |
| `server` | 2 requests of up to 2 tokens, a response channel of 1 | mutual exclusion, tokens in order, true counts, everybody answered, model returned |

Why the bounds are enough: two workers suffice for every order of the tasks of
one load and of two loads; two passes are the least that release, reload and
meet the last layer of a pass at the start of the next; lookahead 2..3 gives
both a target inside the model and one past its end; three layers on two layers'
slots is the least that evicts. `RightWeights` itself fails in the second pass
(`dense_ffn_stale`), and in one pass when layers are evicted in flight.
`dense_ffn` shows that it holds in the first pass with a slot for every layer
(`FirstPassIsRight`); `HeldSlotsAreRight`, checked there over two passes and
proved for any pool, says what the failures need: a layer that
loses its slots while a load of it is under way (the history variable
`overtaken`, set where an allocation evicts a layer and where the callback
releases one), or that is computed without slots. The run reaches FFN nodes of
the second pass with duplicate loads of Loaded layers and `overtaken` still
`FALSE`. The
`Loads` of the dense instances (8 names) are more than can be alive at once; TLC
would stop with an error if they ran out. In `expert_stream` the layers are four
apart, so that none is a target of speculation (the code looks three layers
ahead); this is the shape for which the mode keeps what it promises: with closer
layers, the usual ones, `expert_stream_spec` fails. What is left of the promise
there is checked in `expert_stream_near`: the history variable `speculated`
holds the slices a speculative load has marked and no load of a selection has
read since, and no others are missed. Its file is in another order, its three
slots leave one over after a layer's two, so that allocations evict with slots
still free. In `expert_stream` slots for two of three layers and the wrap from
the last layer to the first make every allocation evict; the cache is smaller
than what one pass touches, so its entries go both by capacity and by reclaimed
layers. The code's capacity is at least 16 and its pool at least 6 slots; both
scale with the model, and what matters is that they are less than everything.

In `session` three experts are the least for which a permutation and its inverse
differ; two generations are the least in which one reads what another saved, or
runs an optimized model; the prompts are one token, a whole batch and one that
leaves no room, so that the context fills before, at and after the window. The
interval (2; 256 in the code) is less than the window, as in the code. In
`placement` each strategy applies to some deployment and is refused for some
other by each of its conditions that matters (`MCPlacement` says which model
stands for what); its runs end, so deadlock is not checked. In `server` a
channel of one chunk is the least that blocks, two requests the least of which
one waits; `num_predict` 0 and 2 give an empty answer and one that is longer
than the channel.

Bounds in the modules: `MaxPasses` (decode calls), `NodesPerLayer`,
`NodesBefore`, `NodesAfter`, `Routings`, `MaxRuns`, `Prompts`, `Limits`,
`RouterLimit` and `SpecLimit` (64 and 4 in the code), `Lookaheads` (the code
clamps its float computation to 2..8; any value of the constant may come out at
each call). `IoFaults` lets a `pread` fail; it is `FALSE` in every run: with it
the code publishes the layer all the same (see below), and the counting
invariants' instances become too large to finish.

*Fairness.* Weak fairness of the compute thread and of every I/O worker: the
operating system schedules all threads, `pread` returns, and the mutexes are
held over bounded work only. Nothing assumes that an I/O worker prefers a task or
that a notified thread wakes before another step. In `Server`, weak fairness of
each request's worker and task: the blocking pool has far more threads than
there are requests, and tokio polls a task that was woken. A worker that waits
for the mutex needs no more than that, because the runs have no stream of
requests that could overtake it for ever. Nothing is assumed of clients; `Answered`
carries the premise that this one goes on reading.

### Findings

1. `ensure_dense_ffn_loaded` loads a layer again while its prefetch is in
   flight. Both loads write the same bytes to the same slots, so as long as the
   layer keeps its slots this does no harm (`HeldSlotsAreRight`). But the second
   completion may arrive after the layer was released; the next pass believes it
   Loaded (`dense_ffn_stale`).
2. In expert-streaming mode a speculative load marks slices in the cache and
   reads them into the unmapped loading buffer; a later hit on them loads
   nothing (`expert_stream_spec`).

Seen while modelling, in the models but without a run of their own:

- `pread_region` gives up silently on an error or a short read, and the layer
  still becomes Loaded (`IoFaults`).
- From the second pass on, the last layer's slots are still held when the pass
  starts; the lookahead may then evict the layer being computed, because the
  layer called `oldest` is the one with the lowest index. Its status stays
  Loaded.
- On a pool smaller than the four warm-up layers, the warm-up evicts layers
  whose loads are in flight and which then become Loaded without slots.
- After `hypura optimize`, `load_experts_pooled` puts an expert at its file
  position, where the graph looks for the expert of that number (`Position`).
  `ExpertsFound` is about the file: the right bytes are read, to that place.
- The cold start of expert-streaming (`nvme_backend.rs` 2593) reads into the
  unmapped buffer, which the load after the router's choice makes good; the
  prediction before it is asked for with no experts, so there never is one.
- A router with more than 64 experts (`nvme_backend.rs` 2691) is ignored, so
  that its layer is computed from slot 0.
- The selections recorded are those a layer has at each of its nodes: before
  the router that is the previous token's, or the warm selection, which so
  counts itself; `record_cross_layer` mostly relates a layer to itself.
- A killed optimize leaves an `.optimized` file that loads, with no sidecar or
  with an older one, and with one tensor half rewritten if it was killed inside
  a write (`NoExpertLost` allows this tensor and no other); optimizing an
  optimized file composes nothing, and its experts are not found (`ExpertsFound`
  fails with a third file and a third generation).
- A kill inside the save of the counts loses those of all earlier generations
  (`KeepsHistory` excepts just that).
- A torn `hardware_profile.json` makes `run` and `serve` fail until
  `hypura profile` replaces it.
- A full KV cache ends the command without saving the counts; the server never
  drops its `PrefetchState`, so it saves none at all.
- A prompt longer than the window stays whole until the first compaction: the
  documented bound (the window) is exceeded by the prompt and an interval.
- The pool that expert-streaming is chosen for (1.5 GiB) is not the pool it
  gets; keep-resident mode counts a fixed 2.5 GiB for a KV cache of any size;
  the plan clamps the context to the model's, the run does not. Hence the
  premises of `DenseStreamingFits`, and no such property for MoE models.
- `MemoryBudget` does not count the tensors planned for RAM, which end on Metal
  all the same. With dense streaming the plan's own check (the resident part and
  six slots fit the GPU) covers up to 1.5 GiB of them; more than that comes out
  of the 3 GiB reserved for the system. The same check adds 1 GiB of Metal
  overhead to the GPU budget, from which it was subtracted, unless that budget is
  zero: then 1 GiB is missing. Both were found while proving `DenseStreamingFits`,
  which says what is left; the models `Edge` and `Slight` reach them.

## 4. Theorems

### `SlotPool_proofs`

For every set of layers (natural numbers), every
number of slots and every `MaxTensors` in `1..NumSlots` (`SlotPoolAssumption`:
one layer's tensors fit in the pool; otherwise the `expect` does fire).

- `TypeCorrect`: `SlotPoolTypeOK` is inductive by itself. The one fact that is
  not immediate is that `Oldest` exists: a non-empty set of naturals has a
  least element, taken from the well-foundedness of `<`.
- `SlotsNotShared`: `NoSlotShared` quantifies over pairs of places;
  `SharedByPlace` splits it into statements about the free stack, the claim and
  the layers, which a step changes by moving the last element of one sequence
  to another (`MoveLast`) or by concatenation (`ConcatDistinct`).
- `SlotsNotLost`: not inductive alone. The strengthening `ClaimIsApart` says
  that the claim is empty when no allocation runs, and that the layer being
  allocated has no slots yet; otherwise the end of an allocation could
  overwrite slots.
- `PoolNeverExhausted`: if an allocation finds the stack empty and nobody to
  evict, all slots are in its claim (`SlotsNotLost`); the claim would then map
  `1..n` onto `NumSlots` slots with `n < NumSlots`, against
  `FS_Surjection`.

### `LayerLoader_proofs`

For every number of layers, chunks per layer, nodes, passes and workers (at least
one), every lookahead the code can compute and every residency
(`LoaderAssumption`).

The invariant `IInv` follows one chunk of one layer from the channel into a
worker's hands. None of the checked properties is inductive; each needs its
neighbours:

- `TasksAreParts` and `OneTaskPerPart`: every live task reads one chunk, and no
  two the same. This is what makes a layer's index a good name for its load.
- `Counted` and `LastPublishes`: the counter is the number of chunks waiting,
  being read or about to be counted; who sees zero is alone. They hold each
  other up: a second publisher would need a chunk that was counted twice.
- `LoadingIsLive`: a layer is Loading exactly from the decision to load it
  until its last chunk publishes. It is what rules out a second submission
  (`OneLoad`) and shows that a release, which only a Loaded layer gets, is quiet
  (`QuietRelease`).
- `PoolState`: the channel is open as long as the evaluator may send, and who
  has left it left it empty (`StopDrains`).
- `Flow` and `Preloading`: what the evaluator knows at each of its steps; above
  all that the layer it left, and the one it is in, are Loaded.

`TypeCorrect`, `OneLoad`, `StopDrains`, `QuietRelease` and `RemainingExact`
follow from `IInv` with or without failing reads. The rest assumes
`~IoFaults`, because a read that fails leaves its chunk unread and the layer
Loaded all the same:

- `PresentInside` and `PreloadedPresent`: `MemInv` says that a chunk of a layer
  under way is in memory or still to be read, and that a Loaded layer is all in
  memory, except between the two steps of a release.
- `ImplementsStore`: the refinement of `LayerStore`. Memory changes only by a
  release of the evaluator or the read of one worker
  (`OnlyReadsAndReleasesTouchMemory`), the store's `Evict` and `Load`; that no
  layer in use is evicted and none entered that is not there is what `Flow`
  and `MemInv` say.

### `DenseFfn_proofs`

For every number of layers, resident layers, slots, tensors per layer (which fit
in the pool) and nodes (`DenseAssumption`).

- `UsesSlotPool`: every step of `DenseFfn` is a step of `SlotPool` or leaves its
  variables alone, so that the theorems of `SlotPool_proofs`
  hold of the pool in use. `PoolInv` is what this needs of the caller:
  `ThreadTyped` and `SlotsWhole`, an allocation runs exactly while the thread is
  in one, for the layer it loads, which has no slots; every other layer has all
  its slots or none.
- `ExactCounts` and `LoadingComes`: from `IoInv`. One layer may have several
  loads under way, so that the counters are stated load by load
  (`CountsExact`), and a new load must not take the name of one under way:
  every load's tasks are of one layer (`LoadHasLayer`), and a name that no live
  task has exists because live tasks are finitely many (finite `Workers`) and
  names are not (infinite `Loads`: an `Arc` is a new allocation, and memory for
  the next one is taken for granted, as the code does).
- `HeldSlotsStayRight` (`HeldSlotsAreRight`): in addition no read fails. `HeldInv`
  says that the graph points at the slots the layer has (`Pointed`), and, until
  `overtaken`, `MemInv`: a task in flight reads into slots its layer still has
  (`OwnSlots`), what a load has not read it is still to read (`LoadsProgress`),
  hence a layer with slots that is Loaded has its tensors in them, and so has one
  whose load is about to be published (`StatusTrue`). That no two
  layers share a slot (`SlotsNotShared`) is what keeps a read of one from disturbing
  another.

  The number of passes, the size of the pool and the overlap of loads are left
  open; the two premises of the property are where the code fails. A layer that
  loses its slots under a load (`overtaken`) becomes Loaded when the load ends
  (`dense_ffn_stale`), or its load writes to slots another layer has been given: TLC
  finds this in one pass with five layers of one tensor on four slots, where the
  fifth layer gets the slots of the first while the second load of the first is
  still reading. A layer evicted after it was Loaded has no slots and keeps its
  status, so that nothing is loaded when its turn comes. Neither can happen but
  by release or eviction: duplicate loads, stale statuses and the wrap to
  the next pass are harmless by themselves.

### `ExpertStream_proofs`

*The neuron cache by itself*, for every set of slices and every capacity, 0
included. `QueueListsEntries` (`OrderListsEntries`) needs that the queue lists
nothing twice, otherwise `retain` and `pop_front` would differ; `CapacityKept`
counts with it. `OldestGoes` (`EvictsLeastRecent`) relates the queue to a history
variable of `NeuronCacheAge`: `QueuedAsUsed` says that the queue is in the order of
last use, which promotion and `retain` keep (`PromotedFacts`, `RetainedFacts`).

*Expert-streaming*, for any layers, experts, fused tensors, slots for at least one
layer, cache capacity and number of tokens (`ExpertAssumption`). The argument has
four layers, each of which uses the ones before.

- `PoolInv`: where the thread can be, that an allocation runs exactly while the
  thread is at it, and that a layer has all its slots or none. With it
  `ExpertsUseSlotPool` shows that every step is a step of `SlotPool` or leaves the
  slots alone, which imports the pool's theorems: slots are nobody's in common.
- `Sound(cache)`: a whole batch of lookups, marks and evictions keeps what a single
  one keeps (`ExpertCacheQueued`). Batches are walks over `SlicesByTensor`; that
  such a list names every slice once per expert and tensor is arithmetic with
  quotients and remainders (`SlicesFacts`).
- `IoInv`: counters are exact (`ExpertCountsExact`, `RemainingIsExact`); tasks
  that are waited for belong to one load, of the layer the thread is at, and
  exist only while that layer is Loading. Hence `ExpertsWaitedFor`
  (`WaitedForAll`): the status that ends the wait cannot come from a speculative
  load, nor before the last read. It needs finite, non-empty `Workers` (the code
  starts `num_workers().max(1)`) and names for loads that do not run out: an
  `Arc` is a new one every time. The layers may be as near as they like.
- `HitsInv`: a cached slice that was not speculated is in its slot or a queued task
  will read it there (`CacheHeld`), and whatever is queued writes slices where they
  belong, a speculative load nowhere (`WritesRight`). `RoomMade` is the part that
  ties cache, slots and thread: an allocation that has to evict began with a cache
  that had forgotten *every* slice but speculated ones, so it may evict any
  layer. `HitsPresent` (`OnlySpeculationMisleads`) follows: when the check looks,
  no read of a selection is in flight, so what is cached is there.
- `RoutedChosen` and `ChosenHeld` carry that from the router's result to the node
  that computes: `SelectedPresent` (`OnlySpeculatedAreMissing`).

The last two ask for `~IoFaults`, because a failed `pread` is not noticed, besides
what `IoInv` needs. They hold of layers as near as one likes and of reordered files.
The exception they make, `speculated`, is the defect `expert_stream_spec` shows;
they say that it is the only one: the remaining ways to miss a slice
(eviction by capacity or by layer, slots reclaimed, marks before reads, loads that
overlap, the selection of an earlier token) are all covered. Two limits are in the
statement of `OnlySpeculatedAreMissing`: the choice of a router of more than
`RouterLimit` experts is ignored, and an expert is looked for where the
file's order puts it, which for a reordered file is not where the graph addresses
it (see the hazards).

### `Session_proofs`

For every set of model files, layers, experts, fused tensors and routings, and any
number of nodes and runs (`SessionAssumption`, `CoActivationAssumption`,
`KvAssumption`).

The invariant `SessionInv` has four parts. `SessionTyped` is the type of files
and orders. `Working` says which steps belong to which command, and that a run
past its profile has a fresh one (`PlansOnFreshProfile`). `CountsKept` relates
the counts in memory to those on disk: both are consistent, a generation's
include those on disk, and a file of counts is whole, empty or just being
written, both unless a save of it was killed (`CountsStaySymmetric`,
`HistoryKept`). After such a kill `HistoryKept` says nothing of the file until a
save of it is complete. The fourth is `KvInv` (`SessionKeepsWindow`), which a
session has to establish again at every start of a generation.

The properties of the KV cache are about `lo` and `hi`; the manager knows `pos` and
`since`. `KvInv` ties them together: `CountAgrees` (after the prompt, a
managed `pos` is `hi` before a sample and `hi + 1` before a decode) and
`SinceBounds` (there are no more cells in use than the longer of
prompt and window plus the counter, and the counter is below the interval).
Without the first, removing by `pos` says nothing about positions that exist;
without the second, the bound does not survive the steps between two looks.

- `HotWindowStays` (`WindowKept`), `CacheStaysBounded` (`CacheBounded`) and
  `FullNeedsSmallContext` (`FullOnlyBeyond`), of a generation by itself
  (`KvSpec`), follow from `KvInv` state by state; the last, which no run checks,
  because a decode that finds no room has a cache already within one of the bound.
- `ExpertOrderIsShuffle`: `compute_optimal_expert_order` is a permutation, by
  induction over its placements.
- `FindsExperts` adds `LayoutKnown`, which file holds which order: while a
  reorder is under way, which tensors are done (`next`), and what the one being
  written will be (`reordered`); after it, that data and sidecar agree.
  `ExpertsStay` adds `OneLost` to it, that all tensors but the one
  being written, or that was when optimize was killed, are shuffles of the
  experts. Both are proved for a download and its optimized copy (`Files`
  within `{0, 1}`): `FindsExperts` is false when an optimized file is optimized.

### `Placement_proofs`

For every set of models (any numbers of layers and experts, any sizes), machines
and contexts (`PlacementAssumption`: a model has a layer and an embedding).

`PlacementInv` says of each stage what the later ones use: `PlanOf` (the tiers
fit, and which tensors may be on NVMe in which mode), the offload count and the
overrides as functions of the plan, and the pool that was allocated.
It is inductive because nothing that those functions read changes once the model
is placed (`SamePlan`). What it takes is that every strategy keeps `PlanOf`
(`StreamingPlan`, `LpPlan`, `GreedyPlan`), which rests on two facts about sizes:
the bytes of sets without a tensor in common add up (`BytesUnion`), and `Fill`
chooses tensors that fit the room it was given (`FillFits`, by induction on
the sequence).

- `PlanAlwaysFits` is part of `PlanOf`.
- `ScheduledAlwaysOverridden`: in standard streaming the offload count is at most
  the first layer with a tensor on NVMe plus one, so the patterns, which
  start at the count less one, take that layer in (`FromNvmeBound`).
- `OffloadAlwaysFits`: the layers that fit are the first ones
  (`FromCapacityFits`), they all weigh the same (`LayerBytes`), and what stays on
  Metal is within the first `ngl - 1` of them and the embedding.
- `DenseStreamingAlwaysFits`: either the pool is its least of six slots with
  nothing to spare, and the plan's own check has made room for it; or pool and
  resident layers are within what `MemoryBudget` says is available.

### `Server_proofs`

For any set of requests, any channel of at least one chunk and any limits
(`ServerAssumption`).

- `OneGeneration` (`TypeOK`): the mutex is held by a request exactly from
  `lock()` to the drop of the guard, on every way out of the closure, a
  generation never exceeds its limit, and chunks fit their channel. `Inv` adds
  what induction needs: the mutex is free or poisoned exactly when no worker is
  inside (`LockAgrees`, which makes `Unlock` by one the end of all), a streaming
  task holds one token while it sends (`OneInHand`, otherwise a chunk could be
  several), and nothing was done for a request that has not arrived
  (`Untouched`).
- `InOrder` (`TokensInOrder`) and `HonestCounts` (`CountsTrue`): the first is
  about the client and its chunks only, and a token is in five places in turn.
  `FlowInv` says that each place goes on counting where the one before it stopped,
  and that they add up to what was generated (`Flow`), what the task has seen
  when it is where it is (`Stage`: after the result no token comes), and what a
  result may say (`Outcome`). `Flow` is claimed only while the client is there:
  what is dropped when it leaves is seen by nobody.

### `Lists_proofs`

Lemmas the others cite: what `retain` and `sort` return, how many places of a
list hold something, and `Induction`, which states induction over the naturals
for a *set* and so needs no operator as a parameter. With it, what a recursive
function computes is proved by showing first that such a function exists
(`RetainedRecursion`, in `Session_proofs` for the walk of a graph and the
expert order, in `Placement_proofs` for `Fill`).

### What is only model-checked

- `RoutedExpertsPresent` (in `expert_stream`, layers far apart) and
  `FirstPassIsRight`: they hold of few real models, and the theorems state what
  holds of all.
- Liveness (`Terminates` of the loaders and `ExpertStream`, `Answered` and
  `ModelReturned` of `Server`), because it rests on fairness and `ENABLED`, which
  the prover does not support. `LoadingComes` and `RemainingExact` are the
  safety part of the argument that no wait is in vain.
- The two violations, of course.

## 5. Not modelled

Left out of the modelled parts: throughput counters, traces, the failure of
`IoPool::new`, a null `buffer_base` (no generation starts without a buffer), a
`decode` that fails for another reason than a full cache, spurious wake-ups (the
code re-checks in a loop; they only
add stuttering looks at the status), the
branch of `ensure_experts_loaded` without a pool (never taken: the mode starts
with one), the one-off loading of the resident FFN buffer, layers without FFN
tensors in `DenseFfn`, commands that run at the same time on the same files,
and a request that arrives while the server shuts down.

Left out altogether:

- MoE layers in standard streaming: the expert-aware branch of
  `submit_layer_load` and the speculative loads of `eval_callback` in that
  mode. It is the next module to write, as slices of `LayerStore`.
- `NvmePrefetcher` (`io/async_reader.rs`), which only `hypura iobench` uses.
- The GGUF reader, tensor names, chat templates and Ollama types: formats.
- Hardware measurements, the speed estimator and the benchmarks: numbers whose
  correctness is not a matter of control.
- The bindings and the C buffer type: glue around llama.cpp.

What is worth doing next: a proof that in `ExpertStream` a wait is never in vain
(as `LoadingComes` for `DenseFfn`), and the MoE layers of standard streaming.
