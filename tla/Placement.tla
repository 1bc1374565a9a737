----------------------------- MODULE Placement -----------------------------
(***************************************************************************)
(* How hypura decides where a model lives: the tier of every tensor, the   *)
(* number of layers llama.cpp offloads, the tensors that go to the NVMe    *)
(* buffer type, and how much of the machine's memory the run then commits. *)
(* Each stage repeats some of the arithmetic of the one before with its    *)
(* own constants, so the properties relate one stage's answer to           *)
(* another's.                                                              *)
(*                                                                         *)
(* Sizes are in tenths of a GiB, contexts in units of 1024 tokens.         *)
(* Latencies and scores with bandwidths in them are floating point: what   *)
(* the LP solver or the greedy search prefers among the placements they    *)
(* may return is left open.                                                *)
(***************************************************************************)
EXTENDS Integers, Sequences, FiniteSets, FiniteSetsExt

CONSTANTS
  Models,       \* layers, experts, used, size of the tensors, kv per unit of context
  Deployments,  \* a model and the ram and vram of the machine it is run on
  Contexts      \* what --context may say

ModelType == [layers : Nat \ {0}, experts : Nat \ {0}, used : Nat \ {0},
              embd : Nat \ {0}, attn : Nat, ffn : Nat, kv : Nat, trained : Nat]
ASSUME PlacementAssumption ==
  /\ \A m \in Models : m \in ModelType /\ m.kv % 2 = 0
  /\ \A d \in Deployments : d.model \in Models /\ {d.ram, d.vram} \subseteq Nat
  /\ Contexts \subseteq Nat \ {0}

OS_OVERHEAD == 20            \* placement.rs: 2 GiB
GPU_RUNTIME_OVERHEAD == 10   \* placement.rs: 1 GiB
METAL_COMPUTE_OVERHEAD == 5  \* types.rs: 512 MiB
OS_RESERVED == 30            \* types.rs: 3 GiB

VARIABLES
  model, machine, context,  \* the file, the hardware profile, --context (0: none)
  entry,                    \* "estimate", "run" or "serve"
  stage,                    \* what is decided so far
  mode,                     \* InferenceMode
  tier,                     \* tier_assignments
  ngl,                      \* n_gpu_layers
  overrides,                \* tensors on the NVMe buffer type
  memory                    \* what the run commits

vars == <<model, machine, context, entry, stage, mode, tier, ngl, overrides, memory>>

-----------------------------------------------------------------------------
(* The model file. *)

NoLayer == -1
Layers == 0 .. (model.layers - 1)
Embedding == <<NoLayer, "embd">>
Tensors == {Embedding} \cup (Layers \X {"attn", "up", "down"})
LayerTensors == Tensors \ {Embedding}
Streamable(t) == t[2] \in {"up", "down"}   \* fused experts of a MoE, FFN of a dense model
SizeOf(t) == CASE t = Embedding -> model.embd
               [] t[2] = "attn" -> model.attn
               [] OTHER -> model.ffn
Bytes(S) ==
  LET ffn == Cardinality({t \in S : Streamable(t)})
      embd == IF Embedding \in S THEN 1 ELSE 0
  IN embd * model.embd + ffn * model.ffn + (Cardinality(S) - ffn - embd) * model.attn
OfTier(x) == {t \in Tensors : tier[t] = x}

IsMoe == model.experts > 1
Less(a, b) == IF a > b THEN a - b ELSE 0          \* saturating_sub
Least(a, b) == IF a < b THEN a ELSE b
Most(a, b) == IF a > b THEN a ELSE b

-----------------------------------------------------------------------------
(* Tier capacities: compute_tier_capacities. *)

PlanContext ==
  IF context > 0 THEN Least(context, Most(model.trained, 2))
                 ELSE Least(Most(model.trained, 2), 8)
KvBytes(ctx) == model.kv * ctx
Headroom == KvBytes(PlanContext)
Usable == Less(machine.ram, OS_OVERHEAD)
GpuBytes == Less(Less(Least(machine.vram, Usable), Headroom), GPU_RUNTIME_OVERHEAD)
RamBytes == Less(Less(Usable, GpuBytes), Headroom)
UnifiedLimit == Less(Usable, Headroom)

\* score_tensors: access frequency times bonus over one plus the size in GiB,
\* compared without the division.
Weight(t) == CASE t = Embedding -> 5 * model.experts
               [] IsMoe /\ Streamable(t) -> model.used
               [] OTHER -> model.experts
ScoresHigher(a, b) == Weight(a) * (10 + SizeOf(b)) > Weight(b) * (10 + SizeOf(a))

\* A sort by score keeps tensors of equal score in the file's order, and all
\* layers are alike: the tensors of a kind follow each other.
StreamingOrder ==
  LET attn == [i \in 1 .. model.layers |-> <<i - 1, "attn">>]
  IN IF ScoresHigher(<<0, "attn">>, Embedding) THEN Append(attn, Embedding)
     ELSE <<Embedding>> \o attn
LayerOrder == IF ScoresHigher(<<0, "up">>, <<0, "attn">>) THEN <<"up", "down", "attn">>
              ELSE <<"attn", "up", "down">>

FillWith(q, room, need) ==
  LET left[i \in 0 .. Len(q)] ==
        IF i = 0 THEN room
        ELSE LET before == left[i - 1]
             IN IF need[q[i]] <= before THEN Less(before, SizeOf(q[i])) ELSE before
  IN {q[i] : i \in {k \in DOMAIN q : need[q[k]] <= left[k - 1]}}

\* Mutant: a tensor goes to the GPU while there is any room.
FillPast(q, room) == FillWith(q, room, [t \in Tensors |-> 1])

\* Each tensor of the sequence to the GPU when it still fits, else to RAM.
Fill(q, room) == FillWith(q, room, [t \in Tensors |-> SizeOf(t)])

\* Resident tensors on the GPU or in RAM, the rest on NVMe.
Split(resident, gpu) ==
  [t \in Tensors |-> IF t \in gpu THEN "gpu" ELSE IF t \in resident THEN "ram" ELSE "nvme"]

-----------------------------------------------------------------------------
(* compute_placement: the streaming modes in order, then the solver. *)

SparseMoeApplies ==
  /\ IsMoe
  /\ 100 * model.used < 15 * model.experts
  /\ (Bytes(Tensors) * model.used) \div model.experts <= (UnifiedLimit * 30) \div 100

Resident == {t \in Tensors : ~Streamable(t)}

\* Mutant: no room asked for a pool.
StreamingAppliesAnyPool(pool) ==
  Bytes(Resident) <= UnifiedLimit /\ Bytes(Tensors) > UnifiedLimit

\* The resident part fits, the whole does not, and the resident part with a
\* pool of this size fits the GPU.
StreamingApplies(pool) ==
  /\ Bytes(Resident) <= UnifiedLimit
  /\ Bytes(Tensors) > UnifiedLimit
  /\ Bytes(Resident) + pool <= GpuBytes + GPU_RUNTIME_OVERHEAD

ExpertStreamingApplies == IsMoe /\ StreamingApplies(15)   \* 1.5 GiB
DenseStreamingApplies == ~IsMoe /\ model.ffn > 0 /\ StreamingApplies(6 * model.ffn)
SolverApplies == ~(SparseMoeApplies \/ ExpertStreamingApplies \/ DenseStreamingApplies)

StreamingTiers == Split(Resident, Fill(StreamingOrder, GpuBytes))

\* What the constraints of lp_assign admit: layers on NVMe whole and only after
\* the resident ones, and the capacities of the tiers.
LpResident == {{t \in LayerTensors : t[1] < c} \cup E : c \in 0 .. model.layers,
                                                      E \in {{}, {Embedding}}}
\* Tensors of a kind are interchangeable among the layers: which of them are on
\* the GPU is counted from the first layer.
LpOnGpu(R) == {E \cup {t \in R \ {Embedding} : t[1] < cut[t[2]]} :
                 E \in SUBSET (R \cap {Embedding}),
                 cut \in [{"attn", "up", "down"} -> 0 .. model.layers]}
LpFits(R, G) ==
  /\ Bytes(G) <= GpuBytes
  /\ Bytes(R \ G) <= RamBytes
  /\ Bytes(R) <= UnifiedLimit

\* greedy_assign: the tensors outside the layers first, then the layers below
\* a cutoff that fits what they leave.
GreedyEmbedding ==
  IF model.embd > UnifiedLimit THEN "nvme"
  ELSE IF model.embd <= GpuBytes THEN "gpu" ELSE "ram"
GreedyTiers ==
  LET gpuLeft == GpuBytes - (IF GreedyEmbedding = "gpu" THEN model.embd ELSE 0)
      unifiedLeft == UnifiedLimit - (IF GreedyEmbedding = "nvme" THEN 0 ELSE model.embd)
      Below(c) == {t \in LayerTensors : t[1] < c}
      Order(c) == [i \in 1 .. (3 * c) |-> <<(i - 1) \div 3, LayerOrder[((i - 1) % 3) + 1]>>]
  IN {[Split(Below(c), Fill(Order(c), gpuLeft)) EXCEPT ![Embedding] = GreedyEmbedding] :
        c \in {k \in 0 .. model.layers : Bytes(Below(k)) <= unifiedLeft}}

SolverMode(tr) == IF \E t \in Tensors : tr[t] = "nvme" THEN "FullStreaming" ELSE "FullResident"

Placed(md, tr) ==
  /\ stage = "new"
  /\ stage' = "placed"
  /\ mode' = md
  /\ tier' = tr
  /\ UNCHANGED <<model, machine, context, entry, ngl, overrides, memory>>

PlaceSparseMoe == stage = "new" /\ SparseMoeApplies /\ Placed("SparseMoeMmap", [t \in Tensors |-> "gpu"])
PlaceExperts ==
  /\ stage = "new" /\ ~SparseMoeApplies /\ ExpertStreamingApplies
  /\ Placed("ExpertStreaming", StreamingTiers)
PlaceDense == stage = "new" /\ DenseStreamingApplies /\ Placed("DenseFfnStreaming", StreamingTiers)
PlaceLp ==
  /\ stage = "new" /\ SolverApplies
  /\ \E R \in LpResident : \E G \in LpOnGpu(R) :
       /\ LpFits(R, G)
       /\ Placed(SolverMode(Split(R, G)), Split(R, G))
PlaceGreedy ==
  /\ stage = "new" /\ SolverApplies
  /\ \E tr \in GreedyTiers : Placed(SolverMode(tr), tr)

\* build_prefetch_schedule: the tensors of a layer to bring in ahead of it.
Schedule == [l \in Layers |-> {t \in OfTier("nvme") : t[1] = l}]

\* compute_kv_cache_plan: whether the KV cache is quantised to eight bits.
KvQ8 ==
  /\ GpuBytes > 0
  /\ Headroom > (GpuBytes * 2) \div 5
  /\ Headroom \div 2 <= GpuBytes \div 4

-----------------------------------------------------------------------------
(* gpu_layers_from_placement and build_override_patterns. *)

Streaming == mode \in {"ExpertStreaming", "DenseFfnStreaming"}

GpuBudget == Less(Less(machine.vram, KvBytes(context)), 20)   \* compute_gpu_budget

Counted == {t \in LayerTensors : ~(Streaming /\ Streamable(t))}
\* Mutant: one layer too many.
FromNvmeOneMore ==
  LET first == {t[1] : t \in {u \in Counted : tier[u] = "nvme"}}
  IN IF first = {} THEN model.layers + 1 ELSE Min(first) + 2

FromNvme ==
  LET first == {t[1] : t \in {u \in Counted : tier[u] = "nvme"}}
  IN IF first = {} THEN model.layers + 1 ELSE Min(first) + 1
CountedOfLayer == Bytes({t \in Counted : t[1] = 0})   \* all layers alike
\* Mutant: the output layer is free.
FromCapacityLayersOnly ==
  1 + Cardinality({l \in Layers : (l + 1) * CountedOfLayer <= GpuBudget})

FromCapacity ==
  1 + Cardinality({l \in Layers :
        model.embd + (l + 1) * CountedOfLayer <= GpuBudget})
GpuLayers ==
  IF mode = "SparseMoeMmap"
  THEN IF Bytes(Tensors) <= GpuBudget THEN model.layers + 1 ELSE 0
  ELSE Least(FromNvme, FromCapacity)

Offload ==
  /\ stage = "placed" /\ entry # "estimate"
  /\ stage' = "offloaded"
  /\ ngl' = GpuLayers
  /\ UNCHANGED <<model, machine, context, entry, mode, tier, overrides, memory>>

HasNvme == OfTier("nvme") # {}
OverridePatterns ==
  IF Streaming THEN OfTier("nvme") ELSE {t \in LayerTensors : t[1] >= Less(ngl, 1)}

\* Without NVMe tensors the plain path loads the model and overrides nothing.
LoadPlain ==
  /\ stage = "offloaded" /\ ~HasNvme
  /\ stage' = "loaded"
  /\ UNCHANGED <<model, machine, context, entry, mode, tier, ngl, overrides, memory>>

-----------------------------------------------------------------------------
(* Loading: residency, pool and resident layers. *)

NvmeBytes == Bytes(OfTier("nvme"))
BufferBytes == Bytes(OfTier("nvme") \cup OfTier("ram"))
OnGpuBytes == Bytes(Tensors) - BufferBytes
EstimatedCommitted == (OnGpuBytes * 60) \div 100 + BufferBytes + 25
KeepResident == NvmeBytes > 0 /\ EstimatedCommitted + NvmeBytes <= Less(machine.ram, 40)
ShouldPreload == KeepResident /\ EstimatedCommitted + NvmeBytes <= Less(machine.ram, 60)
Residency ==
  IF ShouldPreload THEN "preloaded" ELSE IF KeepResident THEN "resident" ELSE "streaming"

\* The standard path of `run`, and the server's whatever the mode.
LoadStandard ==
  /\ stage = "offloaded" /\ HasNvme
  /\ entry = "serve" \/ ~Streaming
  /\ stage' = "loaded"
  /\ overrides' = OverridePatterns
  /\ memory' = [memory EXCEPT !.residency = Residency]
  /\ UNCHANGED <<model, machine, context, entry, mode, tier, ngl>>

\* MemoryBudget::compute for the streaming modes (no mmap: all of it committed).
KvCacheBytes == IF KvQ8 THEN (KvBytes(context) * 53) \div 100 ELSE KvBytes(context)
BaseCommitted == OnGpuBytes + KvCacheBytes + METAL_COMPUTE_OVERHEAD + OS_RESERVED
Available(pool) == Less(machine.ram, BaseCommitted + pool)
Clamp(n, lo, hi) == IF n < lo THEN lo ELSE IF n > hi THEN hi ELSE n
MinSlots == 6
PoolSlots ==
  IF model.ffn = 0 THEN MinSlots
  ELSE Clamp(Available(0) \div model.ffn, MinSlots, IF IsMoe THEN 18 ELSE 24)
Lookahead == Most((PoolSlots \div 3) - 1, 1)

PerLayerFfn == 2 * model.ffn
NumResident == Least(Available(PoolSlots * model.ffn) \div PerLayerFfn, model.layers \div 4)
ActivateResidents ==
  ~IsMoe /\ NumResident >= 4 /\ Available(PoolSlots * model.ffn) > (machine.ram * 75) \div 100

LoadStreaming ==
  /\ stage = "offloaded" /\ entry = "run" /\ Streaming
  /\ stage' = "loaded"
  /\ overrides' = OverridePatterns
  /\ memory' = [residency |-> "pool",
                slots |-> PoolSlots,
                lookahead |-> IF IsMoe THEN 0 ELSE Lookahead,
                residents |-> IF ActivateResidents THEN NumResident ELSE 0]
  /\ UNCHANGED <<model, machine, context, entry, mode, tier, ngl>>

-----------------------------------------------------------------------------
Init ==
  /\ \E d \in Deployments : model = d.model /\ machine = [ram |-> d.ram, vram |-> d.vram]
  /\ \/ entry = "estimate" /\ context = 0
     \/ entry \in {"run", "serve"} /\ context \in Contexts
  /\ stage = "new" /\ mode = "none"
  /\ tier = [t \in Tensors |-> "none"]
  /\ ngl = 0 /\ overrides = {}
  /\ memory = [residency |-> "none", slots |-> 0, lookahead |-> 0, residents |-> 0]

Next ==
  \/ PlaceSparseMoe \/ PlaceExperts \/ PlaceDense \/ PlaceLp \/ PlaceGreedy
  \/ Offload \/ LoadPlain \/ LoadStandard \/ LoadStreaming

Spec == Init /\ [][Next]_vars

-----------------------------------------------------------------------------
\* Whichever of the five strategies placed the model, what it put on the GPU
\* and in RAM fits the tiers. (Sparse MoE leaves paging to the OS.)
PlanFits ==
  mode \notin {"none", "SparseMoeMmap"} =>
    LET gpu == Bytes(OfTier("gpu"))
    IN gpu <= GpuBytes /\ gpu + Bytes(OfTier("ram")) <= UnifiedLimit

\* What the prefetch schedule brings in ahead of a layer has a place in the
\* NVMe buffer: the offload count never keeps such a tensor on Metal.
ScheduledIsOverridden ==
  stage = "loaded" => \A l \in Layers : Schedule[l] \subseteq overrides

OnMetal == {t \in Tensors \ overrides : t[1] < ngl - 1}

\* What the loaded model leaves on Metal fits the working set that is left by
\* the KV cache of the context the user asked for.
OffloadFits ==
  stage = "loaded" /\ ngl > 1 => Bytes(OnMetal) <= GpuBudget

PoolBytes == memory.slots * model.ffn
ResidentBytes == memory.residents * PerLayerFfn

Committed ==
  Bytes(Tensors \ overrides) + KvCacheBytes + METAL_COMPUTE_OVERHEAD + PoolBytes + ResidentBytes

\* Dense FFN streaming commits the pool whatever the budget says is available
\* (six slots at least), and the budget does not count the tensors planned for
\* RAM, which end on Metal too. Weights, KV cache, pool and resident layers still
\* leave the system 1.5 GiB, when the context is one the plan did not clamp: the
\* plan's own check of a pool of six makes up for both. It does so for no more
\* than 1.5 GiB planned for RAM, and where the GPU has no budget 1 GiB is missing:
\* the check adds GPU_RUNTIME_OVERHEAD to a budget it was never taken from.
DenseStreamingFits ==
  memory.residency = "pool" /\ mode = "DenseFfnStreaming" /\ context = PlanContext =>
    Committed + (IF GpuBytes > 0 THEN 15 ELSE 5)
      <= machine.ram + Less(Bytes(OfTier("ram")), 15)
=============================================================================
