--------------------------- MODULE DenseFfn_proofs ---------------------------
(***************************************************************************)
(* Theorems about dense FFN-streaming (DenseFfn).                          *)
(*                                                                         *)
(* The slot pool is used as SlotPool says it may be (UsesSlotPool), so the *)
(* theorems of SlotPool_proofs hold of it: PP is that module over          *)
(* DenseFfn's variables.  The counters of IoPool are exact (ExactCounts)   *)
(* and a layer that is Loading has a load under way (LoadingComes), for    *)
(* any number of layers, slots, tensors and passes, with a finite number   *)
(* of I/O workers and load identities (Arc addresses) that do not run out. *)
(* The graph computes a layer that has slots with the right weights, until *)
(* a layer loses its slots while a load of it is under way                 *)
(* (HeldSlotsStayRight).                                                   *)
(***************************************************************************)
EXTENDS DenseFfn, Lists_proofs

PP == INSTANCE SlotPool_proofs WITH MaxTensors <- Tensors

-----------------------------------------------------------------------------
(* The slots: what the pool of SlotPool does not know about its caller. *)

PCs == {"prefetch", "prefetch_alloc", "prefetch_mark", "prefetch_send",
        "ask", "ask_alloc", "ask_mark", "ask_send", "await", "compute",
        "post", "unload", "look_ahead", "advance", "boundary", "stop", "join", "done"}
Prefetching == pc \in {"prefetch", "prefetch_alloc", "prefetch_mark", "prefetch_send"}

\* What the compute thread keeps.
ThreadTyped ==
  /\ pc \in PCs
  /\ layer \in Layers
  /\ node \in 1..NodesPerLayer
  /\ current_layer \in Layers \cup {-1}
  /\ prev \in Layers \cup {-1}
  /\ todo \in Seq(StreamingLayers)
  /\ ret \in {"boundary", "ask", "advance"}
  /\ passes \in 0..MaxPasses
  /\ pc \in {"prefetch_alloc", "prefetch_mark", "prefetch_send"} => todo # <<>>
  /\ pc \in {"ask_alloc", "ask_mark", "ask_send", "await"} => layer \in StreamingLayers
  /\ ~Prefetching => todo = <<>>

\* An allocation runs exactly while the thread is at it, for the layer the
\* thread is loading; a layer has all its slots or none.
SlotsWhole ==
  /\ pc \in {"ask_alloc", "prefetch_alloc"} <=> claim # Pool!NoClaim
  /\ claim # Pool!NoClaim => claim.layer = Target /\ claim.want = Tensors
  /\ \A l \in Layers : layer_slots[l] # <<>> =>
       l \in StreamingLayers /\ Len(layer_slots[l]) = Tensors
  /\ pc \in {"ask_mark", "ask_send", "prefetch_mark", "prefetch_send"} =>
       layer_slots[Target] # <<>>

PoolInv == ThreadTyped /\ SlotsWhole

-----------------------------------------------------------------------------
(* The tasks under way. *)

Tasks == [load: Loads, layer: Layers, update_status: BOOLEAN,
          writes: SUBSET (Cells \X Data)]

Queued == {chan[k] : k \in 1..Len(chan)}
Busy == {w \in Workers : worker[w].pc \in {"reading", "counting", "publishing"}}
Flying == Queued \cup {worker[w].task : w \in Busy}
Unread == Queued \cup {worker[w].task : w \in {v \in Workers : worker[v].pc = "reading"}}

IoTyped ==
  /\ layer_status \in [Layers -> LayerStatus]
  /\ parked \in BOOLEAN /\ pool_open \in BOOLEAN
  /\ chan \in Seq(Tasks)
  /\ worker \in [Workers ->
       [pc: {"idle", "reading", "counting", "publishing", "exited"},
        task: Tasks \cup {NoTask}]]
  /\ \A w \in Workers : w \in Busy <=> worker[w].task # NoTask
  /\ remaining \in [Loads -> Nat]
  /\ mem \in [Cells -> Data \cup {Empty}]

\* A task reads one tensor of a streaming layer, and is to publish it.
Reads(x, t, s) == x.writes = {<<s, <<x.layer, t>>>>}
ReadsATensor ==
  \A x \in Flying :
    /\ x.layer \in StreamingLayers /\ x.update_status
    /\ \E t \in 1..Tensors, s \in Cells : Reads(x, t, s)

\* The tasks of one load are of one layer.
LoadHasLayer == \A x, y \in Flying : x.load = y.load => x.layer = y.layer

Sending(l) == pc \in {"ask_send", "prefetch_send"} /\ Target = l
LoadingFlies ==
  \A l \in Layers : layer_status[l] = "Loading" => Sending(l) \/ \E x \in Flying : x.layer = l

\* RemainingIsExact, load by load.
OfLoad(c) == {x \in Tasks : x.load = c}
QueuedOf(c) == PlacesOf(chan, OfLoad(c))
HeldOf(c) == {w \in Workers : Held(w) /\ worker[w].task.load = c}
CountsExact ==
  \A c \in Loads : remaining[c] = Cardinality(QueuedOf(c)) + Cardinality(HeldOf(c))

IoInv == IoTyped /\ ReadsATensor /\ LoadHasLayer /\ CountsExact /\ LoadingFlies

-----------------------------------------------------------------------------
(* What is in memory, as long as no layer loses its slots while a load of  *)
(* it is under way.                                                        *)

Covered(l) == layer_slots[l] # <<>>
Right(l) == Covered(l) /\ \A t \in 1..Tensors : mem[layer_slots[l][t]] = <<l, t>>

\* The layer has its slots and is about to be Loading.
Marking(l) == pc \in {"ask_mark", "prefetch_mark"} /\ Target = l

\* A task reads into the slots its layer has.
OwnSlots ==
  \A x \in Flying : \A t \in 1..Tensors, s \in Cells :
    Reads(x, t, s) => Covered(x.layer) /\ s = layer_slots[x.layer][t]

\* What a load has not read yet, it is still to read.
LoadsProgress ==
  \A x \in Flying : \A t \in 1..Tensors :
    \/ mem[layer_slots[x.layer][t]] = <<x.layer, t>>
    \/ \E y \in Unread : /\ y.load = x.load /\ y.layer = x.layer
                         /\ Reads(y, t, layer_slots[x.layer][t])

\* What the status says of a layer that has slots. An evicted layer stays Loaded:
\* the status of a layer without slots says nothing.
StatusTrue ==
  /\ \A l \in Layers : layer_status[l] = "Loaded" /\ Covered(l) /\ ~Marking(l) => Right(l)
  /\ \A w \in Workers : worker[w].pc = "publishing" => Right(worker[w].task.layer)

MemInv == OwnSlots /\ LoadsProgress /\ StatusTrue

\* The pointers of the layer at hand, if it has slots, are those slots.
Pointed ==
  /\ data_ptr \in [Layers -> Seq(Cells)]
  /\ pc \in {"ask_send", "await", "compute"} /\ Streaming(layer) /\ Covered(layer) =>
       data_ptr[layer] = layer_slots[layer]
  /\ pc = "compute" /\ Streaming(layer) => layer_status[layer] = "Loaded"

HeldInv == overtaken \in BOOLEAN /\ Pointed /\ (~overtaken => MemInv)

-----------------------------------------------------------------------------
\* The constants make a pool that SlotPool's theorems are about.
LEMMA PoolAssumption == PP!SlotPoolAssumption
BY DenseAssumption DEF PP!SlotPoolAssumption

\* Layers are numbers; a layer's slots are cells.
LEMMA LayersAndCells ==
  /\ Layers \subseteq Nat /\ StreamingLayers \subseteq Layers
  /\ 0 \in Layers /\ -1 \notin Layers /\ PP!Slots = Cells /\ Tensors \in Nat \ {0}
  /\ Layers \subseteq Int
BY DenseAssumption DEF StreamingLayers, PP!Slots

\* The actions of the pool in the loader are those of the theorems.
LEMMA PoolActions ==
  /\ Pool!NoClaim = PP!NoClaim
  /\ Pool!SlotPoolInit <=> PP!SlotPoolInit
  /\ \A l \in Layers, n \in 1..Tensors : Pool!BeginAllocate(l, n) <=> PP!BeginAllocate(l, n)
  /\ Pool!AllocateStep <=> PP!AllocateStep
  /\ \A l \in Layers : Pool!ReleaseSlots(l) <=> PP!ReleaseSlots(l)
<1> USE DEF Pool!NoClaim, PP!NoClaim, Pool!Allocating, PP!Allocating
<1>1. Pool!SlotPoolInit <=> PP!SlotPoolInit
  BY DEF Pool!SlotPoolInit, PP!SlotPoolInit
<1>2. \A l \in Layers, n \in 1..Tensors : Pool!BeginAllocate(l, n) <=> PP!BeginAllocate(l, n)
  BY DEF Pool!BeginAllocate, PP!BeginAllocate
<1>3. Pool!PopFree <=> PP!PopFree
  BY DEF Pool!PopFree, PP!PopFree, Pool!PopWhile, PP!PopWhile, Pool!Gather, PP!Gather,
         Pool!Front, PP!Front, Pool!Last, PP!Last
<1>4. Pool!Evictable = PP!Evictable
  BY DEF Pool!Evictable, PP!Evictable
<1>5. Pool!Oldest = PP!Oldest
  BY <1>4 DEF Pool!Oldest, PP!Oldest
<1>6. Pool!EvictOldest <=> PP!EvictOldest
  BY <1>4, <1>5 DEF Pool!EvictOldest, PP!EvictOldest, Pool!EvictLeaving, PP!EvictLeaving,
         Pool!Gather, PP!Gather, Pool!Front, PP!Front, Pool!Last, PP!Last
<1>7. Pool!EndAllocate <=> PP!EndAllocate
  BY DEF Pool!EndAllocate, PP!EndAllocate
<1>8. \A l \in Layers : Pool!ReleaseSlots(l) <=> PP!ReleaseSlots(l)
  BY DEF Pool!ReleaseSlots, PP!ReleaseSlots
<1> QED
  BY <1>1, <1>2, <1>3, <1>6, <1>7, <1>8 DEF Pool!AllocateStep, PP!AllocateStep

\* What is retained of a list is a list of kept elements.
LEMMA RetainedKept ==
  ASSUME NEW T, NEW list \in Seq(T), NEW kept
  PROVE  /\ Retained(list, kept) \in Seq(T \cap kept)
         /\ \A x : x \in Listed(list) /\ x \in kept
              => \E i \in 1..Len(Retained(list, kept)) : Retained(list, kept)[i] = x
<1> DEFINE r == Retained(list, kept)
<1>1. r \in Seq(T) /\ Listed(r) = Listed(list) \cap kept
  BY RetainedFacts
<1> HIDE DEF r
<1>2. \A i \in 1..Len(r) : r[i] \in T \cap kept
  BY <1>1 DEF Listed
<1>3. r \in Seq(T \cap kept)
  BY <1>1, <1>2
<1>4. \A x : x \in Listed(list) /\ x \in kept => \E i \in 1..Len(r) : r[i] = x
  BY <1>1 DEF Listed
<1> QED
  BY <1>3, <1>4 DEF r

\* The lists of layers to prefetch.
LEMMA PrefetchLists ==
  ASSUME layer \in Layers
  PROVE  /\ WarmUp \in Seq(StreamingLayers)
         /\ ToPrefetch(WarmUp) \in Seq(StreamingLayers)
         /\ ToPrefetch(Retained([k \in 1..Lookahead |-> layer + k], StreamingLayers))
              \in Seq(StreamingLayers)
<1>1. [k \in 1..4 |-> NumResident + k - 1] \in Seq(Nat)
  <2>1. \A k \in 1..4 : NumResident + k - 1 \in Nat
    BY DenseAssumption
  <2> QED
    BY <2>1
<1>2. WarmUp \in Seq(StreamingLayers)
  <2>1. WarmUp \in Seq(Nat \cap StreamingLayers)
    BY <1>1, RetainedKept DEF WarmUp
  <2>2. Nat \cap StreamingLayers = StreamingLayers
    BY LayersAndCells
  <2> QED
    BY <2>1, <2>2
<1>3. \A list \in Seq(StreamingLayers) : ToPrefetch(list) \in Seq(StreamingLayers)
  <2> SUFFICES ASSUME NEW list \in Seq(StreamingLayers)
               PROVE  ToPrefetch(list) \in Seq(StreamingLayers)
    OBVIOUS
  <2> QED
    BY RetainedFacts DEF ToPrefetch
<1>4. Lookahead \in Nat
  BY DenseAssumption DEF Lookahead
<1>5. [k \in 1..Lookahead |-> layer + k] \in Seq(Nat)
  <2>1. \A k \in 1..Lookahead : layer + k \in Nat
    BY <1>4, LayersAndCells
  <2> QED
    BY <1>4, <2>1
<1>6. Retained([k \in 1..Lookahead |-> layer + k], StreamingLayers) \in Seq(StreamingLayers)
  <2>1. Retained([k \in 1..Lookahead |-> layer + k], StreamingLayers)
          \in Seq(Nat \cap StreamingLayers)
    BY <1>5, RetainedKept
  <2>2. Nat \cap StreamingLayers = StreamingLayers
    BY LayersAndCells
  <2> QED
    BY <2>1, <2>2
<1> QED
  BY <1>2, <1>3, <1>6

\* The pool starts whole.
LEMMA PoolInvInit == Init => PoolInv /\ PP!SlotPoolInit
<1> SUFFICES ASSUME Init PROVE PoolInv /\ PP!SlotPoolInit
  OBVIOUS
<1>1. ThreadTyped
  <2>1. layer \in Layers /\ node \in 1..NodesPerLayer /\ passes \in 0..MaxPasses
    BY LayersAndCells, DenseAssumption DEF Init
  <2>2. todo \in Seq(StreamingLayers)
    BY <2>1, PrefetchLists DEF Init
  <2> QED
    BY <2>1, <2>2 DEF Init, ThreadTyped, PCs, Prefetching
<1>2. SlotsWhole
  BY DEF Init, SlotsWhole, Pool!SlotPoolInit
<1> QED
  BY <1>1, <1>2, PoolActions DEF Init, PoolInv

\* What a step that leaves the slots alone has to keep.
LEMMA SlotsWholeKept ==
  ASSUME SlotsWhole, UNCHANGED slotVars,
         pc \notin {"ask_alloc", "prefetch_alloc"}, pc' \notin {"ask_alloc", "prefetch_alloc"},
         pc' \in {"ask_mark", "ask_send", "prefetch_mark", "prefetch_send"}
           => layer_slots[Target'] # <<>>
  PROVE  SlotsWhole' /\ [PP!SlotPoolNext]_PP!slotVars
BY DEF SlotsWhole, slotVars, PP!slotVars

\* The layer being loaded.
LEMMA TargetIsStreaming ==
  ASSUME ThreadTyped,
         pc \in {"ask_alloc", "ask_mark", "ask_send",
                 "prefetch_alloc", "prefetch_mark", "prefetch_send"}
  PROVE  Target \in StreamingLayers /\ Target \in Layers
<1>1. CASE Ensuring
  BY <1>1, LayersAndCells DEF Target, Ensuring, ThreadTyped
<1>2. CASE ~Ensuring
  <2>1. todo # <<>> /\ todo \in Seq(StreamingLayers)
    BY <1>2 DEF Ensuring, ThreadTyped
  <2>2. Head(todo) \in StreamingLayers
    BY <2>1
  <2> QED
    BY <1>2, <2>2, LayersAndCells DEF Target
<1> QED
  BY <1>1, <1>2

\* One iteration of an allocation, or its end.
LEMMA AllocateOnPool ==
  ASSUME PoolInv, PP!SlotPoolTypeOK, Allocate
  PROVE  PoolInv' /\ PP!SlotPoolNext
<1> USE DEF PoolInv
<1>1. Pool!AllocateStep /\ pc \in {"ask_alloc", "prefetch_alloc"}
      /\ UNCHANGED <<layer, node, current_layer, prev, todo, ret, passes>>
      /\ pc' = IF claim' # Pool!NoClaim THEN pc
               ELSE IF Ensuring THEN "ask_mark" ELSE "prefetch_mark"
  BY DEF Allocate
<1>2. PP!SlotPoolNext
  BY <1>1, PoolActions DEF PP!SlotPoolNext
<1>3. Target \in StreamingLayers /\ Target \in Layers
  BY <1>1, TargetIsStreaming
<1>4. /\ claim.layer = Target /\ claim.want = Tensors /\ claim # Pool!NoClaim
      /\ claim.layer \in Layers /\ claim.layer # -1
  BY <1>1, <1>3, LayersAndCells DEF SlotsWhole
<1>5. Target' = Target
  BY <1>1 DEF Target, Ensuring
<1>6. ThreadTyped'
  <2>1. pc' \in PCs /\ (pc = "prefetch_alloc" => pc' \in {"prefetch_alloc", "prefetch_mark"})
        /\ (pc = "ask_alloc" => pc' \in {"ask_alloc", "ask_mark"})
    BY <1>1 DEF PCs, Ensuring
  <2> QED
    BY <1>1, <2>1 DEF ThreadTyped, Prefetching
<1>7. SlotsWhole'
  <2>1. CASE Pool!PopFree
    <3>1. /\ claim'.layer = Target /\ claim'.want = Tensors /\ UNCHANGED layer_slots
          /\ claim' # Pool!NoClaim
      BY <2>1, <1>3, <1>4, LayersAndCells DEF Pool!PopFree, Pool!PopWhile, Pool!Gather, Pool!NoClaim
    <3>2. pc' = pc
      BY <1>1, <3>1
    <3> QED
      BY <1>1, <1>5, <3>1, <3>2 DEF SlotsWhole
  <2>2. CASE Pool!EvictOldest
    <3>1. /\ claim'.layer = Target /\ claim'.want = Tensors /\ claim' # Pool!NoClaim
      BY <2>2, <1>3, <1>4, LayersAndCells
         DEF Pool!EvictOldest, Pool!EvictLeaving, Pool!Gather, Pool!NoClaim
    <3>2. pc' = pc
      BY <1>1, <3>1
    <3>3. \A l \in Layers : layer_slots'[l] = layer_slots[l] \/ layer_slots'[l] = <<>>
      BY <2>2 DEF Pool!EvictOldest, Pool!EvictLeaving, PP!SlotPoolTypeOK
    <3> QED
      BY <1>1, <1>5, <3>1, <3>2, <3>3 DEF SlotsWhole
  <2>3. CASE Pool!EndAllocate
    <3>1. /\ claim' = Pool!NoClaim /\ Len(claim.slots) = Tensors
          /\ layer_slots' = [layer_slots EXCEPT ![Target] = claim.slots]
      BY <2>3, <1>4 DEF Pool!EndAllocate
    <3>2. pc' = IF Ensuring THEN "ask_mark" ELSE "prefetch_mark"
      BY <1>1, <3>1
    <3>3. claim.slots # <<>>
      BY <3>1, LayersAndCells
    <3>4. /\ layer_slots'[Target] = claim.slots
          /\ \A l \in Layers : l # Target => layer_slots'[l] = layer_slots[l]
      BY <1>3, <3>1 DEF PP!SlotPoolTypeOK
    <3> QED
      BY <1>1, <1>3, <1>5, <3>1, <3>2, <3>3, <3>4 DEF SlotsWhole
  <2> QED
    BY <1>1, <2>1, <2>2, <2>3 DEF Pool!AllocateStep
<1> QED
  BY <1>2, <1>6, <1>7

\* A step from "ask" or "prefetch" begins an allocation or leaves the pool alone.
LEMMA BeginOnPool ==
  ASSUME PoolInv, PP!SlotPoolTypeOK, ThreadTyped', Prefetch \/ Ask
  PROVE  SlotsWhole' /\ [PP!SlotPoolNext]_PP!slotVars
<1> USE DEF PoolInv
<1>1. CASE UNCHANGED slotVars
  <2>1. pc' \in {"ask_mark", "prefetch_mark"} => layer_slots[Target'] # <<>>
    BY <1>1 DEF Prefetch, Ask, AskIf, Target, Ensuring, ThreadTyped, Pool!BeginAllocate, slotVars
  <2>2. pc \in {"prefetch", "ask"} /\ pc' \notin {"ask_send", "prefetch_send"}
    BY DEF Prefetch, Ask, AskIf, ThreadTyped
  <2>3. pc' \notin {"ask_alloc", "prefetch_alloc"}
    <3> SUFFICES ASSUME pc' \in {"ask_alloc", "prefetch_alloc"} PROVE FALSE
      OBVIOUS
    <3>1. \E l \in Layers : Pool!BeginAllocate(l, Tensors)
      <4>1. CASE Ask
        BY <4>1, LayersAndCells DEF Ask, AskIf, ThreadTyped
      <4>2. CASE Prefetch
        <5>1. todo # <<>> /\ Pool!BeginAllocate(Head(todo), Tensors)
          BY <4>2 DEF Prefetch, ThreadTyped
        <5>2. todo \in Seq(StreamingLayers)
          BY DEF ThreadTyped
        <5>3. Head(todo) \in StreamingLayers
          BY <5>1, <5>2
        <5>4. Head(todo) \in Layers
          BY <5>3, LayersAndCells
        <5> QED
          BY <5>1, <5>4
      <4> QED
        BY <4>1, <4>2
    <3>2. PICK l \in Layers : Pool!BeginAllocate(l, Tensors)
      BY <3>1
    <3>3. claim'.layer = l /\ claim.layer = -1
      BY <3>2 DEF Pool!BeginAllocate, Pool!Allocating
    <3> QED
      BY <1>1, <3>3, LayersAndCells DEF slotVars
  <2> QED
    BY <1>1, <2>1, <2>2, <2>3, SlotsWholeKept
<1>2. CASE ~UNCHANGED slotVars
  <2>1. /\ Pool!BeginAllocate(Target', Tensors) /\ pc' \in {"ask_alloc", "prefetch_alloc"}
        /\ UNCHANGED <<layer, todo>>
    BY <1>2 DEF Prefetch, Ask, AskIf, Target, Ensuring
  <2>2. Target' \in StreamingLayers /\ Target' \in Layers
    <3>1. CASE pc' = "ask_alloc"
      BY <3>1, LayersAndCells DEF Target, Ensuring, ThreadTyped
    <3>2. CASE pc' = "prefetch_alloc"
      <4>1. todo' # <<>> /\ todo' \in Seq(StreamingLayers)
        BY <3>2 DEF ThreadTyped
      <4>2. Head(todo') \in StreamingLayers
        BY <4>1
      <4> QED
        BY <3>2, <4>2, LayersAndCells DEF Target, Ensuring
    <3> QED
      BY <2>1, <3>1, <3>2
  <2>3. PP!SlotPoolNext
    BY <2>1, <2>2, LayersAndCells, PoolActions DEF PP!SlotPoolNext
  <2>4. /\ claim'.layer = Target' /\ claim'.want = Tensors /\ UNCHANGED layer_slots
        /\ claim' # Pool!NoClaim
    BY <2>1, <2>2, LayersAndCells DEF Pool!BeginAllocate, Pool!NoClaim
  <2> QED
    BY <2>1, <2>3, <2>4 DEF SlotsWhole
<1> QED
  BY <1>1, <1>2

\* The thread goes from one place to another of the code.
LEMMA ThreadNext ==
  ASSUME ThreadTyped, [Next]_vars
  PROVE  ThreadTyped'
<1> USE DEF ThreadTyped, PCs, Prefetching
<1>1. CASE Prefetch
  BY <1>1 DEF Prefetch
<1>2. CASE Allocate
  <2>1. /\ pc \in {"ask_alloc", "prefetch_alloc"}
        /\ UNCHANGED <<layer, node, current_layer, prev, todo, ret, passes>>
        /\ pc' = IF claim' # Pool!NoClaim THEN pc
                 ELSE IF pc = "ask_alloc" THEN "ask_mark" ELSE "prefetch_mark"
    BY <1>2 DEF Allocate, Ensuring
  <2> QED
    BY <2>1
<1>3. CASE Mark
  BY <1>3 DEF Mark, Ensuring
<1>4. CASE SendTasks
  <2>1. /\ UNCHANGED <<layer, node, current_layer, prev, ret, passes>>
        /\ \/ pc = "ask_send" /\ pc' = "await" /\ todo' = todo
           \/ pc = "prefetch_send" /\ pc' = "prefetch" /\ todo' = Tail(todo)
    BY <1>4 DEF SendTasks, Ensuring
  <2>2. pc = "prefetch_send" => Tail(todo) \in Seq(StreamingLayers)
    OBVIOUS
  <2> QED
    BY <2>1, <2>2
<1>5. CASE StartPass
  <2>1. /\ passes' \in 0..MaxPasses /\ layer' \in Layers /\ node' \in 1..NodesPerLayer
    BY <1>5, LayersAndCells, DenseAssumption DEF StartPass
  <2>2. /\ UNCHANGED <<current_layer, prev>>
        /\ \/ pc' = "ask" /\ UNCHANGED <<todo, ret>>
           \/ pc' = "prefetch" /\ todo' = ToPrefetch(WarmUp) /\ ret' = "ask"
        /\ pc = "boundary"
    BY <1>5 DEF StartPass
  <2> QED
    BY <2>1, <2>2, PrefetchLists
<1>6. CASE Finish
  BY <1>6 DEF Finish
<1>7. CASE Ask
  BY <1>7 DEF Ask, AskIf, Streaming
<1>8. CASE Await
  BY <1>8 DEF Await
<1>9. CASE Compute
  BY <1>9 DEF Compute
<1>10. CASE Post
  BY <1>10 DEF Post
<1>11. CASE Unload
  BY <1>11 DEF Unload
<1>12. CASE LookAhead
  BY <1>12, PrefetchLists DEF LookAhead
<1>13. CASE Advance
  <2>1. /\ pc = "advance" /\ pc' \in {"ask", "boundary"}
        /\ UNCHANGED <<current_layer, prev, todo, ret, passes>>
        /\ \/ node < NodesPerLayer /\ node' = node + 1 /\ UNCHANGED layer
           \/ node' = 1 /\ layer + 1 < NumLayers /\ layer' = layer + 1
           \/ UNCHANGED <<layer, node>>
    BY <1>13 DEF Advance
  <2>2. node' \in 1..NodesPerLayer /\ layer' \in Layers
    BY <2>1, LayersAndCells, DenseAssumption
  <2> QED
    BY <2>1, <2>2
<1>14. CASE Stop
  BY <1>14 DEF Stop
<1>15. CASE Join
  BY <1>15 DEF Join
<1>16. CASE \E w \in Workers : IoThread(w)
  BY <1>16 DEF IoThread, threadVars
<1>17. CASE Terminated \/ UNCHANGED vars
  BY <1>17 DEF Terminated, vars, threadVars
<1> QED
  BY <1>1, <1>2, <1>3, <1>4, <1>5, <1>6, <1>7, <1>8, <1>9, <1>10, <1>11, <1>12, <1>13,
     <1>14, <1>15, <1>16, <1>17 DEF Next, ComputeThread

\* Every step of the loader is one of its pool, or leaves it alone.
LEMMA PoolInvNext ==
  ASSUME PoolInv, PP!SlotPoolTypeOK, [Next]_vars
  PROVE  PoolInv' /\ [PP!SlotPoolNext]_PP!slotVars
<1> USE DEF PoolInv
<1>1. ThreadTyped'
  BY ThreadNext
<1>2. CASE Prefetch \/ Ask
  BY <1>1, <1>2, BeginOnPool
<1>3. CASE Allocate
  BY <1>3, AllocateOnPool
<1>4. CASE Mark
  <2>1. /\ UNCHANGED slotVars /\ Target' = Target /\ pc \in {"ask_mark", "prefetch_mark"}
        /\ pc' \in {"ask_send", "prefetch_send"}
    BY <1>4 DEF Mark, Target, Ensuring
  <2>2. layer_slots[Target'] # <<>>
    BY <2>1 DEF SlotsWhole
  <2> QED
    BY <1>1, <2>1, <2>2, SlotsWholeKept
<1>5. CASE SendTasks
  <2>1. /\ UNCHANGED slotVars /\ pc \in {"ask_send", "prefetch_send"} /\ pc' \in {"await", "prefetch"}
    BY <1>5 DEF SendTasks
  <2> QED
    BY <1>1, <2>1, SlotsWholeKept
<1>6. CASE Post
  <2>1. CASE UNCHANGED slotVars
    <3>1. pc = "post" /\ pc' \in {"unload", "look_ahead"}
      BY <1>6 DEF Post
    <3> QED
      BY <1>1, <2>1, <3>1, SlotsWholeKept
  <2>2. CASE ~UNCHANGED slotVars
    <3>1. /\ Streaming(current_layer) /\ Pool!ReleaseSlots(current_layer)
          /\ pc = "post" /\ pc' = "unload"
      BY <1>6, <2>2 DEF Post
    <3>2. current_layer \in Layers
      BY <3>1, LayersAndCells DEF Streaming
    <3>3. PP!SlotPoolNext
      BY <3>1, <3>2, PoolActions DEF PP!SlotPoolNext
    <3>4. /\ UNCHANGED claim
          /\ \A l \in Layers : layer_slots'[l] = layer_slots[l] \/ layer_slots'[l] = <<>>
      BY <3>1 DEF Pool!ReleaseSlots, PP!SlotPoolTypeOK
    <3> QED
      BY <1>1, <3>1, <3>3, <3>4 DEF SlotsWhole
  <2> QED
    BY <2>1, <2>2
<1>7. CASE StartPass \/ Finish \/ Await \/ Compute \/ Unload \/ LookAhead \/ Advance \/ Stop \/ Join
  <2>1. /\ UNCHANGED slotVars
        /\ pc \notin {"ask_alloc", "prefetch_alloc"}
        /\ pc' \notin {"ask_alloc", "prefetch_alloc", "ask_mark", "ask_send", "prefetch_mark", "prefetch_send"}
    BY <1>7 DEF StartPass, Finish, Await, Compute, Unload, LookAhead, Advance, Stop, Join, ThreadTyped
  <2> QED
    BY <1>1, <2>1, SlotsWholeKept
<1>8. CASE (\E w \in Workers : IoThread(w)) \/ Terminated \/ UNCHANGED vars
  <2>1. UNCHANGED <<threadVars, slotVars>>
    BY <1>8 DEF IoThread, Terminated, vars
  <2>2. Target' = Target
    BY <2>1 DEF Target, Ensuring, threadVars
  <2> QED
    BY <1>1, <2>1, <2>2 DEF SlotsWhole, threadVars, slotVars, PP!slotVars
<1> QED
  BY <1>2, <1>3, <1>4, <1>5, <1>6, <1>7, <1>8 DEF Next, ComputeThread

\* Dense FFN-streaming uses its slot pool as SlotPool describes it: one allocation
\* at a time, each call of allocate_layer and release_layer a step of the pool
\* (ensure_dense_ffn_loaded, prefetch_dense_ffn, eval_callback_dense_ffn_streaming).
THEOREM UsesSlotPool == Spec => []PoolInv /\ PP!SlotPoolSpec
<1>1. Init => PoolInv /\ PP!SlotPoolInit
  BY PoolInvInit
<1>2. PP!SlotPoolInit => PP!SlotPoolTypeOK
  BY PoolAssumption, PP!TypeInit
<1>3. PoolInv /\ PP!SlotPoolTypeOK /\ [Next]_vars
        => PoolInv' /\ [PP!SlotPoolNext]_PP!slotVars
  BY PoolInvNext
<1>4. PP!SlotPoolTypeOK /\ [PP!SlotPoolNext]_PP!slotVars => PP!SlotPoolTypeOK'
  BY PoolAssumption, PP!TypeStep
<1> QED
  BY <1>1, <1>2, <1>3, <1>4, PTL DEF Spec, PP!SlotPoolSpec

-----------------------------------------------------------------------------
\* What the steps of a worker do to the tasks under way.

WorkerState == [pc: {"idle", "reading", "counting", "publishing", "exited"},
                task: Tasks \cup {NoTask}]

\* A step of a worker writes its pc and its task.
LEMMA WorkerWritten ==
  ASSUME IoTyped, NEW w \in Workers, NEW s, NEW t,
         worker' = [worker EXCEPT ![w] = [pc |-> s, task |-> t]]
  PROVE  /\ worker'[w].pc = s /\ worker'[w].task = t
         /\ \A v \in Workers : v # w => worker'[v] = worker[v]
         /\ s \in {"idle", "reading", "counting", "publishing", "exited"} /\ t \in Tasks \cup {NoTask}
              => worker' \in [Workers -> WorkerState]
<1> DEFINE q == [pc |-> s, task |-> t]
<1>1. q.pc = s /\ q.task = t
  OBVIOUS
<1>2. s \in {"idle", "reading", "counting", "publishing", "exited"} /\ t \in Tasks \cup {NoTask}
        => q \in WorkerState
  BY DEF WorkerState
<1> HIDE DEF q
<1>3. worker' = [worker EXCEPT ![w] = q]
  BY DEF q
<1>4. worker \in [Workers -> WorkerState]
  BY DEF IoTyped, WorkerState
<1> QED
  BY <1>1, <1>2, <1>3, <1>4

\* Pread and Exit write the pc of one worker and leave its task.
LEMMA StageWritten ==
  ASSUME IoTyped, NEW w \in Workers, NEW s, worker' = [worker EXCEPT ![w].pc = s]
  PROVE  worker' = [worker EXCEPT ![w] = [pc |-> s, task |-> worker[w].task]]
<1> DEFINE r == worker[w]
           q == [r EXCEPT !.pc = s]
<1>1. r \in WorkerState
  BY DEF IoTyped, WorkerState
<1>2. q = [pc |-> s, task |-> r.task]
  BY <1>1 DEF WorkerState
<1>3. worker' = [worker EXCEPT ![w] = q]
  OBVIOUS
<1> HIDE DEF q
<1> QED
  BY <1>2, <1>3

\* The task in a busy worker's hands.
LEMMA TaskInHand ==
  ASSUME IoTyped, NEW w \in Workers
  PROVE  /\ w \in Busy => worker[w].task \in Tasks /\ worker[w].task \in Flying
         /\ w \notin Busy => worker[w].task = NoTask
         /\ NoTask \notin Tasks
         /\ Queued \subseteq Tasks /\ Flying \subseteq Tasks /\ Unread \subseteq Flying
<1>1. NoTask \notin Tasks
  BY DenseAssumption DEF Tasks
<1>2. \A v \in Workers : worker[v].task \in Tasks \cup {NoTask}
  BY DEF IoTyped
<1>3. \A v \in Workers : v \in Busy => worker[v].task \in Tasks
  BY <1>1, <1>2 DEF IoTyped
<1>4. Queued \subseteq Tasks
  BY DEF Queued, IoTyped
<1> QED
  BY <1>1, <1>3, <1>4 DEF Flying, Unread, Busy, IoTyped

\* The counters of loads no step is about keep.
LEMMA CountsAreFinite ==
  ASSUME IsFiniteSet(Workers), IoTyped, NEW c
  PROVE  /\ Cardinality(QueuedOf(c)) \in Nat /\ IsFiniteSet(QueuedOf(c))
         /\ Cardinality(HeldOf(c)) \in Nat /\ IsFiniteSet(HeldOf(c))
<1>1. Cardinality(QueuedOf(c)) \in Nat /\ IsFiniteSet(QueuedOf(c))
  <2>1. chan \in Seq(Tasks)
    BY DEF IoTyped
  <2> QED
    BY <2>1, PlacesAreFinite DEF QueuedOf
<1>2. HeldOf(c) \in SUBSET Workers
  BY DEF HeldOf
<1> QED
  BY <1>1, <1>2, FS_Subset, FS_CardinalityType

\* recv(): a task goes from the channel to a worker.
LEMMA RecvStep ==
  ASSUME IsFiniteSet(Workers), IoTyped, CountsExact, NEW w \in Workers, Recv(w)
  PROVE  /\ IoTyped' /\ CountsExact' /\ Flying' = Flying /\ Unread' = Unread
         /\ \A v \in Workers : worker'[v].pc = "publishing" <=> worker[v].pc = "publishing"
         /\ \A v \in Workers : worker'[v].pc = "publishing" => worker'[v].task = worker[v].task
<1> DEFINE t == Head(chan)
<1>1. /\ worker[w].pc = "idle" /\ chan # <<>> /\ chan' = Tail(chan)
      /\ worker' = [worker EXCEPT ![w] = [pc |-> "reading", task |-> t]]
      /\ UNCHANGED <<layer_status, parked, pool_open, remaining, mem>>
  BY DEF Recv
<1>2. chan \in Seq(Tasks) /\ Len(chan) \in Nat \ {0} /\ t = chan[1]
  BY <1>1, EmptySeq DEF IoTyped
<1>3. /\ t \in Tasks /\ chan' \in Seq(Tasks) /\ Len(chan') = Len(chan) - 1
      /\ \A k \in 1..Len(chan') : chan'[k] = chan[k + 1]
  BY <1>1, <1>2, HeadTailProperties
<1>4. t # NoTask
  BY <1>3, TaskInHand
<1> HIDE DEF t
<1>5. /\ worker'[w].pc = "reading" /\ worker'[w].task = t
      /\ \A v \in Workers : v # w => worker'[v] = worker[v]
      /\ worker' \in [Workers -> WorkerState]
  BY <1>1, <1>3, WorkerWritten
<1>6. IoTyped'
  <2>1. \A v \in Workers : v \in Busy' <=> worker'[v].task # NoTask
    BY <1>4, <1>5 DEF Busy, IoTyped
  <2> QED
    BY <1>1, <1>3, <1>5, <2>1 DEF IoTyped, WorkerState
<1>7. Queued = Queued' \cup {t}
  <2>1. ASSUME NEW k \in 1..Len(chan) PROVE chan[k] \in Queued' \cup {t}
    <3>1. CASE k = 1
      BY <1>2, <3>1
    <3>2. CASE k # 1
      <4>1. k - 1 \in 1..Len(chan') /\ (k - 1) + 1 = k
        BY <1>2, <1>3, <3>2
      <4>2. chan'[k - 1] = chan[k]
        BY <1>3, <4>1
      <4> QED
        BY <4>1, <4>2 DEF Queued
    <3> QED
      BY <3>1, <3>2
  <2>2. ASSUME NEW k \in 1..Len(chan') PROVE chan'[k] \in Queued
    <3>1. k + 1 \in 1..Len(chan)
      BY <1>2, <1>3
    <3> QED
      BY <1>3, <3>1 DEF Queued
  <2>3. t \in Queued
    BY <1>2 DEF Queued
  <2> QED
    BY <2>1, <2>2, <2>3 DEF Queued
<1>8. Flying' = Flying
  BY <1>1, <1>5, <1>7 DEF Flying, Busy
<1>9. Unread' = Unread
  BY <1>1, <1>5, <1>7 DEF Unread
<1>10. CountsExact'
  <2> SUFFICES ASSUME NEW c \in Loads
               PROVE  remaining'[c] = Cardinality(QueuedOf(c)') + Cardinality(HeldOf(c)')
    BY DEF CountsExact
  <2>1. remaining'[c] = Cardinality(QueuedOf(c)) + Cardinality(HeldOf(c))
    BY <1>1 DEF CountsExact
  <2>2. Cardinality(QueuedOf(c)') = IF t \in OfLoad(c) THEN Cardinality(QueuedOf(c)) - 1
                                    ELSE Cardinality(QueuedOf(c))
    <3>1. QueuedOf(c)' = PlacesOf(Tail(chan), OfLoad(c))
      BY <1>1 DEF QueuedOf, OfLoad, Tasks, PlacesOf
    <3> QED
      BY <1>1, <1>2, <3>1, PlacesOfTail DEF QueuedOf, t
  <2>3. t \in OfLoad(c) <=> t.load = c
    BY <1>3 DEF OfLoad
  <2>4. w \notin HeldOf(c) /\ HeldOf(c)' = IF t.load = c THEN HeldOf(c) \cup {w} ELSE HeldOf(c)
    BY <1>1, <1>5 DEF HeldOf, Held
  <2>5. Cardinality(HeldOf(c) \cup {w}) = Cardinality(HeldOf(c)) + 1
    BY <2>4, CountsAreFinite, FS_AddElement
  <2>6. Cardinality(QueuedOf(c)) \in Nat /\ Cardinality(HeldOf(c)) \in Nat
    BY CountsAreFinite
  <2> QED
    BY <2>1, <2>2, <2>3, <2>4, <2>5, <2>6
<1> QED
  BY <1>1, <1>5, <1>6, <1>8, <1>9, <1>10

\* pread(): a worker has read its task.
LEMMA PreadStep ==
  ASSUME IoTyped, CountsExact, NEW w \in Workers, Pread(w)
  PROVE  /\ CountsExact' /\ Flying' = Flying
         /\ Unread' \subseteq Unread /\ Unread \subseteq Unread' \cup {worker[w].task}
         /\ worker[w].task \in Flying
         /\ worker' \in [Workers -> WorkerState] /\ (\A v \in Workers : v \in Busy' <=> v \in Busy)
         /\ \A v \in Workers : worker'[v].pc = "publishing" <=> worker[v].pc = "publishing"
         /\ \A v \in Workers : worker'[v].task = worker[v].task
<1>1. /\ worker[w].pc = "reading" /\ UNCHANGED <<layer_status, parked, pool_open, chan, remaining>>
      /\ worker' = [worker EXCEPT ![w] = [pc |-> "counting", task |-> worker[w].task]]
  BY StageWritten DEF Pread
<1>2. worker[w].task \in Tasks /\ worker[w].task \in Flying
  BY <1>1, TaskInHand DEF Busy
<1>3. /\ worker'[w].pc = "counting" /\ worker'[w].task = worker[w].task
      /\ \A v \in Workers : v # w => worker'[v] = worker[v]
      /\ worker' \in [Workers -> WorkerState]
  <2>1. worker' = [worker EXCEPT ![w] = [pc |-> "counting", task |-> worker[w].task]]
    BY <1>1
  <2>2. /\ worker'[w].pc = "counting" /\ worker'[w].task = worker[w].task
        /\ \A v \in Workers : v # w => worker'[v] = worker[v]
        /\ worker[w].task \in Tasks \cup {NoTask} => worker' \in [Workers -> WorkerState]
    BY <2>1, WorkerWritten
  <2> QED
    BY <1>2, <2>2, Zenon
<1>4. \A v \in Workers : /\ worker'[v].task = worker[v].task
                         /\ worker'[v].pc = IF v = w THEN "counting" ELSE worker[v].pc
  <2> TAKE v \in Workers
  <2>1. CASE v = w
    BY <1>3, <2>1
  <2>2. CASE v # w
    BY <1>3, <2>2
  <2> QED
    BY <2>1, <2>2
<1>5. Queued' = Queued
  BY <1>1 DEF Queued
<1>6. Busy' = Busy
  BY <1>1, <1>4 DEF Busy
<1>7. Flying' = Flying
  BY <1>4, <1>5, <1>6 DEF Flying, Busy
<1>8. Unread' \subseteq Unread /\ Unread \subseteq Unread' \cup {worker[w].task}
  BY <1>1, <1>4, <1>5 DEF Unread
<1>9. \A c \in Loads : QueuedOf(c)' = QueuedOf(c) /\ HeldOf(c)' = HeldOf(c)
  BY <1>1, <1>4 DEF QueuedOf, PlacesOf, OfLoad, Tasks, HeldOf, Held
<1>10. CountsExact'
  BY <1>1, <1>9 DEF CountsExact
<1> QED
  BY <1>1, <1>2, <1>3, <1>4, <1>6, <1>7, <1>8, <1>10

\* A worker whose count is the last of a load holds its only task; otherwise
\* another task of the load is queued or in another worker's hands.
LEMMA LastOfLoad ==
  ASSUME IsFiniteSet(Workers), IoTyped, CountsExact,
         NEW w \in Workers, NEW c \in Loads, w \in HeldOf(c)
  PROVE  /\ remaining[c] \in Nat \ {0}
         /\ Cardinality(HeldOf(c) \ {w}) = Cardinality(HeldOf(c)) - 1
         /\ remaining[c] = 1 => QueuedOf(c) = {} /\ HeldOf(c) = {w}
         /\ remaining[c] # 1 => \/ \E k \in 1..Len(chan) : chan[k].load = c
                                \/ \E v \in HeldOf(c) : v # w
<1> DEFINE Q == QueuedOf(c)
           H == HeldOf(c)
<1>1. /\ remaining[c] = Cardinality(Q) + Cardinality(H)
      /\ IsFiniteSet(Q) /\ IsFiniteSet(H)
      /\ Cardinality(Q) \in Nat /\ Cardinality(H) \in Nat
  BY CountsAreFinite DEF CountsExact
<1>2. /\ \A k \in Q : k \in 1..Len(chan) /\ chan[k].load = c
  BY DEF QueuedOf, PlacesOf, OfLoad
<1> HIDE DEF Q, H
<1>3. w \in H
  BY DEF H
<1>4. /\ Cardinality(H \ {w}) = Cardinality(H) - 1 /\ IsFiniteSet(H \ {w})
      /\ Cardinality(H \ {w}) \in Nat
  BY <1>1, <1>3, FS_RemoveElement, FS_CardinalityType
<1>5. (Cardinality(Q) = 0 <=> Q = {}) /\ (Cardinality(H \ {w}) = 0 <=> H \ {w} = {})
  BY <1>1, <1>4, FS_EmptySet
<1>6. remaining[c] = 1 => Q = {} /\ H = {w}
  <2> SUFFICES ASSUME remaining[c] = 1 PROVE Q = {} /\ H = {w}
    OBVIOUS
  <2>1. Cardinality(Q) = 0 /\ Cardinality(H \ {w}) = 0
    BY <1>1, <1>4
  <2>2. Q = {} /\ H \ {w} = {}
    BY <1>5, <2>1
  <2> QED
    BY <1>3, <2>2
<1>7. remaining[c] # 1 => Q # {} \/ H \ {w} # {}
  BY <1>1, <1>4, <1>5
<1> QED
  BY <1>1, <1>2, <1>4, <1>6, <1>7 DEF Q, H

\* fetch_sub(1): a worker counts its task, and keeps it if it is the last.
LEMMA CountStep ==
  ASSUME IsFiniteSet(Workers), IoTyped, CountsExact, ReadsATensor, NEW w \in Workers, Count(w)
  PROVE  /\ IoTyped' /\ CountsExact' /\ Flying' \subseteq Flying /\ Unread' = Unread
         /\ \A v \in Workers : worker'[v].pc = "publishing" =>
              worker'[v].task = worker[v].task /\ (worker[v].pc = "publishing" \/ v = w)
         /\ worker[w].task \in Flying
         /\ \E y \in Flying' : y.load = worker[w].task.load
         /\ \A x \in Flying : x \in Flying' \/ x = worker[w].task
         /\ worker'[w].pc = "publishing" =>
              \A y \in Unread : y.load # worker[w].task.load
<1> DEFINE t == worker[w].task
           c == t.load
           last == remaining[c] = 1
<1>1. /\ worker[w].pc = "counting" /\ t \in Tasks /\ t \in Flying /\ c \in Loads
      /\ UNCHANGED <<layer_status, parked, pool_open, chan, mem>>
      /\ remaining' = [remaining EXCEPT ![c] = @ - 1]
  <2>1. worker[w].pc = "counting"
    BY DEF Count, CountThen
  <2>2. t \in Tasks /\ t \in Flying
    BY <2>1, TaskInHand DEF Busy
  <2> QED
    BY <2>1, <2>2 DEF Count, CountThen, Tasks
<1>2. t.update_status
  BY <1>1 DEF ReadsATensor
<1>3. worker' = [worker EXCEPT ![w] = [pc |-> IF last THEN "publishing" ELSE "idle",
                                       task |-> IF last THEN t ELSE NoTask]]
  <2>1. worker' = [worker EXCEPT ![w] = IF t.update_status /\ last
                                          THEN [pc |-> "publishing", task |-> t]
                                          ELSE [pc |-> "idle", task |-> NoTask]]
    BY DEF Count, CountThen
  <2> QED
    BY <1>2, <2>1
<1> HIDE DEF t
<1>4. t # NoTask
  BY <1>1, TaskInHand
<1>5. /\ worker'[w].pc = IF last THEN "publishing" ELSE "idle"
      /\ worker'[w].task = IF last THEN t ELSE NoTask
      /\ \A v \in Workers : v # w => worker'[v] = worker[v]
      /\ worker' \in [Workers -> WorkerState]
  <2> DEFINE s == IF last THEN "publishing" ELSE "idle"
             u == IF last THEN t ELSE NoTask
  <2>1. s \in {"idle", "reading", "counting", "publishing", "exited"} /\ u \in Tasks \cup {NoTask}
    BY <1>1
  <2>2. worker' = [worker EXCEPT ![w] = [pc |-> s, task |-> u]]
    BY <1>3
  <2> HIDE DEF s, u
  <2>3. /\ worker'[w].pc = s /\ worker'[w].task = u
        /\ \A v \in Workers : v # w => worker'[v] = worker[v]
        /\ worker' \in [Workers -> WorkerState]
    BY <2>1, <2>2, WorkerWritten
  <2> QED
    BY <2>3 DEF s, u
<1>6. w \in HeldOf(c)
  BY <1>1 DEF HeldOf, Held, t
<1>7. /\ remaining[c] \in Nat \ {0}
      /\ Cardinality(HeldOf(c) \ {w}) = Cardinality(HeldOf(c)) - 1
      /\ last => QueuedOf(c) = {} /\ HeldOf(c) = {w}
      /\ ~last => \/ \E k \in 1..Len(chan) : chan[k].load = c
                  \/ \E v \in HeldOf(c) : v # w
  BY <1>1, <1>6, LastOfLoad
<1>8. IoTyped'
  <2>1. \A v \in Workers : v \in Busy' <=> worker'[v].task # NoTask
    BY <1>4, <1>5 DEF Busy, IoTyped
  <2>2. remaining' \in [Loads -> Nat]
    BY <1>1, <1>7 DEF IoTyped
  <2> QED
    BY <1>1, <1>5, <2>1, <2>2 DEF IoTyped, WorkerState
<1>9. Queued' = Queued
  BY <1>1 DEF Queued
<1>10. Flying' \subseteq Flying /\ \A x \in Flying : x \in Flying' \/ x = t
  <2>1. \A v \in Workers : v \in Busy' => v \in Busy /\ worker'[v].task = worker[v].task
    BY <1>1, <1>5 DEF Busy, t
  <2>2. \A v \in Workers : v \in Busy => worker[v].task = t \/ (v \in Busy' /\ worker'[v].task = worker[v].task)
    BY <1>1, <1>5 DEF Busy, t
  <2> QED
    BY <1>9, <2>1, <2>2 DEF Flying, Busy
<1>11. Unread' = Unread
  BY <1>1, <1>5, <1>9 DEF Unread
<1>12. CountsExact'
  <2> SUFFICES ASSUME NEW b \in Loads
               PROVE  remaining'[b] = Cardinality(QueuedOf(b)') + Cardinality(HeldOf(b)')
    BY DEF CountsExact
  <2>1. QueuedOf(b)' = QueuedOf(b)
    BY <1>1 DEF QueuedOf, PlacesOf, OfLoad, Tasks
  <2>2. HeldOf(b)' = IF b = c THEN HeldOf(c) \ {w} ELSE HeldOf(b)
    <3>1. \A v \in Workers : v \in HeldOf(b)' <=> v \in HeldOf(b) /\ v # w
      <4> SUFFICES ASSUME NEW v \in Workers PROVE v \in HeldOf(b)' <=> v \in HeldOf(b) /\ v # w
        OBVIOUS
      <4>1. CASE v = w
        BY <1>5, <4>1 DEF HeldOf, Held
      <4>2. CASE v # w
        BY <1>5, <4>2 DEF HeldOf, Held
      <4> QED
        BY <4>1, <4>2
    <3>2. HeldOf(b) \subseteq Workers /\ HeldOf(b)' \subseteq Workers
      BY DEF HeldOf
    <3>3. b # c => w \notin HeldOf(b)
      BY DEF HeldOf, t
    <3> QED
      BY <3>1, <3>2, <3>3
  <2>3. remaining[b] = Cardinality(QueuedOf(b)) + Cardinality(HeldOf(b))
    BY DEF CountsExact
  <2>4. Cardinality(QueuedOf(b)) \in Nat /\ Cardinality(HeldOf(b)) \in Nat
    BY CountsAreFinite
  <2>5. remaining'[b] = IF b = c THEN remaining[b] - 1 ELSE remaining[b]
    BY <1>1 DEF IoTyped
  <2> QED
    BY <1>7, <2>1, <2>2, <2>3, <2>4, <2>5
<1>13. \E y \in Flying' : y.load = c
  <2>1. CASE last
    <3>1. w \in Busy' /\ worker'[w].task = t
      BY <1>5, <2>1 DEF Busy
    <3> QED
      BY <3>1 DEF Flying
  <2>2. CASE \E k \in 1..Len(chan) : chan[k].load = c
    BY <1>9, <2>2 DEF Flying, Queued
  <2>3. CASE \E v \in HeldOf(c) : v # w
    <3>1. PICK v \in HeldOf(c) : v # w
      BY <2>3
    <3>2. v \in Workers /\ v \in Busy /\ worker[v].task.load = c /\ worker'[v] = worker[v]
      BY <1>5, <3>1 DEF HeldOf, Held, Busy
    <3>3. v \in Busy'
      BY <3>2 DEF Busy
    <3> QED
      BY <3>2, <3>3 DEF Flying
  <2> QED
    BY <1>7, <2>1, <2>2, <2>3
<1>14. last => \A y \in Unread : y.load # c
  <2> SUFFICES ASSUME last, NEW y \in Unread, y.load = c PROVE FALSE
    OBVIOUS
  <2>1. CASE y \in Queued
    <3>1. PICK k \in 1..Len(chan) : chan[k] = y
      BY <2>1 DEF Queued
    <3>2. k \in QueuedOf(c)
      BY <2>1, <3>1, TaskInHand DEF QueuedOf, PlacesOf, OfLoad
    <3> QED
      BY <1>7, <3>2
  <2>2. CASE y \notin Queued
    <3>1. PICK v \in Workers : worker[v].pc = "reading" /\ worker[v].task = y
      BY <2>2 DEF Unread
    <3>2. v \in HeldOf(c)
      BY <3>1 DEF HeldOf, Held
    <3> QED
      BY <1>1, <1>7, <3>1, <3>2
  <2> QED
    BY <2>1, <2>2
<1>15. \A v \in Workers : worker'[v].pc = "publishing" =>
         worker'[v].task = worker[v].task /\ (worker[v].pc = "publishing" \/ v = w)
  BY <1>5 DEF t
<1>16. worker'[w].pc = "publishing" => last
  BY <1>5
<1> QED
  BY <1>1, <1>8, <1>10, <1>11, <1>12, <1>13, <1>14, <1>15, <1>16 DEF t

\* The last worker of a load publishes it.
LEMMA PublishStep ==
  ASSUME IoTyped, CountsExact, NEW w \in Workers, Publish(w), worker[w].task.layer \in Layers
  PROVE  /\ IoTyped' /\ CountsExact' /\ Flying' \subseteq Flying /\ Unread' = Unread
         /\ \A v \in Workers : worker'[v].pc = "publishing" =>
              worker'[v].task = worker[v].task /\ worker[v].pc = "publishing"
         /\ worker[w].task \in Flying /\ worker[w].pc = "publishing"
         /\ \A x \in Flying : x \in Flying' \/ x = worker[w].task
<1>1. /\ worker[w].pc = "publishing"
      /\ layer_status' = [layer_status EXCEPT ![worker[w].task.layer] = "Loaded"]
      /\ parked' = FALSE
      /\ UNCHANGED <<pool_open, chan, remaining, mem>>
      /\ worker' = [worker EXCEPT ![w] = [pc |-> "idle", task |-> NoTask]]
  BY DEF Publish, PublishLoaded
<1>2. worker[w].task \in Flying /\ w \in Busy
  BY <1>1, TaskInHand DEF Busy
<1>3. /\ worker'[w].pc = "idle" /\ worker'[w].task = NoTask
      /\ \A v \in Workers : v # w => worker'[v] = worker[v]
      /\ worker' \in [Workers -> WorkerState]
  BY <1>1, WorkerWritten
<1>4. IoTyped'
  <2>1. \A v \in Workers : v \in Busy' <=> worker'[v].task # NoTask
    BY <1>3 DEF Busy, IoTyped
  <2>2. layer_status' \in [Layers -> LayerStatus]
    BY <1>1 DEF IoTyped, LayerStatus
  <2> QED
    BY <1>1, <1>3, <2>1, <2>2 DEF IoTyped, WorkerState
<1>5. Queued' = Queued
  BY <1>1 DEF Queued
<1>6. Flying' \subseteq Flying /\ \A x \in Flying : x \in Flying' \/ x = worker[w].task
  <2>1. \A v \in Workers : v \in Busy' => v \in Busy /\ worker'[v].task = worker[v].task
    BY <1>3 DEF Busy
  <2>2. \A v \in Workers : v \in Busy => v = w \/ (v \in Busy' /\ worker'[v].task = worker[v].task)
    BY <1>3 DEF Busy
  <2> QED
    BY <1>5, <2>1, <2>2 DEF Flying, Busy
<1>7. Unread' = Unread
  BY <1>1, <1>3, <1>5 DEF Unread
<1>8. \A c \in Loads : QueuedOf(c)' = QueuedOf(c) /\ HeldOf(c)' = HeldOf(c)
  BY <1>1, <1>3 DEF QueuedOf, PlacesOf, OfLoad, Tasks, HeldOf, Held
<1>9. CountsExact'
  BY <1>1, <1>8 DEF CountsExact
<1> QED
  BY <1>1, <1>2, <1>3, <1>4, <1>6, <1>7, <1>9

\* A worker that finds the channel closed and empty ends.
LEMMA ExitStep ==
  ASSUME IoTyped, CountsExact, NEW w \in Workers, Exit(w)
  PROVE  /\ IoTyped' /\ CountsExact' /\ Flying' = Flying /\ Unread' = Unread
         /\ UNCHANGED <<layer_status, parked, mem>>
         /\ \A v \in Workers : worker'[v].pc = "publishing" <=> worker[v].pc = "publishing"
         /\ \A v \in Workers : worker'[v].task = worker[v].task
<1>1. /\ worker[w].pc = "idle"
      /\ UNCHANGED <<layer_status, parked, pool_open, chan, remaining, mem>>
      /\ worker' = [worker EXCEPT ![w] = [pc |-> "exited", task |-> worker[w].task]]
  BY StageWritten DEF Exit
<1>2. worker[w].task = NoTask
  BY <1>1, TaskInHand DEF Busy
<1>3. /\ worker'[w].pc = "exited" /\ worker'[w].task = worker[w].task
      /\ \A v \in Workers : v # w => worker'[v] = worker[v]
      /\ worker' \in [Workers -> WorkerState]
  BY <1>1, <1>2, WorkerWritten
<1>4. IoTyped'
  <2>1. \A v \in Workers : v \in Busy' <=> worker'[v].task # NoTask
    BY <1>2, <1>3 DEF Busy, IoTyped
  <2> QED
    BY <1>1, <1>3, <2>1 DEF IoTyped, WorkerState
<1>5. \A v \in Workers : /\ worker'[v].task = worker[v].task
                         /\ worker'[v].pc = IF v = w THEN "exited" ELSE worker[v].pc
  BY <1>3
<1>6. Queued' = Queued
  BY <1>1 DEF Queued
<1>7. Flying' = Flying /\ Unread' = Unread
  BY <1>1, <1>5, <1>6 DEF Flying, Busy, Unread
<1>8. \A c \in Loads : QueuedOf(c)' = QueuedOf(c) /\ HeldOf(c)' = HeldOf(c)
  BY <1>1, <1>3 DEF QueuedOf, PlacesOf, OfLoad, Tasks, HeldOf, Held
<1>9. CountsExact'
  BY <1>1, <1>8 DEF CountsExact
<1> QED
  BY <1>1, <1>4, <1>5, <1>7, <1>9

\* A worker's step keeps what holds of the tasks.
LEMMA WorkKeepsIo ==
  ASSUME IsFiniteSet(Workers), IoInv, NEW w \in Workers, Work(w), UNCHANGED threadVars
  PROVE  IoInv'
<1> USE DEF IoInv
<1>0. \A l \in Layers : Sending(l)' = Sending(l)
  BY DEF Sending, Target, Ensuring, threadVars
<1>1. CASE Recv(w)
  <2>1. IoTyped' /\ CountsExact' /\ Flying' = Flying /\ UNCHANGED layer_status
    BY <1>1, RecvStep DEF Recv
  <2> QED
    BY <1>0, <2>1 DEF ReadsATensor, LoadHasLayer, LoadingFlies, Reads
<1>2. CASE Pread(w)
  <2>1. /\ CountsExact' /\ Flying' = Flying /\ worker' \in [Workers -> WorkerState]
        /\ \A v \in Workers : v \in Busy' <=> v \in Busy
        /\ \A v \in Workers : worker'[v].task = worker[v].task
    BY <1>2, PreadStep
  <2>2. /\ UNCHANGED <<layer_status, parked, pool_open, chan, remaining>>
        /\ \E done : mem' = AfterRead(done)
    BY <1>2 DEF Pread
  <2>3. mem' \in [Cells -> Data \cup {Empty}]
    <3>1. PICK done : mem' = AfterRead(done)
      BY <2>2
    <3>2. \A c \in Cells : mem[c] \in Data \cup {Empty}
      BY DEF IoTyped
    <3> QED
      BY <3>1, <3>2 DEF AfterRead
  <2>4. IoTyped'
    BY <2>1, <2>2, <2>3 DEF IoTyped, WorkerState
  <2> QED
    BY <1>0, <2>1, <2>2, <2>4 DEF ReadsATensor, LoadHasLayer, LoadingFlies, Reads
<1>3. CASE Count(w)
  <2> DEFINE t == worker[w].task
  <2>1. /\ IoTyped' /\ CountsExact' /\ Flying' \subseteq Flying
        /\ t \in Flying /\ \E y \in Flying' : y.load = t.load
        /\ \A x \in Flying : x \in Flying' \/ x = t
    BY <1>3, CountStep
  <2>2. UNCHANGED layer_status
    BY <1>3 DEF Count, CountThen
  <2> HIDE DEF t
  <2>3. PICK y \in Flying' : y.load = t.load
    BY <2>1
  <2>4. y.layer = t.layer
    BY <2>1, <2>3 DEF LoadHasLayer
  <2>5. LoadingFlies'
    BY <1>0, <2>1, <2>2, <2>4 DEF LoadingFlies
  <2> QED
    BY <2>1, <2>5 DEF ReadsATensor, LoadHasLayer, Reads
<1>4. CASE Publish(w)
  <2> DEFINE t == worker[w].task
  <2>1. t \in Flying
    BY <1>4, TaskInHand DEF Publish, Busy
  <2>2. t.layer \in Layers
    BY <2>1, LayersAndCells DEF ReadsATensor
  <2>3. /\ IoTyped' /\ CountsExact' /\ Flying' \subseteq Flying
        /\ \A x \in Flying : x \in Flying' \/ x = t
    BY <1>4, <2>2, PublishStep
  <2>4. layer_status' = [layer_status EXCEPT ![t.layer] = "Loaded"]
    BY <1>4 DEF Publish, PublishLoaded
  <2> HIDE DEF t
  <2>5. LoadingFlies'
    <3> SUFFICES ASSUME NEW l \in Layers, layer_status'[l] = "Loading"
                 PROVE  Sending(l)' \/ \E x \in Flying' : x.layer = l
      BY DEF LoadingFlies
    <3>1. layer_status[l] = "Loading" /\ l # t.layer
      BY <2>2, <2>4 DEF IoTyped
    <3> QED
      BY <1>0, <2>3, <3>1 DEF LoadingFlies
  <2> QED
    BY <2>3, <2>5 DEF ReadsATensor, LoadHasLayer, Reads
<1>5. CASE Exit(w)
  <2>1. IoTyped' /\ CountsExact' /\ Flying' = Flying /\ UNCHANGED layer_status
    BY <1>5, ExitStep
  <2> QED
    BY <1>0, <2>1 DEF ReadsATensor, LoadHasLayer, LoadingFlies, Reads
<1> QED
  BY <1>1, <1>2, <1>3, <1>4, <1>5 DEF Work

\* There is always an identity for a new load: finitely many are in use.
LEMMA FreshLoadIsFresh ==
  ASSUME IsFiniteSet(Workers), ~IsFiniteSet(Loads), IoTyped
  PROVE  FreshLoad \in Loads /\ \A x \in Flying : x.load # FreshLoad
<1>1. \E c \in Loads : IdleLoad(c)
  <2> SUFFICES ASSUME \A c \in Loads : ~IdleLoad(c) PROVE FALSE
    OBVIOUS
  <2> DEFINE I == 1..Len(chan)
             A == {chan[k].load : k \in I}
             B == {worker[v].task.load : v \in Workers}
             f == [k \in I |-> chan[k].load]
             g == [v \in Workers |-> worker[v].task.load]
  <2>1. IsFiniteSet(I)
    <3>1. Len(chan) \in Nat
      BY DEF IoTyped
    <3> QED
      BY <3>1, FS_Interval
  <2>2. f \in Surjection(I, A)
    BY DEF Surjection
  <2>3. g \in Surjection(Workers, B)
    BY DEF Surjection
  <2>4. \A c \in Loads : c \in A \cup B
    BY DEF IdleLoad
  <2> HIDE DEF I, A, B, f, g
  <2>5. IsFiniteSet(A) /\ IsFiniteSet(B)
    BY <2>1, <2>2, <2>3, FS_Surjection
  <2>6. IsFiniteSet(A \cup B)
    BY <2>5, FS_Union
  <2>7. Loads \in SUBSET (A \cup B)
    BY <2>4
  <2> QED
    BY <2>6, <2>7, FS_Subset
<1>2. FreshLoad \in Loads /\ IdleLoad(FreshLoad)
  BY <1>1, Zenon DEF FreshLoad
<1>3. ASSUME NEW x \in Flying PROVE x.load # FreshLoad
  <2>1. CASE x \in Queued
    BY <1>2, <2>1 DEF Queued, IdleLoad
  <2>2. CASE x \notin Queued
    <3>1. PICK v \in Workers : v \in Busy /\ worker[v].task = x
      BY <2>2 DEF Flying, Busy
    <3>2. worker[v].task # NoTask
      BY <3>1, TaskInHand
    <3> QED
      BY <1>2, <3>1, <3>2 DEF IdleLoad
  <2> QED
    BY <2>1, <2>2
<1> QED
  BY <1>2, <1>3

\* The tasks of a load: one for each tensor.
LEMMA LoadTasksFacts ==
  ASSUME PP!SlotPoolTypeOK, SlotsWhole, NEW c \in Loads, NEW l \in StreamingLayers, layer_slots[l] # <<>>
  PROVE  /\ LoadTasks(c, l) \in Seq(Tasks) /\ Len(LoadTasks(c, l)) = Tensors
         /\ \A t \in 1..Tensors :
              /\ layer_slots[l][t] \in Cells /\ LoadTasks(c, l)[t] \in Tasks
              /\ LoadTasks(c, l)[t].load = c /\ LoadTasks(c, l)[t].layer = l
              /\ LoadTasks(c, l)[t].update_status
              /\ Reads(LoadTasks(c, l)[t], t, layer_slots[l][t])
<1>1. l \in Layers /\ Tensors \in Nat
  BY LayersAndCells
<1>2. layer_slots[l] \in Seq(Cells) /\ Len(layer_slots[l]) = Tensors
  BY <1>1, LayersAndCells DEF PP!SlotPoolTypeOK, SlotsWhole
<1> DEFINE one(t) == Task(c, l, TRUE, {<<layer_slots[l][t], <<l, t>>>>})
<1>3. ASSUME NEW t \in 1..Tensors
      PROVE  /\ layer_slots[l][t] \in Cells /\ one(t) \in Tasks
             /\ one(t).load = c /\ one(t).layer = l /\ one(t).update_status
             /\ Reads(one(t), t, layer_slots[l][t])
  <2>1. layer_slots[l][t] \in Cells
    BY <1>2
  <2>2. <<layer_slots[l][t], <<l, t>>>> \in Cells \X Data
    BY <1>1, <2>1, DenseAssumption
  <2> QED
    BY <1>1, <2>1, <2>2 DEF Task, Tasks, Reads
<1>4. LoadTasks(c, l) = [t \in 1..Tensors |-> one(t)]
  BY DEF LoadTasks
<1> HIDE DEF one
<1>5. LoadTasks(c, l) \in [1..Tensors -> Tasks]
  BY <1>3, <1>4
<1>6. LoadTasks(c, l) \in Seq(Tasks) /\ Len(LoadTasks(c, l)) = Tensors
  <2>1. LoadTasks(c, l) \in Seq(Tasks)
    BY <1>1, <1>5
  <2>2. DOMAIN LoadTasks(c, l) = 1..Tensors /\ DOMAIN LoadTasks(c, l) = 1..Len(LoadTasks(c, l))
        /\ Len(LoadTasks(c, l)) \in Nat
    BY <1>5, <2>1, LenProperties
  <2> QED
    BY <1>1, <2>1, <2>2
<1>7. \A t \in 1..Tensors : LoadTasks(c, l)[t] = one(t)
  BY <1>4
<1> QED
  BY <1>3, <1>6, <1>7

\* The sends of one load: its tasks, and no others, are new.
LEMMA SendStep ==
  ASSUME IsFiniteSet(Workers), ~IsFiniteSet(Loads), PoolInv, PP!SlotPoolTypeOK, IoInv, SendTasks
  PROVE  /\ IoTyped' /\ CountsExact'
         /\ \E c \in Loads :
              LET new == {LoadTasks(c, Target)[t] : t \in 1..Tensors}
              IN /\ \A x \in Flying : x.load # c
                 /\ Flying' = Flying \cup new /\ Unread' = Unread \cup new
<1> USE DEF PoolInv, IoInv
<1> DEFINE c == FreshLoad
           l == Target
           tasks == LoadTasks(c, l)
           new == {tasks[t] : t \in 1..Tensors}
<1>1. /\ pc \in {"ask_send", "prefetch_send"}
      /\ remaining' = [remaining EXCEPT ![c] = Len(tasks)] /\ chan' = chan \o tasks
      /\ UNCHANGED <<layer_status, parked, pool_open, worker, mem, slotVars>>
  BY DEF SendTasks, Send
<1>2. c \in Loads /\ \A x \in Flying : x.load # c
  BY FreshLoadIsFresh
<1>3. l \in StreamingLayers /\ layer_slots[l] # <<>>
  BY <1>1, TargetIsStreaming DEF SlotsWhole
<1> HIDE DEF c, l
<1>4. /\ tasks \in Seq(Tasks) /\ Len(tasks) = Tensors /\ Tensors \in Nat
      /\ \A t \in 1..Tensors : tasks[t] \in Tasks /\ tasks[t].load = c
  BY <1>2, <1>3, LoadTasksFacts, LayersAndCells
<1> HIDE DEF tasks
<1>5. chan \in Seq(Tasks)
  BY DEF IoTyped
<1>6. /\ chan' \in Seq(Tasks) /\ Len(chan') = Len(chan) + Tensors /\ Len(chan) \in Nat
      /\ \A k \in 1..(Len(chan) + Tensors) :
           chan'[k] = IF k <= Len(chan) THEN chan[k] ELSE tasks[k - Len(chan)]
  <2>1. /\ chan \o tasks \in Seq(Tasks)
        /\ Len(chan \o tasks) = Len(chan) + Len(tasks)
        /\ \A k \in 1..(Len(chan) + Len(tasks)) :
             (chan \o tasks)[k] = IF k <= Len(chan) THEN chan[k] ELSE tasks[k - Len(chan)]
    BY <1>4, <1>5, ConcatFacts, Zenon
  <2>2. Len(chan) \in Nat
    BY <1>5
  <2> QED
    BY <1>1, <1>4, <2>1, <2>2, Zenon
<1>7. IoTyped'
  <2>1. remaining' \in [Loads -> Nat]
    BY <1>1, <1>4 DEF IoTyped
  <2>2. Busy' = Busy
    BY <1>1 DEF Busy
  <2> QED
    BY <1>1, <1>6, <2>1, <2>2 DEF IoTyped
<1>8. Queued' = Queued \cup new
  <2>1. ASSUME NEW k \in 1..Len(chan') PROVE chan'[k] \in Queued \cup new
    <3>1. CASE k <= Len(chan)
      BY <1>6, <3>1 DEF Queued
    <3>2. CASE ~(k <= Len(chan))
      <4>1. k - Len(chan) \in 1..Tensors /\ chan'[k] = tasks[k - Len(chan)]
        BY <1>4, <1>6, <3>2
      <4> QED
        BY <4>1
    <3> QED
      BY <3>1, <3>2
  <2>2. ASSUME NEW k \in 1..Len(chan) PROVE chan[k] \in Queued'
    <3>1. k \in 1..Len(chan') /\ k \in 1..(Len(chan) + Tensors) /\ k <= Len(chan)
      BY <1>4, <1>6
    <3>2. chan'[k] = chan[k]
      BY <1>6, <3>1
    <3> QED
      BY <3>1, <3>2 DEF Queued
  <2>3. ASSUME NEW t \in 1..Tensors PROVE tasks[t] \in Queued'
    <3> DEFINE k == Len(chan) + t
    <3>1. k \in 1..Len(chan') /\ k \in 1..(Len(chan) + Tensors) /\ ~(k <= Len(chan)) /\ k - Len(chan) = t
      BY <1>4, <1>6
    <3> HIDE DEF k
    <3>2. chan'[k] = tasks[t]
      BY <1>6, <3>1
    <3> QED
      BY <3>1, <3>2 DEF Queued
  <2> HIDE DEF new
  <2>4. Queued' \subseteq Queued \cup new
    BY <2>1 DEF Queued
  <2>5. Queued \subseteq Queued'
    BY <2>2 DEF Queued
  <2>6. new \subseteq Queued'
    BY <2>3 DEF new
  <2> QED
    BY <2>4, <2>5, <2>6
<1>9. Flying' = Flying \cup new /\ Unread' = Unread \cup new
  <2> HIDE DEF new
  <2> QED
    BY <1>1, <1>8 DEF Flying, Busy, Unread
<1>10. CountsExact'
  <2> SUFFICES ASSUME NEW b \in Loads
               PROVE  remaining'[b] = Cardinality(QueuedOf(b)') + Cardinality(HeldOf(b)')
    BY DEF CountsExact
  <2>1. HeldOf(b)' = HeldOf(b)
    BY <1>1 DEF HeldOf, Held
  <2>2. QueuedOf(b)' = PlacesOf(chan \o tasks, OfLoad(b))
    BY <1>1 DEF QueuedOf, OfLoad, Tasks, PlacesOf
  <2>3. Cardinality(QueuedOf(b)') = Cardinality(QueuedOf(b)) + Cardinality(PlacesOf(tasks, OfLoad(b)))
    BY <1>4, <1>5, <2>2, PlacesOfConcat DEF QueuedOf
  <2>4. remaining[b] = Cardinality(QueuedOf(b)) + Cardinality(HeldOf(b))
    BY DEF CountsExact
  <2>5. Cardinality(QueuedOf(b)) \in Nat /\ Cardinality(HeldOf(b)) \in Nat
    BY CountsAreFinite
  <2>6. CASE b = c
    <3>1. PlacesOf(tasks, OfLoad(b)) = 1..Tensors
      BY <1>4, <2>6 DEF PlacesOf, OfLoad
    <3>2. Cardinality(PlacesOf(tasks, OfLoad(b))) = Tensors
      BY <1>4, <3>1, FS_Interval, LayersAndCells
    <3>3. QueuedOf(b) = {}
      <4> SUFFICES ASSUME NEW k \in QueuedOf(b) PROVE FALSE
        OBVIOUS
      <4>1. k \in 1..Len(chan) /\ chan[k].load = b
        BY DEF QueuedOf, PlacesOf, OfLoad
      <4> QED
        BY <1>2, <2>6, <4>1 DEF Flying, Queued
    <3>4. HeldOf(b) = {}
      BY <1>2, <2>6 DEF HeldOf, Held, Flying, Busy
    <3>5. Cardinality(QueuedOf(b)) = 0 /\ Cardinality(HeldOf(b)) = 0
      BY <3>3, <3>4, FS_EmptySet
    <3>6. remaining'[b] = Tensors
      BY <1>1, <1>4, <2>6 DEF IoTyped
    <3> QED
      BY <1>4, <2>1, <2>3, <3>2, <3>5, <3>6
  <2>7. CASE b # c
    <3>1. PlacesOf(tasks, OfLoad(b)) = {}
      BY <1>4, <2>7 DEF PlacesOf, OfLoad
    <3>2. Cardinality(PlacesOf(tasks, OfLoad(b))) = 0
      BY <3>1, FS_EmptySet
    <3>3. remaining'[b] = remaining[b]
      BY <1>1, <2>7 DEF IoTyped
    <3> QED
      BY <2>1, <2>3, <2>4, <2>5, <3>2, <3>3
  <2> QED
    BY <2>6, <2>7
<1> QED
  BY <1>2, <1>7, <1>9, <1>10 DEF tasks, l

\* A step that leaves tasks and counters alone.
LEMMA TasksStay ==
  ASSUME IoTyped, UNCHANGED <<chan, worker, remaining>>
  PROVE  /\ Flying' = Flying /\ Unread' = Unread
         /\ CountsExact => CountsExact'
         /\ ReadsATensor => ReadsATensor'
         /\ LoadHasLayer => LoadHasLayer'
         /\ layer_status' \in [Layers -> LayerStatus] /\ parked' \in BOOLEAN /\ pool_open' \in BOOLEAN
            /\ mem' \in [Cells -> Data \cup {Empty}] => IoTyped'
<1>1. Queued' = Queued /\ Busy' = Busy
  BY DEF Queued, Busy
<1>2. Flying' = Flying /\ Unread' = Unread
  BY <1>1 DEF Flying, Busy, Unread
<1>3. \A c \in Loads : QueuedOf(c)' = QueuedOf(c) /\ HeldOf(c)' = HeldOf(c)
  BY DEF QueuedOf, PlacesOf, OfLoad, Tasks, HeldOf, Held
<1>4. CountsExact => CountsExact'
  BY <1>3 DEF CountsExact
<1> QED
  BY <1>1, <1>2, <1>4 DEF ReadsATensor, LoadHasLayer, IoTyped, Reads

\* No task is under way at the start.
LEMMA IoInvInit == IsFiniteSet(Workers) /\ Init => IoInv
<1> SUFFICES ASSUME IsFiniteSet(Workers), Init PROVE IoInv
  OBVIOUS
<1> USE DEF Init, PoolInit
<1>1. Queued = {} /\ Busy = {}
  BY DEF Queued, Busy
<1>2. Flying = {}
  BY <1>1 DEF Flying
<1>3. IoTyped
  <2>1. \A w \in Workers : w \in Busy <=> worker[w].task # NoTask
    BY <1>1
  <2>2. chan \in Seq(Tasks)
    BY EmptySeq
  <2>3. worker \in [Workers -> WorkerState]
    BY DEF WorkerState
  <2>4. /\ layer_status \in [Layers -> LayerStatus] /\ remaining \in [Loads -> Nat]
        /\ mem \in [Cells -> Data \cup {Empty}] /\ parked \in BOOLEAN /\ pool_open \in BOOLEAN
    BY DEF LayerStatus
  <2> QED
    BY <2>1, <2>2, <2>3, <2>4 DEF IoTyped, WorkerState
<1>4. ReadsATensor /\ LoadHasLayer /\ LoadingFlies
  BY <1>2 DEF ReadsATensor, LoadHasLayer, LoadingFlies
<1>5. CountsExact
  <2> SUFFICES ASSUME NEW c \in Loads
               PROVE  remaining[c] = Cardinality(QueuedOf(c)) + Cardinality(HeldOf(c))
    BY DEF CountsExact
  <2>1. QueuedOf(c) = {} /\ HeldOf(c) = {}
    BY DEF QueuedOf, PlacesOf, HeldOf, Held
  <2> QED
    BY <2>1, FS_EmptySet
<1> QED
  BY <1>3, <1>4, <1>5 DEF IoInv

\* Every step keeps what holds of the tasks.
LEMMA IoInvNext ==
  ASSUME IsFiniteSet(Workers), ~IsFiniteSet(Loads), PoolInv, PP!SlotPoolTypeOK, IoInv, [Next]_vars
  PROVE  IoInv'
<1> USE DEF IoInv
<1>1. CASE SendTasks
  <2>1. /\ IoTyped' /\ CountsExact'
        /\ \E c \in Loads :
             LET new == {LoadTasks(c, Target)[t] : t \in 1..Tensors}
             IN /\ \A x \in Flying : x.load # c
                /\ Flying' = Flying \cup new /\ Unread' = Unread \cup new
    BY <1>1, SendStep
  <2>2. PICK c \in Loads :
             LET new == {LoadTasks(c, Target)[t] : t \in 1..Tensors}
             IN /\ \A x \in Flying : x.load # c
                /\ Flying' = Flying \cup new /\ Unread' = Unread \cup new
    BY <2>1
  <2> DEFINE tasks == LoadTasks(c, Target)
             new == {tasks[t] : t \in 1..Tensors}
  <2>3. pc \in {"ask_send", "prefetch_send"} /\ pc' \in {"await", "prefetch"} /\ UNCHANGED layer_status
    BY <1>1 DEF SendTasks
  <2>4. Target \in StreamingLayers /\ layer_slots[Target] # <<>>
    BY <2>3, TargetIsStreaming DEF PoolInv, SlotsWhole
  <2>5. \A t \in 1..Tensors :
          /\ tasks[t].load = c /\ tasks[t].layer = Target /\ tasks[t].update_status
          /\ \E u \in 1..Tensors, s \in Cells : Reads(tasks[t], u, s)
    BY <2>4, LoadTasksFacts DEF PoolInv
  <2>6. (\A x \in Flying : x.load # c) /\ Flying' = Flying \cup new
    BY <2>2
  <2> HIDE DEF tasks
  <2>7. \A x \in new : /\ x.load = c /\ x.layer = Target /\ x.update_status
                       /\ \E u \in 1..Tensors, s \in Cells : Reads(x, u, s)
    BY <2>5
  <2>8. \E x \in new : x.layer = Target
    <3>1. 1 \in 1..Tensors
      BY LayersAndCells
    <3> QED
      BY <2>5, <3>1
  <2> HIDE DEF new
  <2>9. ReadsATensor'
    BY <2>4, <2>6, <2>7 DEF ReadsATensor, Reads
  <2>10. LoadHasLayer'
    BY <2>6, <2>7 DEF LoadHasLayer
  <2>11. LoadingFlies'
    <3> SUFFICES ASSUME NEW l \in Layers, layer_status'[l] = "Loading"
                 PROVE  \E x \in Flying' : x.layer = l
      BY DEF LoadingFlies
    <3>1. CASE l = Target
      BY <2>6, <2>8, <3>1
    <3>2. CASE l # Target
      BY <2>3, <2>6, <3>2 DEF LoadingFlies, Sending
    <3> QED
      BY <3>1, <3>2
  <2> QED
    BY <2>1, <2>9, <2>10, <2>11
<1>2. CASE Mark
  <2>1. /\ UNCHANGED <<chan, worker, remaining, parked, pool_open, mem>>
        /\ layer_status' = [layer_status EXCEPT ![Target] = "Loading"]
        /\ pc \in {"ask_mark", "prefetch_mark"} /\ pc' \in {"ask_send", "prefetch_send"} /\ Target' = Target
    BY <1>2 DEF Mark, Target, Ensuring
  <2>2. layer_status' \in [Layers -> LayerStatus]
    BY <2>1 DEF IoTyped, LayerStatus
  <2>3. IoTyped' /\ CountsExact' /\ ReadsATensor' /\ LoadHasLayer' /\ Flying' = Flying
    <3>1. parked' \in BOOLEAN /\ pool_open' \in BOOLEAN /\ mem' \in [Cells -> Data \cup {Empty}]
      BY <2>1 DEF IoTyped
    <3> QED
      BY <2>1, <2>2, <3>1, TasksStay
  <2>4. LoadingFlies'
    <3> SUFFICES ASSUME NEW l \in Layers, layer_status'[l] = "Loading"
                 PROVE  Sending(l)' \/ \E x \in Flying' : x.layer = l
      BY DEF LoadingFlies
    <3>1. CASE l = Target
      BY <2>1, <3>1 DEF Sending
    <3>2. CASE l # Target
      <4>1. layer_status[l] = "Loading"
        BY <2>1, <3>2 DEF IoTyped
      <4> QED
        BY <2>1, <2>3, <4>1 DEF LoadingFlies, Sending
    <3> QED
      BY <3>1, <3>2
  <2> QED
    BY <2>3, <2>4
<1>3. CASE Allocate \/ Post
  <2>1. /\ UNCHANGED <<chan, worker, remaining, layer_status, parked, pool_open>>
        /\ pc \in {"ask_alloc", "prefetch_alloc", "post"}
        /\ pc' \in {"ask_alloc", "prefetch_alloc", "ask_mark", "prefetch_mark", "unload", "look_ahead"}
    BY <1>3 DEF Allocate, Post
  <2>2. \A s \in Cells : mem[s] \in Data \cup {Empty}
    BY DEF IoTyped
  <2>3. mem' \in [Cells -> Data \cup {Empty}]
    <3>1. mem \in [Cells -> Data \cup {Empty}]
      BY DEF IoTyped
    <3>2. CASE Allocate
      BY <2>2, <3>2 DEF Allocate
    <3>3. CASE Post
      BY <2>2, <3>1, <3>3 DEF Post
    <3> QED
      BY <1>3, <3>2, <3>3
  <2>4. IoTyped' /\ CountsExact' /\ ReadsATensor' /\ LoadHasLayer' /\ Flying' = Flying
    <3>1. layer_status' \in [Layers -> LayerStatus] /\ parked' \in BOOLEAN /\ pool_open' \in BOOLEAN
      BY <2>1 DEF IoTyped
    <3> QED
      BY <2>1, <2>3, <3>1, TasksStay
  <2> QED
    BY <2>1, <2>4 DEF LoadingFlies, Sending
<1>4. CASE Unload
  <2>1. /\ UNCHANGED <<chan, worker, remaining, parked, pool_open, mem>>
        /\ layer_status' = [layer_status EXCEPT ![prev] = "NotLoaded"]
        /\ pc = "unload" /\ pc' = "look_ahead"
    BY <1>4 DEF Unload
  <2>2. layer_status' \in [Layers -> LayerStatus]
    BY <2>1 DEF IoTyped, LayerStatus
  <2>3. IoTyped' /\ CountsExact' /\ ReadsATensor' /\ LoadHasLayer' /\ Flying' = Flying
    <3>1. parked' \in BOOLEAN /\ pool_open' \in BOOLEAN /\ mem' \in [Cells -> Data \cup {Empty}]
      BY <2>1 DEF IoTyped
    <3> QED
      BY <2>1, <2>2, <3>1, TasksStay
  <2>4. \A l \in Layers : layer_status'[l] = "Loading" => layer_status[l] = "Loading"
    BY <2>1 DEF IoTyped
  <2> QED
    BY <2>1, <2>3, <2>4 DEF LoadingFlies, Sending
<1>5. CASE Prefetch \/ StartPass \/ Finish \/ Ask \/ Await \/ Compute \/ LookAhead \/ Advance \/ Stop \/ Join
  <2>1. /\ UNCHANGED <<chan, worker, remaining, layer_status, mem>>
        /\ parked' \in BOOLEAN /\ pool_open' \in BOOLEAN
        /\ pc \notin {"ask_send", "prefetch_send"}
    BY <1>5 DEF Prefetch, StartPass, Finish, Ask, AskIf, Await, Compute, LookAhead, Advance, Stop, Join,
                poolVars, CloseChannel, IoTyped
  <2>2. layer_status' \in [Layers -> LayerStatus] /\ mem' \in [Cells -> Data \cup {Empty}]
    BY <2>1 DEF IoTyped
  <2>3. IoTyped' /\ CountsExact' /\ ReadsATensor' /\ LoadHasLayer' /\ Flying' = Flying
    BY <2>1, <2>2, TasksStay
  <2> QED
    BY <2>1, <2>3 DEF LoadingFlies, Sending
<1>6. CASE \E w \in Workers : IoThread(w)
  BY <1>6, WorkKeepsIo DEF IoThread
<1>7. CASE Terminated \/ UNCHANGED vars
  <2>1. UNCHANGED <<poolVars, threadVars>>
    BY <1>7 DEF Terminated, vars
  <2>2. UNCHANGED <<chan, worker, remaining, layer_status, parked, pool_open, mem>>
        /\ \A l \in Layers : Sending(l)' = Sending(l)
    BY <2>1 DEF poolVars, threadVars, Sending, Target, Ensuring
  <2>3. /\ layer_status' \in [Layers -> LayerStatus] /\ mem' \in [Cells -> Data \cup {Empty}]
        /\ parked' \in BOOLEAN /\ pool_open' \in BOOLEAN
    BY <2>2 DEF IoTyped
  <2>4. IoTyped' /\ CountsExact' /\ ReadsATensor' /\ LoadHasLayer' /\ Flying' = Flying
    BY <2>2, <2>3, TasksStay
  <2> QED
    BY <2>2, <2>4 DEF LoadingFlies
<1> QED
  BY <1>1, <1>2, <1>3, <1>4, <1>5, <1>6, <1>7 DEF Next, ComputeThread

\* What the pool of slots always is.
LEMMA PoolAlways == Spec => []PoolInv /\ []PP!SlotPoolTypeOK
<1>1. PP!SlotPoolSpec => []PP!SlotPoolTypeOK
  BY PoolAssumption, PP!TypeCorrect
<1> QED
  BY <1>1, UsesSlotPool, PTL

\* The invariant of the tasks. Identities of loads do not run out: Arc makes one
\* for each load.
LEMMA IoAlways ==
  ASSUME IsFiniteSet(Workers), ~IsFiniteSet(Loads)
  PROVE  Spec => []IoInv
<1>1. Init => IoInv
  BY IoInvInit
<1>2. PoolInv /\ PP!SlotPoolTypeOK /\ IoInv /\ [Next]_vars => IoInv'
  BY IoInvNext
<1> QED
  BY <1>1, <1>2, PoolAlways, PTL DEF Spec

\* The counter of a load is exact, however many loads of a layer overlap: fetch_sub
\* does not pass zero, and one task of each load sees that it is the last
\* (io_worker, IoCompletion).
THEOREM ExactCounts ==
  ASSUME IsFiniteSet(Workers), ~IsFiniteSet(Loads)
  PROVE  Spec => []RemainingIsExact
<1>1. IoInv => RemainingIsExact
  <2> SUFFICES ASSUME IoInv, NEW c \in Loads
               PROVE  remaining[c] = Cardinality({k \in 1..Len(chan) : chan[k].load = c})
                        + Cardinality({w \in Workers : Held(w) /\ worker[w].task.load = c})
    BY DEF RemainingIsExact
  <2>1. \A k \in 1..Len(chan) : chan[k] \in Tasks
    BY DEF IoInv, IoTyped
  <2>2. QueuedOf(c) = {k \in 1..Len(chan) : chan[k].load = c}
    BY <2>1 DEF QueuedOf, PlacesOf, OfLoad
  <2> QED
    BY <2>2 DEF IoInv, CountsExact, HeldOf
<1> QED
  BY <1>1, IoAlways, PTL

\* The layer of a task is a layer, and a load of it is under way.
LEMMA FlyingIsUnderway ==
  ASSUME IoTyped, ReadsATensor, NEW x \in Flying
  PROVE  x.layer \in Layers /\ Underway(x.layer)
<1>1. x.layer \in Layers
  BY LayersAndCells DEF ReadsATensor
<1>2. CASE x \in Queued
  <2>1. PICK k \in 1..Len(chan) : chan[k] = x
    BY <1>2 DEF Queued
  <2> QED
    BY <1>1, <2>1 DEF Underway
<1>3. CASE x \notin Queued
  <2>1. PICK w \in Workers : w \in Busy /\ worker[w].task = x
    BY <1>3 DEF Flying, Busy
  <2> QED
    BY <1>1, <2>1 DEF IoTyped, Underway
<1> QED
  BY <1>2, <1>3

\* No wait in ensure_dense_ffn_loaded is in vain: while a layer is Loading, a load
\* of it is about to be sent, queued or in a worker's hands.
THEOREM LoadingComes ==
  ASSUME IsFiniteSet(Workers), ~IsFiniteSet(Loads)
  PROVE  Spec => []LoadingIsUnderway
<1>1. IoInv => LoadingIsUnderway
  <2> SUFFICES ASSUME IoInv, NEW l \in Layers, layer_status[l] = "Loading"
               PROVE  Sending(l) \/ Underway(l)
    BY DEF LoadingIsUnderway, Sending
  <2>1. CASE \E x \in Flying : x.layer = l
    BY <2>1, FlyingIsUnderway DEF IoInv
  <2> QED
    BY <2>1 DEF IoInv, LoadingFlies
<1> QED
  BY <1>1, IoAlways, PTL

-----------------------------------------------------------------------------
\* What SlotPool's theorems say of the slots.
PoolFacts == PP!SlotPoolTypeOK /\ PP!NoneShared /\ PP!NoneLost /\ PP!ClaimIsApart

\* They hold throughout: the pool is used as SlotPool says (UsesSlotPool).
LEMMA PoolFactsAlways == Spec => []PoolInv /\ []PoolFacts
<1>1. PP!SlotPoolInit => PP!SlotPoolTypeOK /\ PP!NoneShared /\ PP!NoneLost /\ PP!ClaimIsApart
  BY PoolAssumption, PP!TypeInit, PP!SharedInit, PP!LostInit
<1>2. PP!SlotPoolTypeOK /\ PP!NoneShared /\ PP!NoneLost /\ PP!ClaimIsApart
        /\ [PP!SlotPoolNext]_PP!slotVars
        => PP!SlotPoolTypeOK' /\ PP!NoneShared' /\ PP!NoneLost' /\ PP!ClaimIsApart'
  BY PoolAssumption, PP!TypeStep, PP!SharedStep, PP!LostStep
<1> QED
  BY <1>1, <1>2, UsesSlotPool, PTL DEF PP!SlotPoolSpec, PoolFacts

-----------------------------------------------------------------------------
\* What is in memory, step by step, as long as no layer was overtaken.

\* No two layers share a slot.
LEMMA SlotsApart ==
  ASSUME PoolInv, PoolFacts
  PROVE  /\ \A l \in Layers : Covered(l) => l \in StreamingLayers /\ Len(layer_slots[l]) = Tensors
                                /\ \A i \in 1..Tensors : layer_slots[l][i] \in Cells
         /\ \A l, m \in Layers : Covered(l) /\ Covered(m) =>
              \A i, j \in 1..Tensors : layer_slots[l][i] = layer_slots[m][j] => l = m /\ i = j
<1>1. \A l \in Layers : Covered(l) => l \in StreamingLayers /\ Len(layer_slots[l]) = Tensors
  BY DEF PoolInv, SlotsWhole, Covered
<1>2. \A l \in Layers : layer_slots[l] \in Seq(Cells)
  BY LayersAndCells DEF PoolFacts, PP!SlotPoolTypeOK
<1>3. \A l \in Layers : Covered(l) => \A i \in 1..Tensors : layer_slots[l][i] \in Cells
  BY <1>1, <1>2
<1>4. \A l, m \in Layers : Covered(l) /\ Covered(m) =>
        \A i, j \in 1..Tensors : layer_slots[l][i] = layer_slots[m][j] => l = m /\ i = j
  BY <1>1 DEF PoolFacts, PP!NoneShared, PP!Distinct, PP!Disjoint
<1> QED
  BY <1>1, <1>3, <1>4

\* A step that starts no task, publishes nothing, leaves the slots and the memory
\* of the layers in K alone and takes slots only from layers no task is of.
LEMMA MemStays ==
  ASSUME MemInv, ReadsATensor, NEW K, K \subseteq Layers,
         Flying' \subseteq Flying, Unread' = Unread,
         \A x \in Flying : x.layer \in K,
         \A l \in K : layer_slots'[l] = layer_slots[l],
         \A l \in K : Covered(l) =>
            \A i \in 1..Tensors : mem'[layer_slots[l][i]] = mem[layer_slots[l][i]],
         \A l \in K : layer_status'[l] = "Loaded" /\ ~Marking(l)' =>
            layer_status[l] = "Loaded" /\ ~Marking(l),
         \A l \in Layers \ K : layer_status'[l] = "Loaded" /\ Covered(l)' => Marking(l)',
         \A v \in Workers : worker'[v].pc = "publishing" =>
           worker[v].pc = "publishing" /\ worker'[v].task = worker[v].task
  PROVE  MemInv'
<1> USE DEF MemInv
<1>1. \A l \in K : /\ Covered(l)' <=> Covered(l)
                   /\ Right(l) => Right(l)'
  <2> TAKE l \in K
  <2>1. layer_slots'[l] = layer_slots[l]
    OBVIOUS
  <2>2. Covered(l)' <=> Covered(l)
    BY <2>1 DEF Covered
  <2>3. ASSUME Right(l) PROVE Right(l)'
    <3>1. Covered(l) /\ \A t \in 1..Tensors : mem[layer_slots[l][t]] = <<l, t>>
      BY <2>3 DEF Right
    <3>2. \A t \in 1..Tensors : mem'[layer_slots'[l][t]] = <<l, t>>
      BY <2>1, <3>1
    <3> QED
      BY <2>2, <3>1, <3>2, Zenon DEF Right
  <2> QED
    BY <2>2, <2>3
<1>2. OwnSlots'
  <2> SUFFICES ASSUME NEW x \in Flying', NEW t \in 1..Tensors, NEW s \in Cells, Reads(x, t, s)
               PROVE  Covered(x.layer)' /\ s = layer_slots'[x.layer][t]
    BY DEF OwnSlots, Reads
  <2>1. Covered(x.layer) /\ s = layer_slots[x.layer][t] /\ x.layer \in K
    BY DEF OwnSlots
  <2> QED
    BY <1>1, <2>1
<1>3. LoadsProgress'
  <2> SUFFICES ASSUME NEW x \in Flying', NEW t \in 1..Tensors
               PROVE  \/ mem'[layer_slots'[x.layer][t]] = <<x.layer, t>>
                      \/ \E y \in Unread' : y.load = x.load /\ y.layer = x.layer
                                            /\ Reads(y, t, layer_slots'[x.layer][t])
    BY DEF LoadsProgress, Reads
  <2>1. \/ mem[layer_slots[x.layer][t]] = <<x.layer, t>>
        \/ \E y \in Unread : y.load = x.load /\ y.layer = x.layer
                              /\ Reads(y, t, layer_slots[x.layer][t])
    BY DEF LoadsProgress
  <2>2. Covered(x.layer) /\ x.layer \in K
    BY DEF ReadsATensor, OwnSlots
  <2> QED
    BY <2>1, <2>2
<1>4. StatusTrue'
  <2>1. ASSUME NEW l \in Layers, layer_status'[l] = "Loaded", Covered(l)', ~Marking(l)'
        PROVE  Right(l)'
    <3>1. l \in K
      BY <2>1
    <3>2. Right(l)
      BY <1>1, <2>1, <3>1 DEF StatusTrue
    <3> QED
      BY <1>1, <3>1, <3>2
  <2>2. ASSUME NEW v \in Workers, NEW l, worker'[v].pc = "publishing", worker'[v].task.layer = l
        PROVE  Right(l)'
    <3>1. worker[v].pc = "publishing" /\ worker[v].task.layer = l
      BY <2>2
    <3>2. worker[v].task \in Flying
      BY <3>1 DEF Flying, Busy
    <3>3. l \in K /\ Right(l)
      BY <3>1, <3>2 DEF StatusTrue
    <3> QED
      BY <1>1, <3>3
  <2>3. \A v \in Workers : (worker[v].pc = "publishing" => Right(worker[v].task.layer))'
    <3> SUFFICES ASSUME NEW v \in Workers, worker'[v].pc = "publishing"
                 PROVE  (Right(worker[v].task.layer))'
      OBVIOUS
    <3>1. PICK l : l = worker'[v].task.layer
      OBVIOUS
    <3>2. Right(l)'
      BY <2>2, <3>1
    <3> QED
      BY <3>1, <3>2, Zenon DEF Right, Covered
  <2> QED
    BY <2>1, <2>3 DEF StatusTrue
<1> QED
  BY <1>2, <1>3, <1>4

\* Reading a tensor: its cell is the right slot of its layer.
LEMMA MemPread ==
  ASSUME ~IoFaults, PoolInv, PoolFacts, IoInv, MemInv, NEW w \in Workers, Pread(w),
         UNCHANGED <<threadVars, slotVars>>
  PROVE  MemInv'
<1> USE DEF MemInv
<1> DEFINE x == worker[w].task
<1>1. /\ Flying' = Flying /\ x \in Flying
      /\ Unread' \subseteq Unread /\ Unread \subseteq Unread' \cup {x}
      /\ \A v \in Workers : worker'[v].pc = "publishing" <=> worker[v].pc = "publishing"
      /\ \A v \in Workers : worker'[v].task = worker[v].task
  BY PreadStep DEF IoInv
<1>2. /\ UNCHANGED <<layer_status, layer_slots, pc, layer, todo>>
      /\ \E done \in SUBSET x.writes :
           (~IoFaults => done = x.writes) /\ mem' = AfterRead(done)
  BY DEF Pread, threadVars, slotVars
<1>3. mem' = AfterRead(x.writes)
  BY <1>2
<1> HIDE DEF x
<1>4. PICK t \in 1..Tensors, s \in Cells : Reads(x, t, s)
  BY <1>1 DEF IoInv, ReadsATensor
<1>5. x.layer \in Layers /\ <<x.layer, t>> \in Data
  BY <1>1, LayersAndCells, DenseAssumption DEF IoInv, ReadsATensor
<1>6. \A c \in Cells : mem'[c] = IF c = s THEN <<x.layer, t>> ELSE mem[c]
  <2> SUFFICES ASSUME NEW c \in Cells
               PROVE  mem'[c] = IF c = s THEN <<x.layer, t>> ELSE mem[c]
    OBVIOUS
  <2>1. mem'[c] = IF \E d \in Data : <<c, d>> \in x.writes
                    THEN CHOOSE d \in Data : <<c, d>> \in x.writes ELSE mem[c]
    BY <1>3 DEF AfterRead
  <2>2. \A d \in Data : <<c, d>> \in x.writes <=> c = s /\ d = <<x.layer, t>>
    BY <1>4 DEF Reads
  <2>3. CASE c = s
    <3>1. \E d \in Data : <<c, d>> \in x.writes
      BY <1>5, <2>2, <2>3
    <3>2. mem'[c] \in Data /\ <<c, mem'[c]>> \in x.writes
      BY <2>1, <3>1
    <3> QED
      BY <2>2, <2>3, <3>2
  <2>4. CASE c # s
    BY <2>1, <2>2, <2>4
  <2> QED
    BY <2>3, <2>4
<1>7. /\ \A l \in Layers : Covered(l) => \A i \in 1..Tensors : layer_slots[l][i] \in Cells
      /\ \A l, m \in Layers : Covered(l) /\ Covered(m) =>
           \A i, j \in 1..Tensors : layer_slots[l][i] = layer_slots[m][j] => l = m /\ i = j
  BY SlotsApart
<1>8. \A l \in Layers : Covered(l) => \A i \in 1..Tensors :
        \/ mem'[layer_slots[l][i]] = mem[layer_slots[l][i]]
        \/ mem'[layer_slots[l][i]] = <<l, i>>
  <2> SUFFICES ASSUME NEW l \in Layers, Covered(l), NEW i \in 1..Tensors, layer_slots[l][i] = s
               PROVE  l = x.layer /\ i = t
    BY <1>6, <1>7
  <2>1. Covered(x.layer) /\ s = layer_slots[x.layer][t]
    BY <1>1, <1>4 DEF OwnSlots
  <2> QED
    BY <1>5, <1>7, <2>1
<1>9. \A l \in Layers : Covered(l) =>
        \A i \in 1..Tensors : mem[layer_slots[l][i]] = <<l, i>> => mem'[layer_slots[l][i]] = <<l, i>>
  BY <1>8
<1>10. \A l \in Layers : (Right(l) => Right(l)') /\ (Covered(l)' <=> Covered(l))
  BY <1>2, <1>9 DEF Right, Covered
<1>11. OwnSlots'
  BY <1>1, <1>2 DEF OwnSlots, Covered, Reads
<1>12. LoadsProgress'
  <2> SUFFICES ASSUME NEW y \in Flying, NEW i \in 1..Tensors
               PROVE  \/ mem'[layer_slots[y.layer][i]] = <<y.layer, i>>
                      \/ \E z \in Unread' : z.load = y.load /\ z.layer = y.layer
                                            /\ Reads(z, i, layer_slots[y.layer][i])
    <3> DEFINE read(y, i) == \/ mem'[layer_slots'[y.layer][i]] = <<y.layer, i>>
                             \/ \E z \in Unread' : z.load = y.load /\ z.layer = y.layer
                                                   /\ Reads(z, i, layer_slots'[y.layer][i])
    <3>1. \A y \in Flying' : \A i \in 1..Tensors : read(y, i)
      BY <1>1, <1>2
    <3> QED
      BY <3>1, Zenon DEF LoadsProgress, Reads
  <2>1. Covered(y.layer) /\ y.layer \in Layers
    BY LayersAndCells DEF IoInv, ReadsATensor, OwnSlots
  <2>2. CASE mem[layer_slots[y.layer][i]] = <<y.layer, i>>
    BY <1>9, <2>1, <2>2
  <2>3. ASSUME NEW z \in Unread, z.load = y.load, z.layer = y.layer,
               Reads(z, i, layer_slots[y.layer][i])
        PROVE  \/ mem'[layer_slots[y.layer][i]] = <<y.layer, i>>
               \/ z \in Unread'
    <3> SUFFICES ASSUME z = x PROVE mem'[layer_slots[y.layer][i]] = <<y.layer, i>>
      BY <1>1
    <3>1. layer_slots[y.layer][i] \in Cells
      BY <1>7, <2>1
    <3>2. <<layer_slots[y.layer][i], <<x.layer, i>>>> = <<s, <<x.layer, t>>>>
      BY <1>4, <2>3 DEF Reads
    <3> QED
      BY <1>6, <2>3, <3>1, <3>2
  <2>4. \/ mem[layer_slots[y.layer][i]] = <<y.layer, i>>
        \/ \E z \in Unread : z.load = y.load /\ z.layer = y.layer
                             /\ Reads(z, i, layer_slots[y.layer][i])
    BY DEF LoadsProgress
  <2> QED
    BY <2>2, <2>3, <2>4
<1>13. StatusTrue'
  <2>1. ASSUME NEW l \in Layers, layer_status'[l] = "Loaded", Covered(l)', ~Marking(l)'
        PROVE  Right(l)'
    <3>1. layer_status[l] = "Loaded" /\ Covered(l) /\ ~Marking(l)
      BY <1>2, <1>10, <2>1 DEF Marking, Target, Ensuring
    <3> QED
      BY <1>10, <3>1 DEF StatusTrue
  <2>2. ASSUME NEW v \in Workers, NEW l, worker'[v].pc = "publishing", worker'[v].task.layer = l
        PROVE  Right(l)'
    <3>1. worker[v].pc = "publishing" /\ worker[v].task.layer = l
      BY <1>1, <2>2
    <3>2. worker[v].task \in Flying
      BY <3>1 DEF Flying, Busy
    <3>3. l \in Layers
      BY <3>1, <3>2, FlyingIsUnderway DEF IoInv
    <3> QED
      BY <1>10, <3>1, <3>3 DEF StatusTrue
  <2>3. \A v \in Workers : (worker[v].pc = "publishing" => Right(worker[v].task.layer))'
    BY <2>2 DEF Right, Covered
  <2> QED
    BY <2>1, <2>3 DEF StatusTrue
<1> QED
  BY <1>11, <1>12, <1>13

\* The last count of a load: all its tasks have been read.
LEMMA MemCount ==
  ASSUME IsFiniteSet(Workers), PoolInv, PoolFacts, IoInv, MemInv, NEW w \in Workers, Count(w),
         UNCHANGED <<threadVars, slotVars>>
  PROVE  MemInv'
<1> USE DEF MemInv
<1> DEFINE x == worker[w].task
<1>1. /\ Flying' \subseteq Flying /\ Unread' = Unread /\ x \in Flying
      /\ \A v \in Workers : worker'[v].pc = "publishing" =>
           worker'[v].task = worker[v].task /\ (worker[v].pc = "publishing" \/ v = w)
      /\ worker'[w].pc = "publishing" => \A y \in Unread : y.load # x.load
  BY CountStep DEF IoInv
<1>2. UNCHANGED <<layer_status, layer_slots, mem, pc, layer, todo>>
  BY DEF Count, CountThen, threadVars, slotVars
<1> HIDE DEF x
<1>3. OwnSlots' /\ LoadsProgress'
  <2>1. OwnSlots'
    BY <1>1, <1>2 DEF OwnSlots, Covered, Reads
  <2>2. LoadsProgress'
    <3> DEFINE read(y, i) == \/ mem'[layer_slots'[y.layer][i]] = <<y.layer, i>>
                             \/ \E z \in Unread' : z.load = y.load /\ z.layer = y.layer
                                                   /\ Reads(z, i, layer_slots'[y.layer][i])
    <3>1. \A y \in Flying' : \A i \in 1..Tensors : read(y, i)
      BY <1>1, <1>2 DEF LoadsProgress
    <3> QED
      BY <3>1, Zenon DEF LoadsProgress, Reads
  <2> QED
    BY <2>1, <2>2
<1>4. \A l \in Layers : Right(l)' = Right(l) /\ Covered(l)' = Covered(l)
                        /\ (Marking(l)' <=> Marking(l))
  BY <1>2 DEF Right, Covered, Marking, Target, Ensuring
<1>5. worker'[w].pc = "publishing" => Right(x.layer)
  <2> SUFFICES ASSUME worker'[w].pc = "publishing" PROVE Right(x.layer)
    OBVIOUS
  <2>1. Covered(x.layer)
    BY <1>1 DEF IoInv, ReadsATensor, OwnSlots
  <2> QED
    BY <1>1, <2>1 DEF LoadsProgress, Right
<1>6. StatusTrue'
  <2>1. ASSUME NEW v \in Workers, worker'[v].pc = "publishing"
        PROVE  Right(worker[v].task.layer) /\ worker'[v].task.layer = worker[v].task.layer
    <3>1. CASE v = w
      BY <1>1, <1>5, <2>1, <3>1 DEF x
    <3>2. CASE v # w
      BY <1>1, <2>1, <3>2 DEF StatusTrue
    <3> QED
      BY <3>1, <3>2
  <2>2. \A v \in Workers : (worker[v].pc = "publishing" => Right(worker[v].task.layer))'
    BY <1>2, <2>1 DEF Right, Covered
  <2>3. \A l \in Layers :
          layer_status'[l] = "Loaded" /\ Covered(l)' /\ ~Marking(l)' => Right(l)'
    BY <1>2, <1>4 DEF StatusTrue
  <2> QED
    BY <2>2, <2>3 DEF StatusTrue
<1> QED
  BY <1>3, <1>6

\* Publishing a load: its layer's slots hold its tensors.
LEMMA MemPublish ==
  ASSUME PoolInv, PoolFacts, IoInv, MemInv, NEW w \in Workers, Publish(w),
         UNCHANGED <<threadVars, slotVars>>
  PROVE  MemInv'
<1> USE DEF MemInv
<1> DEFINE x == worker[w].task
<1>1. x \in Flying /\ worker[w].pc = "publishing"
  BY TaskInHand DEF Publish, Busy, IoInv
<1>2. x.layer \in Layers
  BY <1>1, LayersAndCells DEF IoInv, ReadsATensor
<1>3. /\ Flying' \subseteq Flying /\ Unread' = Unread
      /\ \A v \in Workers : worker'[v].pc = "publishing" =>
           worker'[v].task = worker[v].task /\ worker[v].pc = "publishing"
  BY <1>2, PublishStep DEF IoInv
<1>4. /\ UNCHANGED <<layer_slots, mem, pc, layer, todo>>
      /\ layer_status' = [layer_status EXCEPT ![x.layer] = "Loaded"]
  BY DEF Publish, PublishLoaded, threadVars, slotVars
<1>5. Right(x.layer)
  BY <1>1 DEF StatusTrue
<1> HIDE DEF x
<1>6. OwnSlots' /\ LoadsProgress'
  <2>1. OwnSlots'
    BY <1>3, <1>4 DEF OwnSlots, Covered, Reads
  <2>2. LoadsProgress'
    <3> DEFINE read(y, i) == \/ mem'[layer_slots'[y.layer][i]] = <<y.layer, i>>
                             \/ \E z \in Unread' : z.load = y.load /\ z.layer = y.layer
                                                   /\ Reads(z, i, layer_slots'[y.layer][i])
    <3>1. \A y \in Flying' : \A i \in 1..Tensors : read(y, i)
      BY <1>3, <1>4 DEF LoadsProgress
    <3> QED
      BY <3>1, Zenon DEF LoadsProgress, Reads
  <2> QED
    BY <2>1, <2>2
<1>7. \A l \in Layers : Right(l)' = Right(l) /\ Covered(l)' = Covered(l)
                        /\ (Marking(l)' <=> Marking(l))
  BY <1>4 DEF Right, Covered, Marking, Target, Ensuring
<1>8. \A l \in Layers : layer_status'[l] = IF l = x.layer THEN "Loaded" ELSE layer_status[l]
  BY <1>2, <1>4 DEF IoInv, IoTyped
<1>9. StatusTrue'
  <2>1. \A v \in Workers : worker'[v].pc = "publishing" =>
          Right(worker[v].task.layer) /\ worker'[v].task.layer = worker[v].task.layer
    BY <1>3 DEF StatusTrue
  <2>2. \A v \in Workers : (worker[v].pc = "publishing" => Right(worker[v].task.layer))'
    BY <1>4, <2>1 DEF Right, Covered
  <2>3. \A l \in Layers :
          layer_status'[l] = "Loaded" /\ Covered(l)' /\ ~Marking(l)' => Right(l)'
    BY <1>5, <1>7, <1>8 DEF StatusTrue
  <2> QED
    BY <2>2, <2>3 DEF StatusTrue
<1> QED
  BY <1>6, <1>9

\* An allocation takes slots only from an evicted layer, and gives slots only to a
\* layer that had none: no task reads into them. The layer is then marked Loading.
LEMMA MemAllocate ==
  ASSUME PoolInv, PoolFacts, IoInv, MemInv, Allocate, ~overtaken'
  PROVE  MemInv'
<1> DEFINE g == Target
           evicted == {l \in Layers \ {g} : layer_slots'[l] # layer_slots[l]}
           K == {l \in Layers : layer_slots'[l] = layer_slots[l]}
<1>1. /\ claim.layer = g /\ claim # Pool!NoClaim /\ g \in Layers
      /\ pc \in {"ask_alloc", "prefetch_alloc"}
  <2>1. pc \in {"ask_alloc", "prefetch_alloc"}
    BY DEF Allocate
  <2> QED
    BY <2>1, TargetIsStreaming DEF PoolInv, SlotsWhole
<1>2. /\ UNCHANGED <<layer_status, chan, remaining, worker, layer, todo>>
      /\ Pool!AllocateStep
      /\ mem' = [s \in Cells |->
           IF \E l \in evicted, i \in 1..Tensors : layer_slots[l][i] = s THEN Empty ELSE mem[s]]
      /\ \A l \in evicted : ~Underway(l)
      /\ pc' = IF claim' # Pool!NoClaim THEN pc
               ELSE IF Ensuring THEN "ask_mark" ELSE "prefetch_mark"
  BY <1>1 DEF Allocate
<1>3. Target' = g
  BY <1>1, <1>2 DEF Target, Ensuring
<1>4. Flying' = Flying /\ Unread' = Unread
  BY <1>2, TasksStay DEF IoInv
<1>5. ~Covered(g)
  BY <1>1 DEF PoolFacts, PP!ClaimIsApart, Covered
<1>6. \A l \in Layers \ K : Covered(l)' => l = g /\ pc' \in {"ask_mark", "prefetch_mark"}
  <2>1. CASE Pool!PopFree
    BY <2>1 DEF Pool!PopFree, Pool!PopWhile
  <2>2. CASE Pool!EvictOldest
    <3>1. \A l \in Layers : layer_slots'[l] = layer_slots[l] \/ layer_slots'[l] = <<>>
      BY <2>2 DEF Pool!EvictOldest, Pool!EvictLeaving, PoolFacts, PP!SlotPoolTypeOK
    <3> QED
      BY <3>1 DEF Covered
  <2>3. CASE Pool!EndAllocate
    <3>1. claim' = Pool!NoClaim /\ layer_slots' = [layer_slots EXCEPT ![g] = claim.slots]
      BY <1>1, <2>3 DEF Pool!EndAllocate
    <3>2. \A l \in Layers : l # g => layer_slots'[l] = layer_slots[l]
      BY <3>1 DEF PoolFacts, PP!SlotPoolTypeOK
    <3> QED
      BY <1>2, <3>1, <3>2
  <2> QED
    BY <1>2, <2>1, <2>2, <2>3 DEF Pool!AllocateStep
<1>7. \A l \in Layers : ~Marking(l)
  BY <1>1 DEF Marking
<1>8. \A l \in Layers \ K : Covered(l)' => Marking(l)'
  BY <1>3, <1>6 DEF Marking
<1>9. \A x \in Flying : x.layer \in K
  <2> SUFFICES ASSUME NEW x \in Flying PROVE x.layer \in K
    OBVIOUS
  <2>1. x.layer \in Layers /\ Underway(x.layer)
    BY FlyingIsUnderway DEF IoInv
  <2>2. x.layer # g
    BY <1>5 DEF MemInv, OwnSlots, IoInv, ReadsATensor
  <2> QED
    BY <1>2, <2>1, <2>2
<1>10. \A l \in K : Covered(l) =>
         \A i \in 1..Tensors : mem'[layer_slots[l][i]] = mem[layer_slots[l][i]]
  <2> SUFFICES ASSUME NEW l \in K, Covered(l), NEW i \in 1..Tensors
               PROVE  mem'[layer_slots[l][i]] = mem[layer_slots[l][i]]
    OBVIOUS
  <2>1. l \in Layers /\ layer_slots[l][i] \in Cells
    BY SlotsApart
  <2>2. ASSUME NEW m \in evicted, NEW j \in 1..Tensors, layer_slots[m][j] = layer_slots[l][i]
        PROVE  FALSE
    <3>1. m \in Layers /\ m # l /\ m # g /\ layer_slots'[m] # layer_slots[m]
      OBVIOUS
    <3>2. Covered(m)
      BY <1>6, <3>1 DEF Covered
    <3> QED
      BY <2>1, <2>2, <3>1, <3>2, SlotsApart
  <2> QED
    BY <1>2, <2>1, <2>2
<1>11. K \subseteq Layers /\ \A l \in K : layer_slots'[l] = layer_slots[l]
  OBVIOUS
<1>12. \A l \in K : layer_status'[l] = "Loaded" /\ ~Marking(l)' =>
         layer_status[l] = "Loaded" /\ ~Marking(l)
  BY <1>2, <1>7
<1>13. \A v \in Workers : worker'[v].pc = "publishing" =>
         worker[v].pc = "publishing" /\ worker'[v].task = worker[v].task
  BY <1>2
<1> HIDE DEF K, evicted, g
<1> QED
  BY <1>4, <1>8, <1>9, <1>10, <1>11, <1>12, <1>13, MemStays DEF IoInv

\* Marking a layer Loading: the step needs no memory.
LEMMA MemMark ==
  ASSUME PoolInv, IoInv, MemInv, Mark
  PROVE  MemInv'
<1>1. /\ pc \in {"ask_mark", "prefetch_mark"} /\ UNCHANGED <<chan, remaining, worker, mem, slotVars>>
      /\ layer_status' = [layer_status EXCEPT ![Target] = "Loading"]
  BY DEF Mark
<1>2. Target \in Layers
  BY <1>1, TargetIsStreaming DEF PoolInv
<1>3. Flying' = Flying /\ Unread' = Unread /\ UNCHANGED layer_slots
  BY <1>1, TasksStay DEF IoInv, slotVars
<1>4. \A l \in Layers : layer_status'[l] = IF l = Target THEN "Loading" ELSE layer_status[l]
  BY <1>1, <1>2 DEF IoInv, IoTyped
<1>5. \A l \in Layers : layer_status'[l] = "Loaded" => layer_status[l] = "Loaded" /\ ~Marking(l)
  BY <1>4 DEF Marking
<1>6. \A x \in Flying : x.layer \in Layers
  BY FlyingIsUnderway DEF IoInv
<1> QED
  BY <1>1, <1>3, <1>5, <1>6, MemStays DEF IoInv

\* Sending a load: its tasks read each tensor into the layer's own slots.
LEMMA MemSend ==
  ASSUME IsFiniteSet(Workers), ~IsFiniteSet(Loads), PoolInv, PoolFacts, IoInv, MemInv, SendTasks
  PROVE  MemInv'
<1> USE DEF MemInv
<1> DEFINE g == Target
<1>1. /\ pc \in {"ask_send", "prefetch_send"}
      /\ pc' \notin {"ask_mark", "prefetch_mark"}
      /\ UNCHANGED <<layer_status, worker, mem, slotVars>>
  BY DEF SendTasks
<1>2. g \in Layers /\ g \in StreamingLayers /\ Covered(g)
  BY <1>1, TargetIsStreaming DEF PoolInv, SlotsWhole, Covered
<1>3. PICK c \in Loads :
        LET new == {LoadTasks(c, g)[t] : t \in 1..Tensors}
        IN /\ \A x \in Flying : x.load # c
           /\ Flying' = Flying \cup new /\ Unread' = Unread \cup new
  BY SendStep DEF PoolFacts
<1> HIDE DEF g
<1> DEFINE tasks == LoadTasks(c, g)
           new == {tasks[t] : t \in 1..Tensors}
<1>4. Flying' = Flying \cup new /\ Unread' = Unread \cup new
  BY <1>3
<1>5. \A t \in 1..Tensors :
        /\ layer_slots[g][t] \in Cells /\ tasks[t].load = c /\ tasks[t].layer = g
        /\ Reads(tasks[t], t, layer_slots[g][t])
  BY <1>2, LoadTasksFacts DEF PoolFacts, PoolInv, Covered
<1> HIDE DEF tasks
<1>6. UNCHANGED <<layer_slots, layer_status, mem, worker>>
  BY <1>1 DEF slotVars
<1>7. \A x \in new : x.layer = g /\ x.load = c
                     /\ \E u \in 1..Tensors : Reads(x, u, layer_slots[g][u])
  BY <1>5
<1>8. \A x \in new, t \in 1..Tensors, s \in Cells : Reads(x, t, s) => s = layer_slots[g][t]
  <2> SUFFICES ASSUME NEW x \in new, NEW t \in 1..Tensors, NEW s \in Cells, Reads(x, t, s)
               PROVE  s = layer_slots[g][t]
    OBVIOUS
  <2>1. PICK u \in 1..Tensors : Reads(x, u, layer_slots[g][u])
    BY <1>7
  <2>2. <<s, <<x.layer, t>>>> = <<layer_slots[g][u], <<x.layer, u>>>>
    BY <2>1 DEF Reads
  <2> QED
    BY <2>2
<1>9. \A t \in 1..Tensors :
        \E y \in new : y.load = c /\ y.layer = g /\ Reads(y, t, layer_slots[g][t])
  BY <1>5
<1> HIDE DEF new
<1>10. OwnSlots'
  <2>1. ASSUME NEW x \in Flying \cup new, NEW t \in 1..Tensors, NEW s \in Cells, Reads(x, t, s)
        PROVE  Covered(x.layer) /\ s = layer_slots[x.layer][t]
    <3>1. CASE x \in Flying
      BY <2>1, <3>1 DEF OwnSlots
    <3>2. CASE x \in new
      BY <1>2, <1>7, <1>8, <2>1, <3>2
    <3> QED
      BY <3>1, <3>2
  <2> QED
    BY <1>4, <1>6, <2>1 DEF OwnSlots, Covered, Reads
<1>11. LoadsProgress'
  <2> DEFINE read(y, i) == \/ mem'[layer_slots'[y.layer][i]] = <<y.layer, i>>
                           \/ \E z \in Unread' : z.load = y.load /\ z.layer = y.layer
                                                 /\ Reads(z, i, layer_slots'[y.layer][i])
  <2>1. \A y \in Flying' : \A i \in 1..Tensors : read(y, i)
    <3> SUFFICES ASSUME NEW y \in Flying', NEW i \in 1..Tensors PROVE read(y, i)
      OBVIOUS
    <3>1. CASE y \in Flying
      <4>1. \/ mem[layer_slots[y.layer][i]] = <<y.layer, i>>
            \/ \E z \in Unread : z.load = y.load /\ z.layer = y.layer
                                 /\ Reads(z, i, layer_slots[y.layer][i])
        BY <1>6, <3>1 DEF LoadsProgress
      <4> QED
        BY <1>4, <1>6, <4>1
    <3>2. CASE y \in new
      <4>1. y.layer = g /\ y.load = c
        BY <1>7, <3>2
      <4>2. PICK z \in new : z.load = c /\ z.layer = g /\ Reads(z, i, layer_slots[g][i])
        BY <1>9
      <4> QED
        BY <1>4, <1>6, <4>1, <4>2
    <3> QED
      BY <1>4, <3>1, <3>2
  <2> QED
    BY <2>1, Zenon DEF LoadsProgress, Reads
<1>12. StatusTrue'
  BY <1>1, <1>6 DEF StatusTrue, Right, Covered, Marking
<1> QED
  BY <1>10, <1>11, <1>12

\* Releasing a layer no task is of empties no slot of another layer.
LEMMA MemPost ==
  ASSUME PoolInv, PoolFacts, IoInv, MemInv, Post, ~overtaken'
  PROVE  MemInv'
<1> DEFINE p == current_layer
<1>1. /\ UNCHANGED <<chan, remaining, worker, layer_status>>
      /\ pc = "post" /\ pc' \notin {"ask_mark", "prefetch_mark"}
      /\ \/ /\ p \in StreamingLayers /\ Pool!ReleaseSlots(p) /\ ~Underway(p)
            /\ mem' = [s \in Cells |->
                 IF \E i \in 1..Tensors : layer_slots[p] # <<>> /\ layer_slots[p][i] = s
                   THEN Empty ELSE mem[s]]
         \/ UNCHANGED <<mem, slotVars>>
  BY DEF Post, Streaming
<1>2. Flying' = Flying /\ Unread' = Unread
  BY <1>1, TasksStay DEF IoInv
<1>3. \A x \in Flying : x.layer \in Layers /\ Underway(x.layer)
  BY FlyingIsUnderway DEF IoInv
<1>4. \A l \in Layers : ~Marking(l) /\ ~Marking(l)'
  BY <1>1 DEF Marking
<1>5. CASE UNCHANGED <<mem, slotVars>>
  <2>1. UNCHANGED <<mem, layer_slots>>
    BY <1>5 DEF slotVars
  <2> QED
    BY <1>1, <1>2, <1>3, <1>4, <2>1, MemStays DEF IoInv
<1>6. CASE ~UNCHANGED <<mem, slotVars>>
  <2> DEFINE K == Layers \ {p}
  <2>1. /\ p \in Layers /\ ~Underway(p)
        /\ layer_slots' = [layer_slots EXCEPT ![p] = <<>>]
        /\ mem' = [s \in Cells |->
               IF \E i \in 1..Tensors : layer_slots[p] # <<>> /\ layer_slots[p][i] = s
                 THEN Empty ELSE mem[s]]
    BY <1>1, <1>6, LayersAndCells DEF Pool!ReleaseSlots
  <2>2. layer_slots'[p] = <<>> /\ \A l \in K : layer_slots'[l] = layer_slots[l]
    BY <2>1 DEF PoolFacts, PP!SlotPoolTypeOK
  <2>3. \A l \in K : Covered(l) =>
          \A i \in 1..Tensors : mem'[layer_slots[l][i]] = mem[layer_slots[l][i]]
    <3> SUFFICES ASSUME NEW l \in K, Covered(l), NEW i \in 1..Tensors
                 PROVE  mem'[layer_slots[l][i]] = mem[layer_slots[l][i]]
      OBVIOUS
    <3>1. l # p /\ l \in Layers /\ layer_slots[l][i] \in Cells
      BY SlotsApart
    <3>2. ~\E j \in 1..Tensors : layer_slots[p] # <<>> /\ layer_slots[p][j] = layer_slots[l][i]
      BY <2>1, <3>1, SlotsApart DEF Covered
    <3> QED
      BY <2>1, <3>1, <3>2
  <2>4. \A x \in Flying : x.layer \in K
    BY <1>3, <2>1
  <2>5. K \subseteq Layers /\ \A l \in Layers \ K : ~Covered(l)'
    BY <2>2 DEF Covered
  <2>6. \A l \in K : layer_status'[l] = "Loaded" => layer_status[l] = "Loaded" /\ ~Marking(l)
    BY <1>1, <1>4
  <2> HIDE DEF K
  <2> QED
    BY <1>1, <1>2, <2>2, <2>3, <2>4, <2>5, <2>6, MemStays DEF IoInv
<1> QED
  BY <1>5, <1>6

\* Resetting a status makes no layer Loaded.
LEMMA MemUnload ==
  ASSUME PoolInv, IoInv, MemInv, Unload
  PROVE  MemInv'
<1>1. /\ UNCHANGED <<chan, remaining, worker, mem, slotVars>> /\ pc = "unload"
      /\ layer_status' = [layer_status EXCEPT ![prev] = "NotLoaded"]
  BY DEF Unload
<1>2. Flying' = Flying /\ Unread' = Unread /\ UNCHANGED layer_slots
  BY <1>1, TasksStay DEF IoInv, slotVars
<1>3. \A l \in Layers : layer_status'[l] = "Loaded" => layer_status[l] = "Loaded" /\ ~Marking(l)
  BY <1>1 DEF IoInv, IoTyped, Marking
<1>4. \A x \in Flying : x.layer \in Layers
  BY FlyingIsUnderway DEF IoInv
<1> QED
  BY <1>1, <1>2, <1>3, <1>4, MemStays DEF IoInv

\* The history variable only grows.
LEMMA OvertakenStays ==
  ASSUME overtaken \in BOOLEAN, [Next]_vars
  PROVE  /\ overtaken' \in BOOLEAN /\ (overtaken => overtaken')
         /\ ~Allocate /\ ~Post => UNCHANGED overtaken
<1>1. CASE Allocate
  <2>1. \E b \in BOOLEAN : overtaken' = (overtaken \/ b)
    BY <1>1 DEF Allocate
  <2> QED
    BY <1>1, <2>1
<1>2. CASE Post
  <2>1. \E b \in BOOLEAN : overtaken' = (overtaken \/ b)
    BY <1>2 DEF Post
  <2> QED
    BY <1>2, <2>1
<1>3. CASE ~Allocate /\ ~Post
  <2>1. UNCHANGED overtaken
    BY <1>3 DEF Next, ComputeThread, IoThread, Terminated, vars, threadVars, Prefetch, Mark,
       SendTasks, StartPass, Finish, Ask, AskIf, Await, Compute, Unload, LookAhead, Advance,
       Stop, Join
  <2> QED
    BY <1>3, <2>1
<1> QED
  BY <1>1, <1>2, <1>3

\* Every step keeps what holds of memory, unless a layer is overtaken.
LEMMA MemNext ==
  ASSUME IsFiniteSet(Workers), ~IsFiniteSet(Loads), ~IoFaults, PoolInv, PoolFacts, IoInv,
         MemInv, ~overtaken', [Next]_vars
  PROVE  MemInv'
<1>1. CASE Allocate
  BY <1>1, MemAllocate
<1>2. CASE Mark
  BY <1>2, MemMark
<1>3. CASE SendTasks
  BY <1>3, MemSend
<1>4. CASE Post
  BY <1>4, MemPost
<1>5. CASE Unload
  BY <1>5, MemUnload
<1>6. CASE \/ Prefetch \/ StartPass \/ Finish \/ Ask \/ Await \/ Compute \/ LookAhead \/ Advance
           \/ Stop \/ Join \/ Terminated \/ UNCHANGED vars
           \/ \E w \in Workers : IoThread(w) /\ (Recv(w) \/ Exit(w))
  <2>1. /\ UNCHANGED <<layer_status, mem, layer_slots>>
        /\ pc \notin {"ask_mark", "prefetch_mark"} \/ UNCHANGED <<pc, layer, todo>>
    <3>1. CASE Prefetch \/ Ask
      BY <3>1 DEF Prefetch, Ask, AskIf, poolVars, slotVars, Pool!BeginAllocate
    <3>2. CASE StartPass \/ Finish \/ Await \/ Compute \/ LookAhead \/ Advance \/ Stop \/ Join
      BY <3>2 DEF StartPass, Finish, Await, Compute, LookAhead, Advance, Stop, Join,
                  poolVars, slotVars, CloseChannel
    <3>3. CASE Terminated \/ UNCHANGED vars
      BY <3>3 DEF Terminated, vars, poolVars, threadVars, slotVars
    <3>4. CASE \E w \in Workers : IoThread(w) /\ (Recv(w) \/ Exit(w))
      BY <3>4 DEF IoThread, Recv, Exit, threadVars, slotVars
    <3> QED
      BY <1>6, <3>1, <3>2, <3>3, <3>4
  <2>2. /\ Flying' = Flying /\ Unread' = Unread
        /\ \A v \in Workers : worker'[v].pc = "publishing" =>
             worker[v].pc = "publishing" /\ worker'[v].task = worker[v].task
    <3>1. CASE \E w \in Workers : IoThread(w) /\ Recv(w)
      BY <3>1, RecvStep DEF IoInv
    <3>2. CASE \E w \in Workers : IoThread(w) /\ Exit(w)
      BY <3>2, ExitStep DEF IoInv
    <3>3. CASE ~\E w \in Workers : IoThread(w) /\ (Recv(w) \/ Exit(w))
      <4>1. UNCHANGED <<chan, worker, remaining>>
        BY <1>6, <3>3 DEF Prefetch, StartPass, Finish, Ask, AskIf, Await, Compute, LookAhead, Advance,
             Stop, Join, Terminated, vars, poolVars, CloseChannel
      <4> QED
        BY <4>1, TasksStay DEF IoInv
    <3> QED
      BY <3>1, <3>2, <3>3
  <2>3. \A x \in Flying : x.layer \in Layers
    BY FlyingIsUnderway DEF IoInv
  <2>4. \A l \in Layers : Marking(l) => Marking(l)'
    BY <2>1 DEF Marking, Target, Ensuring
  <2> QED
    BY <2>1, <2>2, <2>3, <2>4, MemStays DEF IoInv
<1>7. ASSUME NEW w \in Workers, IoThread(w), Pread(w) PROVE MemInv'
  BY <1>7, MemPread DEF IoThread
<1>8. ASSUME NEW w \in Workers, IoThread(w), Count(w) PROVE MemInv'
  BY <1>8, MemCount DEF IoThread
<1>9. ASSUME NEW w \in Workers, IoThread(w), Publish(w) PROVE MemInv'
  BY <1>9, MemPublish DEF IoThread
<1>10. CASE \E w \in Workers : IoThread(w)
  BY <1>6, <1>7, <1>8, <1>9, <1>10 DEF IoThread, Work
<1> QED
  BY <1>1, <1>2, <1>3, <1>4, <1>5, <1>6, <1>10 DEF Next, ComputeThread

-----------------------------------------------------------------------------
\* The pointers the graph computes with.

\* The pointers are set on every way to the computation, from the slots.
LEMMA PointedNext ==
  ASSUME PoolInv, PoolFacts, IoInv, Pointed, [Next]_vars
  PROVE  Pointed'
<1> USE DEF PoolInv
<1>0. layer \in Layers /\ Layers \subseteq Int
  BY LayersAndCells DEF ThreadTyped
<1>1. /\ data_ptr \in [Layers -> Seq(Cells)]
      /\ pc \in {"ask_send", "await", "compute"} /\ layer \in StreamingLayers
           /\ layer_slots[layer] # <<>> => data_ptr[layer] = layer_slots[layer]
      /\ pc = "compute" /\ layer \in StreamingLayers => layer_status[layer] = "Loaded"
  BY DEF Pointed, Streaming, Covered
<1>2. ASSUME data_ptr' \in [Layers -> Seq(Cells)],
             pc' \in {"ask_send", "await", "compute"} /\ layer' \in StreamingLayers
               /\ layer_slots'[layer'] # <<>> => data_ptr'[layer'] = layer_slots'[layer'],
             pc' = "compute" /\ layer' \in StreamingLayers => layer_status'[layer'] = "Loaded"
      PROVE  Pointed'
  BY <1>2 DEF Pointed, Streaming, Covered
<1>3. \A l \in Layers : layer_slots[l] \in Seq(Cells)
  BY LayersAndCells DEF PoolFacts, PP!SlotPoolTypeOK
<1>4. CASE Mark
  <2>1. /\ data_ptr' = [data_ptr EXCEPT ![Target] = layer_slots[Target]]
        /\ UNCHANGED <<slotVars, layer>> /\ pc \in {"ask_mark", "prefetch_mark"}
        /\ pc' = IF Ensuring THEN "ask_send" ELSE "prefetch_send"
    BY <1>4 DEF Mark
  <2>2. Target \in Layers /\ (pc' = "ask_send" => Target = layer)
    BY <2>1, TargetIsStreaming DEF Target, Ensuring
  <2>3. /\ data_ptr' \in [Layers -> Seq(Cells)]
        /\ data_ptr'[Target] = layer_slots[Target]
    BY <1>1, <1>3, <2>1, <2>2
  <2> QED
    BY <1>2, <2>1, <2>2, <2>3 DEF slotVars
<1>5. CASE Ask
  <2>1. /\ pc = "ask" /\ UNCHANGED <<layer, layer_status, layer_slots>>
        /\ \/ layer \notin StreamingLayers /\ UNCHANGED data_ptr
           \/ /\ layer \in StreamingLayers /\ layer_status[layer] = "Loaded"
              /\ data_ptr' = IF layer_slots[layer] = <<>> THEN data_ptr
                             ELSE [data_ptr EXCEPT ![layer] = layer_slots[layer]]
           \/ pc' \in {"ask_alloc", "ask_mark"} /\ UNCHANGED data_ptr
    BY <1>5 DEF Ask, AskIf, Streaming, poolVars, slotVars, Pool!BeginAllocate
  <2>2. CASE layer \notin StreamingLayers /\ UNCHANGED data_ptr
    BY <1>1, <1>2, <2>1, <2>2
  <2>3. CASE pc' \in {"ask_alloc", "ask_mark"} /\ UNCHANGED data_ptr
    BY <1>1, <1>2, <2>3
  <2>4. CASE /\ layer \in StreamingLayers /\ layer_status[layer] = "Loaded"
             /\ data_ptr' = IF layer_slots[layer] = <<>> THEN data_ptr
                             ELSE [data_ptr EXCEPT ![layer] = layer_slots[layer]]
    <3>1. CASE layer_slots[layer] = <<>>
      BY <1>1, <1>2, <2>1, <2>4, <3>1
    <3>2. CASE layer_slots[layer] # <<>>
      <4>1. data_ptr' = [data_ptr EXCEPT ![layer] = layer_slots[layer]]
        BY <2>4, <3>2
      <4>2. data_ptr' \in [Layers -> Seq(Cells)] /\ data_ptr'[layer] = layer_slots[layer]
        BY <1>0, <1>1, <1>3, <4>1
      <4> QED
        BY <1>2, <2>1, <2>4, <4>2
    <3> QED
      BY <3>1, <3>2
  <2> QED
    BY <2>1, <2>2, <2>3, <2>4
<1>6. CASE \/ Prefetch \/ Allocate \/ StartPass \/ Finish \/ Post \/ Unload \/ LookAhead
           \/ Advance \/ Stop \/ Join
  <2>1. UNCHANGED data_ptr /\ pc' \notin {"ask_send", "await", "compute"}
    BY <1>6 DEF Prefetch, Allocate, StartPass, Finish, Post, Unload, LookAhead, Advance, Stop,
              Join, ThreadTyped, Ensuring
  <2> QED
    BY <1>1, <1>2, <2>1
<1>7. CASE SendTasks \/ Await \/ Compute
  <2>1. /\ UNCHANGED <<data_ptr, layer_status, layer, slotVars>>
        /\ pc' \in {"ask_send", "await", "compute"} => pc \in {"ask_send", "await", "compute"}
        /\ pc' = "compute" => layer_status[layer] = "Loaded"
    <3>1. CASE SendTasks
      BY <3>1 DEF SendTasks, Ensuring
    <3>2. CASE Await
      BY <3>2 DEF Await
    <3>3. CASE Compute
      BY <3>3 DEF Compute, poolVars
    <3> QED
      BY <1>7, <3>1, <3>2, <3>3
  <2> QED
    BY <1>1, <1>2, <2>1 DEF slotVars
<1>8. CASE (\E w \in Workers : IoThread(w)) \/ Terminated \/ UNCHANGED vars
  <2>1. UNCHANGED <<threadVars, slotVars>>
    BY <1>8 DEF IoThread, Terminated, vars
  <2>2. layer_status[layer] = "Loaded" => layer_status'[layer] = "Loaded"
    <3>1. CASE \E w \in Workers : Publish(w)
      BY <1>0, <3>1 DEF Publish, PublishLoaded, IoInv, IoTyped
    <3>2. CASE ~\E w \in Workers : Publish(w)
      <4>1. UNCHANGED layer_status
        BY <1>8, <3>2 DEF IoThread, Work, Recv, Pread, Count, CountThen, Exit, Terminated, vars, poolVars
      <4> QED
        BY <4>1
    <3> QED
      BY <3>1, <3>2
  <2> QED
    BY <1>1, <1>2, <2>1, <2>2 DEF threadVars, slotVars
<1> QED
  BY <1>4, <1>5, <1>6, <1>7, <1>8 DEF Next, ComputeThread

\* At first nothing is loaded and no pointer is set.
LEMMA HeldInvInit == IsFiniteSet(Workers) /\ Init => HeldInv
<1> SUFFICES ASSUME IsFiniteSet(Workers), Init PROVE HeldInv
  OBVIOUS
<1>1. Flying = {} /\ \A w \in Workers : worker[w].pc = "idle"
  <2>1. Queued = {} /\ Busy = {}
    BY DEF Init, PoolInit, Queued, Busy
  <2> QED
    BY <2>1 DEF Init, PoolInit, Flying
<1>2. OwnSlots /\ LoadsProgress
  BY <1>1 DEF OwnSlots, LoadsProgress
<1>3. StatusTrue
  BY <1>1 DEF StatusTrue, Init, PoolInit
<1>4. Pointed
  <2>1. data_ptr \in [Layers -> Seq(Cells)]
    BY EmptySeq DEF Init
  <2> QED
    BY <2>1 DEF Init, Pointed
<1>5. overtaken \in BOOLEAN
  BY DEF Init
<1> QED
  BY <1>2, <1>3, <1>4, <1>5 DEF HeldInv, MemInv

\* "Load all dense FFN tensors for a layer into pool slots, blocking until
\* complete" (ensure_dense_ffn_loaded), in any pass and with any pool: at a layer's
\* FFN node each of its tensors points to a slot that holds that tensor, though
\* loads of one layer overlap, evict each other's layers and leave stale Loaded
\* statuses behind; as long as the layer has slots at all and no layer ever lost
\* its slots while a load of it was under way.
THEOREM HeldSlotsStayRight ==
  ASSUME IsFiniteSet(Workers), ~IsFiniteSet(Loads), ~IoFaults
  PROVE  Spec => []HeldSlotsAreRight
<1>1. Init => HeldInv
  BY HeldInvInit
<1>2. PoolInv /\ PoolFacts /\ IoInv /\ HeldInv /\ [Next]_vars => HeldInv'
  <2> SUFFICES ASSUME PoolInv, PoolFacts, IoInv, HeldInv, [Next]_vars PROVE HeldInv'
    OBVIOUS
  <2>1. overtaken \in BOOLEAN /\ Pointed /\ (~overtaken => MemInv)
    BY DEF HeldInv
  <2>2. overtaken' \in BOOLEAN /\ (overtaken => overtaken')
    BY <2>1, OvertakenStays
  <2>3. ASSUME ~overtaken' PROVE MemInv'
    BY <2>1, <2>2, <2>3, MemNext
  <2> QED
    BY <2>1, <2>2, <2>3, PointedNext DEF HeldInv
<1>3. PoolInv /\ HeldInv => HeldSlotsAreRight
  <2> SUFFICES ASSUME PoolInv, HeldInv, ~overtaken, layer_slots[layer] # <<>>, ComputesFfn
               PROVE  /\ Len(data_ptr[layer]) = Tensors
                      /\ \A t \in 1..Tensors : mem[data_ptr[layer][t]] = <<layer, t>>
    BY DEF HeldSlotsAreRight, RightWeights
  <2>1. /\ layer \in StreamingLayers /\ layer \in Layers /\ pc = "compute" /\ Covered(layer)
        /\ data_ptr[layer] = layer_slots[layer] /\ layer_status[layer] = "Loaded"
    BY LayersAndCells DEF ComputesFfn, Streaming, HeldInv, Pointed, Covered
  <2>2. Right(layer)
    BY <2>1 DEF HeldInv, MemInv, StatusTrue, Marking
  <2> QED
    BY <2>1, <2>2 DEF Right, Covered, PoolInv, SlotsWhole
<1> QED
  BY <1>1, <1>2, <1>3, PoolFactsAlways, IoAlways, PTL DEF Spec
=============================================================================
