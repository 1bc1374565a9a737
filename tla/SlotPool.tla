------------------------------ MODULE SlotPool ------------------------------
(***************************************************************************)
(* ExpertPool of src/compute/nvme_backend.rs: the slot allocator of the    *)
(* two pool modes (expert-streaming, dense FFN-streaming).  A layer's      *)
(* tensors get one slot each; when no slot is free, the lowest-numbered    *)
(* other layer is evicted, all its slots at once.                          *)
(*                                                                         *)
(* allocate_layer runs with the pool locked.  Its loop is modelled one     *)
(* iteration a step, with the slots gathered so far in claim, so that what *)
(* holds inside the call is checked and proved too.                        *)
(***************************************************************************)
EXTENDS Integers, Sequences, FiniteSets, SequencesExt

CONSTANTS
  Layers,     \* layer indices that may ask for slots
  NumSlots,   \* pool_size / slot_size
  MaxTensors  \* most tensors one layer has in the pool

VARIABLES
  layer_slots,  \* layer -> its slots; <<>> for a layer not in the map
  free_slots,   \* Vec used as a stack: popped and pushed at its end
  claim,        \* the locals of the running allocate_layer, or NoClaim
  panicked      \* expect("pool exhausted after eviction") has fired

slotVars == <<layer_slots, free_slots, claim, panicked>>

Slots == 0..(NumSlots - 1)
NoClaim == [layer |-> -1, want |-> 0, slots |-> <<>>]
Allocating == claim.layer # -1

ASSUME SlotPoolAssumption ==
  /\ Layers \subseteq Nat
  /\ NumSlots \in Nat
  /\ MaxTensors \in 1..NumSlots

SlotPoolInit ==
  /\ layer_slots = [l \in Layers |-> <<>>]
  /\ free_slots = [i \in 1..NumSlots |-> NumSlots - i]
  /\ claim = NoClaim
  /\ panicked = FALSE

-----------------------------------------------------------------------------
(* allocate_layer(l, n): a layer that has slots keeps them.                *)
BeginAllocate(l, n) ==
  /\ ~Allocating
  /\ layer_slots[l] = <<>>
  /\ claim' = [layer |-> l, want |-> n, slots |-> <<>>]
  /\ UNCHANGED <<layer_slots, free_slots, panicked>>

Gather(s) ==
  claim' = [layer |-> claim.layer, want |-> claim.want, slots |-> Append(claim.slots, s)]

PopWhile(more) ==
  /\ Allocating
  /\ more
  /\ free_slots # <<>>
  /\ Gather(Last(free_slots))
  /\ free_slots' = Front(free_slots)
  /\ UNCHANGED <<layer_slots, panicked>>

(* Mutant: one slot too many. *)
PopOneMore == PopWhile(Len(claim.slots) <= claim.want)

(* free_slots.pop() succeeds. *)
PopFree == PopWhile(Len(claim.slots) < claim.want)

(* Mutant: only layers behind the new one are evicted. *)
EvictableBehind == {l \in Layers : l < claim.layer /\ layer_slots[l] # <<>>}

Evictable == {l \in Layers : l # claim.layer /\ layer_slots[l] # <<>>}
Oldest == CHOOSE l \in Evictable : \A m \in Evictable : l <= m

EvictLeaving(rest) ==
  /\ Allocating
  /\ Len(claim.slots) < claim.want
  /\ free_slots = <<>>
  /\ ~panicked
  /\ IF Evictable = {}
       THEN /\ panicked' = TRUE
            /\ UNCHANGED <<layer_slots, free_slots, claim>>
       ELSE /\ Gather(Last(layer_slots[Oldest]))
            /\ free_slots' = rest
            /\ layer_slots' = [layer_slots EXCEPT ![Oldest] = <<>>]
            /\ UNCHANGED panicked

(* Mutant: one slot of the evicted layer is reused, the others forgotten. *)
EvictForgetting == EvictLeaving(<<>>)

(* It fails: release the lowest other layer and pop what it gave back.     *)
(* With no other layer in the map, release_layer(0) frees nothing.         *)
EvictOldest == EvictLeaving(Front(layer_slots[Oldest]))

EndAllocate ==
  /\ Allocating
  /\ Len(claim.slots) = claim.want
  /\ layer_slots' = [layer_slots EXCEPT ![claim.layer] = claim.slots]
  /\ claim' = NoClaim
  /\ UNCHANGED <<free_slots, panicked>>

AllocateStep == PopFree \/ EvictOldest \/ EndAllocate

(* Mutant: the map keeps the layer. *)
ReleaseKeeping(l) ==
  /\ ~Allocating
  /\ free_slots' = free_slots \o layer_slots[l]
  /\ UNCHANGED <<layer_slots, claim, panicked>>

(* release_layer(l): its slots go back on the stack, in order. *)
ReleaseSlots(l) ==
  /\ ~Allocating
  /\ free_slots' = free_slots \o layer_slots[l]
  /\ layer_slots' = [layer_slots EXCEPT ![l] = <<>>]
  /\ UNCHANGED <<claim, panicked>>

-----------------------------------------------------------------------------
(* The pool by itself: any layer may be allocated or released at any time. *)
SlotPoolNext ==
  \/ \E l \in Layers, n \in 1..MaxTensors : BeginAllocate(l, n)
  \/ AllocateStep
  \/ \E l \in Layers : ReleaseSlots(l)

SlotPoolSpec == SlotPoolInit /\ [][SlotPoolNext]_slotVars

(* Slots are indices into the pool; an allocation never gathers more slots *)
(* than it wants.                                                          *)
SlotPoolTypeOK ==
  /\ layer_slots \in [Layers -> Seq(Slots)]
  /\ free_slots \in Seq(Slots)
  /\ claim \in [layer: Layers \cup {-1}, want: 0..MaxTensors, slots: Seq(Slots)]
  /\ Len(claim.slots) <= claim.want
  /\ panicked \in BOOLEAN

-----------------------------------------------------------------------------
(* Where a slot can be: on the free stack, in the hands of the running     *)
(* allocate_layer, or with a layer.                                        *)
Places == {<<"free">>, <<"claim">>} \cup {<<"layer", l>> : l \in Layers}
At(p) == IF p = <<"free">> THEN free_slots
         ELSE IF p = <<"claim">> THEN claim.slots ELSE layer_slots[p[2]]

(* No slot is handed out twice: a slot in two places would let two layers' *)
(* preads overwrite each other.                                            *)
NoSlotShared ==
  \A p, q \in Places : \A i \in 1..Len(At(p)), j \in 1..Len(At(q)) :
    At(p)[i] = At(q)[j] => p = q /\ i = j

(* No slot is lost across evictions and releases: a leaked slot is never   *)
(* allocated again and the pool shrinks.                                   *)
NoSlotLost ==
  \A s \in Slots : \E p \in Places : \E i \in 1..Len(At(p)) : At(p)[i] = s

(* expect("pool exhausted after eviction") never fires: evicting other     *)
(* layers always yields a slot as long as one layer fits in the pool.      *)
NeverExhausted == ~panicked
=============================================================================
