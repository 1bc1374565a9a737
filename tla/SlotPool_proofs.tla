--------------------------- MODULE SlotPool_proofs ---------------------------
(***************************************************************************)
(* SlotPool for every set of layers and every number of slots: the type    *)
(* invariant, that no slot is shared and none is lost, and that            *)
(* allocate_layer never runs out of slots after an eviction.               *)
(***************************************************************************)
EXTENDS SlotPool, SequenceTheorems, FiniteSetTheorems, TLAPS

(* Popping the end of a non-empty stack. *)
LEMMA PopProperties ==
  ASSUME NEW S, NEW s \in Seq(S), s # <<>>
  PROVE  /\ Last(s) \in S
         /\ Front(s) \in Seq(S)
         /\ Len(s) \in Nat \ {0}
         /\ Len(Front(s)) = Len(s) - 1
         /\ \A i \in 1..Len(Front(s)) : Front(s)[i] = s[i]
<1>1. Len(s) \in Nat \ {0}
  BY EmptySeq
<1> DEFINE n == Len(s) - 1
<1>2. n \in Nat /\ \A i \in 1..n : s[i] \in S
  BY <1>1, ElementOfSeq
<1>3. n - 1 + 1 = n /\ \A i \in Nat : 1 + i - 1 = i
  BY <1>2
<1>4. /\ SubSeq(s, 1, n) \in Seq(S)
      /\ Len(SubSeq(s, 1, n)) = n
      /\ \A i \in 1..n : SubSeq(s, 1, n)[i] = s[i]
  <2> HIDE DEF n
  <2>1. /\ SubSeq(s, 1, n) \in Seq(S)
        /\ Len(SubSeq(s, 1, n)) = IF 1 <= n THEN n - 1 + 1 ELSE 0
        /\ \A i \in 1..(n - 1 + 1) : SubSeq(s, 1, n)[i] = s[1 + i - 1]
    BY <1>2, SubSeqProperties
  <2> QED
    BY <1>2, <1>3, <2>1
<1> QED
  BY <1>1, <1>4, ElementOfSeq DEF Last, Front

-----------------------------------------------------------------------------
(* The lowest of a non-empty set of layers exists, so Oldest is one of the *)
(* evictable layers.                                                       *)
LEMMA OldestIsEvictable ==
  ASSUME SlotPoolTypeOK, Evictable # {}
  PROVE  Oldest \in Evictable
<1> DEFINE Less == {p \in Nat \X Nat : p[1] < p[2]}
<1>1. Evictable \subseteq Nat
  BY SlotPoolAssumption DEF Evictable
<1>2. IsWellFoundedOn(Less, Nat)
  BY NatLessThanWellFounded, Zenon DEF OpToRel
<1>3. PICK l \in Evictable : \A m \in Evictable : ~ (<<m, l>> \in Less)
  <2> HIDE DEF Less
  <2> QED
    BY <1>1, <1>2, WFMin
<1>4. ASSUME NEW m \in Evictable
      PROVE  l <= m
  <2>1. m \in Nat /\ l \in Nat
    BY <1>1
  <2>2. m < l => <<m, l>> \in Less
    BY <2>1
  <2> QED
    BY <1>3, <2>1, <2>2
<1> QED
  BY <1>4 DEF Oldest

(* An empty pool is well typed. *)
LEMMA TypeInit == SlotPoolInit => SlotPoolTypeOK
<1> USE SlotPoolAssumption
<1> SUFFICES ASSUME SlotPoolInit PROVE SlotPoolTypeOK
  OBVIOUS
<1>1. layer_slots \in [Layers -> Seq(Slots)]
  BY EmptySeq DEF SlotPoolInit
<1>2. free_slots \in Seq(Slots)
  BY DEF SlotPoolInit, Slots
<1>3. /\ claim \in [layer: Layers \cup {-1}, want: 0..MaxTensors, slots: Seq(Slots)]
      /\ Len(claim.slots) <= claim.want
  BY EmptySeq DEF SlotPoolInit, NoClaim
<1> QED
  BY <1>1, <1>2, <1>3 DEF SlotPoolInit, SlotPoolTypeOK

(* A claim that wants more than it has may take a slot. *)
LEMMA GatherTyped ==
  ASSUME SlotPoolTypeOK, Len(claim.slots) < claim.want, NEW s \in Slots, Gather(s)
  PROVE  /\ claim' \in [layer: Layers \cup {-1}, want: 0..MaxTensors, slots: Seq(Slots)]
         /\ Len(claim'.slots) <= claim'.want
<1> DEFINE more == Append(claim.slots, s)
<1>1. /\ claim.layer \in Layers \cup {-1} /\ claim.want \in 0..MaxTensors
      /\ claim.slots \in Seq(Slots)
  BY DEF SlotPoolTypeOK
<1>2. more \in Seq(Slots) /\ Len(more) = Len(claim.slots) + 1 /\ Len(claim.slots) \in Nat
  BY <1>1, AppendProperties, LenProperties
<1>3. claim' = [layer |-> claim.layer, want |-> claim.want, slots |-> more]
  BY DEF Gather
<1>4. Len(more) <= claim.want
  <2>1. claim.want \in Int
    BY <1>1, SlotPoolAssumption
  <2> HIDE DEF more
  <2> QED
    BY <1>2, <2>1
<1> HIDE DEF more
<1>5. claim'.slots = more /\ claim'.want = claim.want
  BY <1>3
<1>6. claim' \in [layer: Layers \cup {-1}, want: 0..MaxTensors, slots: Seq(Slots)]
  BY <1>1, <1>2, <1>3
<1> QED
  BY <1>4, <1>5, <1>6

(* Slots that move stay slots. *)
LEMMA TypeStep == SlotPoolTypeOK /\ [SlotPoolNext]_slotVars => SlotPoolTypeOK'
<1> USE SlotPoolAssumption
<1> SUFFICES ASSUME SlotPoolTypeOK, [SlotPoolNext]_slotVars
             PROVE  SlotPoolTypeOK'
  OBVIOUS
<1> USE DEF SlotPoolTypeOK
<1>1. ASSUME NEW l \in Layers, NEW n \in 1..MaxTensors, BeginAllocate(l, n)
      PROVE  SlotPoolTypeOK'
  BY <1>1, EmptySeq DEF BeginAllocate
<1>2. CASE PopFree
  <2>1. Last(free_slots) \in Slots /\ Front(free_slots) \in Seq(Slots)
    BY <1>2, PopProperties DEF PopFree, PopWhile
  <2>2. Len(claim.slots) < claim.want /\ Gather(Last(free_slots))
    BY <1>2 DEF PopFree, PopWhile
  <2>3. /\ claim' \in [layer: Layers \cup {-1}, want: 0..MaxTensors, slots: Seq(Slots)]
        /\ Len(claim'.slots) <= claim'.want
    <3> HIDE DEF SlotPoolTypeOK
    <3> QED
      BY <2>1, <2>2, GatherTyped
  <2> QED
    BY <1>2, <2>1, <2>3 DEF PopFree, PopWhile
<1>3. CASE EvictOldest
  <2>1. CASE Evictable = {}
    BY <1>3, <2>1 DEF EvictOldest, EvictLeaving
  <2>2. CASE Evictable # {}
    <3>1. Oldest \in Layers /\ layer_slots[Oldest] # <<>>
      BY <2>2, OldestIsEvictable DEF Evictable
    <3>2. /\ Last(layer_slots[Oldest]) \in Slots
          /\ Front(layer_slots[Oldest]) \in Seq(Slots)
      BY <3>1, PopProperties
    <3>3. Len(claim.slots) < claim.want /\ Gather(Last(layer_slots[Oldest]))
      BY <1>3, <2>2 DEF EvictOldest, EvictLeaving
    <3>4. layer_slots' \in [Layers -> Seq(Slots)] /\ free_slots' \in Seq(Slots)
      BY <1>3, <2>2, <3>1, <3>2, EmptySeq DEF EvictOldest, EvictLeaving
    <3>5. /\ claim' \in [layer: Layers \cup {-1}, want: 0..MaxTensors, slots: Seq(Slots)]
          /\ Len(claim'.slots) <= claim'.want
      <4> HIDE DEF SlotPoolTypeOK
      <4> QED
        BY <3>2, <3>3, GatherTyped
    <3> QED
      BY <1>3, <2>2, <3>4, <3>5 DEF EvictOldest, EvictLeaving
  <2> QED
    BY <2>1, <2>2
<1>4. CASE EndAllocate
  BY <1>4, EmptySeq DEF EndAllocate, NoClaim, Allocating
<1>5. ASSUME NEW l \in Layers, ReleaseSlots(l)
      PROVE  SlotPoolTypeOK'
  BY <1>5, EmptySeq, ConcatProperties DEF ReleaseSlots
<1>6. CASE UNCHANGED slotVars
  BY <1>6 DEF slotVars
<1> QED
  BY <1>1, <1>2, <1>3, <1>4, <1>5, <1>6 DEF SlotPoolNext, AllocateStep

(* Every value in the pool's state stays in its type: slots remain slot    *)
(* numbers, and an allocation never gathers more slots than it wants.      *)
THEOREM TypeCorrect == SlotPoolSpec => []SlotPoolTypeOK
BY TypeInit, TypeStep, PTL DEF SlotPoolSpec
-----------------------------------------------------------------------------
(* NoSlotShared, place by place. *)
Distinct(s) == \A i, j \in 1..Len(s) : s[i] = s[j] => i = j
Disjoint(s, t) == \A i \in 1..Len(s), j \in 1..Len(t) : s[i] # t[j]

NoneShared ==
  /\ Distinct(free_slots)
  /\ Distinct(claim.slots)
  /\ \A l \in Layers : Distinct(layer_slots[l])
  /\ Disjoint(free_slots, claim.slots)
  /\ \A l \in Layers : Disjoint(free_slots, layer_slots[l])
  /\ \A l \in Layers : Disjoint(claim.slots, layer_slots[l])
  /\ \A l, m \in Layers : l # m => Disjoint(layer_slots[l], layer_slots[m])

(* What a place holds. *)
LEMMA AtPlaces ==
  /\ At(<<"free">>) = free_slots
  /\ At(<<"claim">>) = claim.slots
  /\ \A l \in Layers : At(<<"layer", l>>) = layer_slots[l]
<1>1. <<"claim">> # <<"free">>
  OBVIOUS
<1>2. \A l \in Layers : /\ <<"layer", l>> # <<"free">>
                        /\ <<"layer", l>> # <<"claim">>
                        /\ <<"layer", l>>[2] = l
  OBVIOUS
<1> QED
  BY <1>1, <1>2 DEF At

(* No slot is shared exactly when none is within a place or between two. *)
LEMMA SharedByPlace == NoSlotShared <=> NoneShared
<1> USE AtPlaces
<1>1. ASSUME NoSlotShared PROVE NoneShared
  <2>1. \A p, q \in Places : p # q => Disjoint(At(p), At(q))
    BY <1>1 DEF NoSlotShared, Disjoint
  <2>2. \A p \in Places : Distinct(At(p))
    BY <1>1 DEF NoSlotShared, Distinct
  <2>3. <<"free">> \in Places /\ <<"claim">> \in Places
        /\ \A l \in Layers : <<"layer", l>> \in Places
    BY DEF Places
  <2> QED
    BY <2>1, <2>2, <2>3 DEF NoneShared
<1>2. ASSUME NoneShared PROVE NoSlotShared
  <2> SUFFICES ASSUME NEW p \in Places, NEW q \in Places,
                      NEW i \in 1..Len(At(p)), NEW j \in 1..Len(At(q)),
                      At(p)[i] = At(q)[j]
               PROVE  p = q /\ i = j
    BY DEF NoSlotShared
  <2>1. CASE p = q
    BY <1>2, <2>1 DEF NoneShared, Distinct, Places
  <2>2. CASE p # q
    BY <1>2, <2>2 DEF NoneShared, Disjoint, Places
  <2> QED
    BY <2>1, <2>2
<1> QED
  BY <1>1, <1>2

(* The elements of the sequences a pop, a push and a release make.         *)
LEMMA DisjointSymmetric ==
  ASSUME NEW s, NEW t, Disjoint(s, t)
  PROVE  Disjoint(t, s)
BY DEF Disjoint

(* The empty sequence repeats nothing and meets nothing. *)
LEMMA EmptyIsDisjoint ==
  Distinct(<<>>) /\ \A s : Disjoint(<<>>, s) /\ Disjoint(s, <<>>)
BY DEF Distinct, Disjoint

(* Popping the last element of a sequence and pushing it on another, as the *)
(* free stack and the claim do, repeats none and meets nothing new.         *)
LEMMA MoveLast ==
  ASSUME NEW S, NEW s \in Seq(S), NEW t \in Seq(S), s # <<>>,
         Distinct(s), Distinct(t), Disjoint(s, t)
  PROVE  /\ Distinct(Front(s))
         /\ Distinct(Append(t, Last(s)))
         /\ Disjoint(Front(s), Append(t, Last(s)))
         /\ \A u \in Seq(S) : Disjoint(s, u) =>
              /\ Disjoint(Front(s), u)
              /\ Disjoint(t, u) => Disjoint(Append(t, Last(s)), u)
<1> DEFINE last == Last(s)
           front == Front(s)
           push == Append(t, last)
<1>1. /\ last \in S /\ last = s[Len(s)]
      /\ Len(s) \in Nat \ {0}
      /\ front \in Seq(S) /\ Len(front) = Len(s) - 1
      /\ \A i \in 1..Len(front) : front[i] = s[i]
  BY PopProperties DEF Last
<1>2. /\ push \in Seq(S) /\ Len(push) = Len(t) + 1 /\ Len(t) \in Nat
      /\ \A i \in 1..Len(t) : push[i] = t[i]
      /\ push[Len(t) + 1] = last
  BY <1>1, AppendProperties, LenProperties
<1> HIDE DEF last, front, push
<1>3. Distinct(front)
  BY <1>1 DEF Distinct
<1>4. Distinct(push)
  BY <1>1, <1>2 DEF Distinct, Disjoint
<1>5. Disjoint(front, push)
  BY <1>1, <1>2, SMTT(30) DEF Distinct, Disjoint
<1>6. ASSUME NEW u \in Seq(S), Disjoint(s, u)
      PROVE  Disjoint(front, u) /\ (Disjoint(t, u) => Disjoint(push, u))
  <2>1. Disjoint(front, u)
    BY <1>1, <1>6 DEF Disjoint
  <2>2. \A i \in 1..Len(push) : \/ i \in 1..Len(t) /\ push[i] = t[i]
                                \/ push[i] = s[Len(s)] /\ Len(s) \in 1..Len(s)
    BY <1>1, <1>2
  <2>3. ASSUME Disjoint(t, u) PROVE Disjoint(push, u)
    BY <1>6, <2>2, <2>3 DEF Disjoint
  <2> QED
    BY <2>1, <2>3
<1> QED
  BY <1>3, <1>4, <1>5, <1>6 DEF last, front, push

(* Appending one disjoint sequence to another (a release, an eviction)      *)
(* repeats none.                                                            *)
LEMMA ConcatDistinct ==
  ASSUME NEW S, NEW s \in Seq(S), NEW t \in Seq(S),
         Distinct(s), Distinct(t), Disjoint(s, t)
  PROVE  /\ Distinct(s \o t)
         /\ \A u \in Seq(S) : Disjoint(s, u) /\ Disjoint(t, u) => Disjoint(s \o t, u)
<1> DEFINE both == s \o t
<1>1. /\ Len(s) \in Nat /\ Len(t) \in Nat
      /\ Len(both) = Len(s) + Len(t)
      /\ \A i \in 1..(Len(s) + Len(t)) :
           both[i] = IF i <= Len(s) THEN s[i] ELSE t[i - Len(s)]
  BY ConcatProperties, LenProperties
<1> HIDE DEF both
<1>2. \A i \in 1..Len(both) :
        \/ i \in 1..Len(s) /\ both[i] = s[i]
        \/ ~(i <= Len(s)) /\ i - Len(s) \in 1..Len(t) /\ both[i] = t[i - Len(s)]
  BY <1>1
<1>3. ASSUME NEW i \in 1..Len(both), NEW k \in 1..Len(both), both[i] = both[k]
      PROVE  i = k
  <2>1. CASE i <= Len(s) /\ k <= Len(s)
    BY <1>1, <1>2, <1>3, <2>1 DEF Distinct
  <2>2. CASE ~(i <= Len(s)) /\ ~(k <= Len(s))
    <3>1. i - Len(s) = k - Len(s)
      BY <1>1, <1>2, <1>3, <2>2, SMTT(30) DEF Distinct
    <3> QED
      BY <1>1, <3>1
  <2>3. CASE ~(i <= Len(s) <=> k <= Len(s))
    BY <1>1, <1>2, <1>3, <2>3, SMTT(30) DEF Disjoint
  <2> QED
    BY <2>1, <2>2, <2>3
<1>4. Distinct(both)
  BY <1>3 DEF Distinct
<1>5. ASSUME NEW u \in Seq(S), Disjoint(s, u), Disjoint(t, u)
      PROVE  Disjoint(both, u)
  <2>1. ASSUME NEW i \in 1..Len(both), NEW j \in 1..Len(u)
        PROVE  both[i] # u[j]
    <3>1. CASE i \in 1..Len(s) /\ both[i] = s[i]
      BY <1>5, <3>1 DEF Disjoint
    <3>2. CASE i - Len(s) \in 1..Len(t) /\ both[i] = t[i - Len(s)]
      <4> DEFINE k == i - Len(s)
      <4>1. k \in 1..Len(t) /\ both[i] = t[k]
        BY <3>2
      <4> HIDE DEF k
      <4> QED
        BY <1>5, <4>1 DEF Disjoint
    <3> QED
      BY <1>2, <3>1, <3>2
  <2> QED
    BY <2>1 DEF Disjoint
<1> QED
  BY <1>4, <1>5 DEF both

-----------------------------------------------------------------------------
(* ExpertPool::new puts each slot on the stack once and nowhere else. *)
LEMMA SharedInit == SlotPoolInit => NoneShared
<1> SUFFICES ASSUME SlotPoolInit PROVE NoneShared
  OBVIOUS
<1>1. Distinct(free_slots)
  BY SlotPoolAssumption DEF SlotPoolInit, Distinct
<1>2. claim.slots = <<>> /\ \A l \in Layers : layer_slots[l] = <<>>
  BY DEF SlotPoolInit, NoClaim
<1> QED
  BY <1>1, <1>2, EmptyIsDisjoint DEF NoneShared

(* Each step moves slots from one place to another, or drops a claim: it   *)
(* never copies one.                                                       *)
LEMMA SharedStep ==
  ASSUME SlotPoolTypeOK, NoneShared, [SlotPoolNext]_slotVars
  PROVE  NoneShared'
<1> USE DEF SlotPoolTypeOK
<1>1. ASSUME NEW l \in Layers, NEW n \in 1..MaxTensors, BeginAllocate(l, n)
      PROVE  NoneShared'
  <2>1. claim'.slots = <<>>
    BY <1>1 DEF BeginAllocate
  <2> QED
    BY <1>1, <2>1, EmptyIsDisjoint DEF BeginAllocate, NoneShared
<1>2. CASE PopFree
  <2>1. /\ free_slots # <<>> /\ free_slots' = Front(free_slots)
        /\ claim'.slots = Append(claim.slots, Last(free_slots))
        /\ layer_slots' = layer_slots
    BY <1>2 DEF PopFree, PopWhile, Gather
  <2>2. /\ free_slots \in Seq(Slots) /\ claim.slots \in Seq(Slots)
        /\ \A l \in Layers : layer_slots[l] \in Seq(Slots)
    OBVIOUS
  <2>3. /\ Distinct(free_slots') /\ Distinct(claim'.slots)
        /\ Disjoint(free_slots', claim'.slots)
        /\ \A l \in Layers : /\ Disjoint(free_slots', layer_slots[l])
                             /\ Disjoint(claim'.slots, layer_slots[l])
    BY <2>1, <2>2, MoveLast DEF NoneShared
  <2> QED
    BY <2>1, <2>3 DEF NoneShared
<1>3. CASE EvictOldest
  <2>1. CASE Evictable = {}
    BY <1>3, <2>1 DEF EvictOldest, EvictLeaving, NoneShared
  <2>2. CASE Evictable # {}
    <3>1. Oldest \in Layers /\ layer_slots[Oldest] # <<>>
      BY <2>2, OldestIsEvictable DEF Evictable
    <3> DEFINE held == layer_slots[Oldest]
    <3>2. /\ free_slots' = Front(held)
          /\ claim'.slots = Append(claim.slots, Last(held))
          /\ \A l \in Layers : layer_slots'[l] = IF l = Oldest THEN <<>> ELSE layer_slots[l]
      BY <1>3, <2>2, <3>1 DEF EvictOldest, EvictLeaving, Gather
    <3>3. /\ held \in Seq(Slots) /\ claim.slots \in Seq(Slots)
          /\ \A l \in Layers : layer_slots[l] \in Seq(Slots)
      BY <3>1
    <3>4. /\ Distinct(held) /\ Distinct(claim.slots) /\ Disjoint(held, claim.slots)
          /\ \A l \in Layers : l # Oldest => Disjoint(held, layer_slots[l])
      BY <3>1, DisjointSymmetric DEF NoneShared
    <3>5. held # <<>>
      BY <3>1
    <3> HIDE DEF held
    <3>6. /\ Distinct(free_slots') /\ Distinct(claim'.slots)
          /\ Disjoint(free_slots', claim'.slots)
          /\ \A u \in Seq(Slots) : Disjoint(held, u) =>
               /\ Disjoint(free_slots', u)
               /\ Disjoint(claim.slots, u) => Disjoint(claim'.slots, u)
      BY <3>2, <3>3, <3>4, <3>5, MoveLast
    <3>7. \A l \in Layers : /\ Disjoint(free_slots', layer_slots'[l])
                            /\ Disjoint(claim'.slots, layer_slots'[l])
                            /\ Distinct(layer_slots'[l])
      BY <3>2, <3>3, <3>4, <3>6, EmptyIsDisjoint DEF NoneShared
    <3>8. \A l, m \in Layers : l # m => Disjoint(layer_slots'[l], layer_slots'[m])
      BY <3>2, EmptyIsDisjoint DEF NoneShared
    <3> QED
      BY <3>6, <3>7, <3>8 DEF NoneShared
  <2> QED
    BY <2>1, <2>2
<1>4. CASE EndAllocate
  <2>1. claim.layer \in Layers
    BY <1>4 DEF EndAllocate, Allocating
  <2>2. /\ claim'.slots = <<>> /\ free_slots' = free_slots
        /\ \A l \in Layers :
             layer_slots'[l] = IF l = claim.layer THEN claim.slots ELSE layer_slots[l]
    BY <1>4, <2>1 DEF EndAllocate, NoClaim
  <2> QED
    BY <2>1, <2>2, EmptyIsDisjoint, DisjointSymmetric DEF NoneShared
<1>5. ASSUME NEW l \in Layers, ReleaseSlots(l)
      PROVE  NoneShared'
  <2>1. /\ free_slots' = free_slots \o layer_slots[l]
        /\ claim' = claim
        /\ \A m \in Layers : layer_slots'[m] = IF m = l THEN <<>> ELSE layer_slots[m]
    BY <1>5 DEF ReleaseSlots
  <2>2. /\ free_slots \in Seq(Slots) /\ claim.slots \in Seq(Slots)
        /\ \A m \in Layers : layer_slots[m] \in Seq(Slots)
    OBVIOUS
  <2>3. Disjoint(layer_slots[l], claim.slots)
    BY DisjointSymmetric DEF NoneShared
  <2>4. /\ Distinct(free_slots')
        /\ Disjoint(free_slots', claim.slots)
        /\ \A m \in Layers : m # l => Disjoint(free_slots', layer_slots[m])
    BY <2>1, <2>2, <2>3, ConcatDistinct DEF NoneShared
  <2> QED
    BY <2>1, <2>4, EmptyIsDisjoint DEF NoneShared
<1>6. CASE UNCHANGED slotVars
  BY <1>6 DEF slotVars, NoneShared
<1> QED
  BY <1>1, <1>2, <1>3, <1>4, <1>5, <1>6 DEF SlotPoolNext, AllocateStep

(* No slot is ever in two places, whatever is allocated, evicted and       *)
(* released, for any number of layers and slots.                           *)
THEOREM SlotsNotShared == SlotPoolSpec => []NoSlotShared
<1>1. SlotPoolInit => NoneShared
  BY SharedInit
<1>2. SlotPoolTypeOK /\ NoneShared /\ [SlotPoolNext]_slotVars => NoneShared'
  BY SharedStep
<1>3. NoneShared => NoSlotShared
  BY SharedByPlace
<1> QED
  BY <1>1, <1>2, <1>3, TypeCorrect, PTL DEF SlotPoolSpec

-----------------------------------------------------------------------------
(* NoSlotLost, place by place.  It is inductive because an allocation only *)
(* runs for a layer that has no slots, and leaves none behind when it ends.*)
In(s, x) == \E i \in 1..Len(s) : s[i] = x

NoneLost ==
  \A x \in Slots : \/ In(free_slots, x)
                   \/ In(claim.slots, x)
                   \/ \E l \in Layers : In(layer_slots[l], x)

ClaimIsApart ==
  /\ ~Allocating => claim.slots = <<>>
  /\ \A l \in Layers : claim.layer = l => layer_slots[l] = <<>>

(* A slot that is in one of the three kinds of place is in a place. *)
LEMMA LostByPlace == NoneLost => NoSlotLost
<1> SUFFICES ASSUME NoneLost, NEW x \in Slots
             PROVE  \E p \in Places : In(At(p), x)
  BY DEF NoSlotLost, In
<1>1. CASE In(free_slots, x)
  <2>1. <<"free">> \in Places /\ In(At(<<"free">>), x)
    BY <1>1, AtPlaces DEF Places
  <2> QED
    BY <2>1
<1>2. CASE In(claim.slots, x)
  <2>1. <<"claim">> \in Places /\ In(At(<<"claim">>), x)
    BY <1>2, AtPlaces DEF Places
  <2> QED
    BY <2>1
<1>3. ASSUME NEW l \in Layers, In(layer_slots[l], x)
      PROVE  \E p \in Places : In(At(p), x)
  <2>1. <<"layer", l>> \in Places /\ In(At(<<"layer", l>>), x)
    BY <1>3, AtPlaces DEF Places
  <2> QED
    BY <2>1
<1> QED
  BY <1>1, <1>2, <1>3 DEF NoneLost

(* A pop, a push and a release keep every element.                         *)
LEMMA InEmpty == \A x : ~In(<<>>, x)
BY DEF In

(* A move of the last element to another sequence loses no element. *)
LEMMA InMoveLast ==
  ASSUME NEW S, NEW s \in Seq(S), NEW t \in Seq(S), s # <<>>, NEW x
  PROVE  /\ In(s, x) => In(Front(s), x) \/ In(Append(t, Last(s)), x)
         /\ In(t, x) => In(Append(t, Last(s)), x)
<1> DEFINE last == Last(s)
           front == Front(s)
           push == Append(t, last)
<1>1. /\ last \in S /\ last = s[Len(s)]
      /\ Len(s) \in Nat \ {0}
      /\ Len(front) = Len(s) - 1
      /\ \A i \in 1..Len(front) : front[i] = s[i]
  BY PopProperties DEF Last
<1>2. /\ Len(push) = Len(t) + 1 /\ Len(t) \in Nat
      /\ \A i \in 1..Len(t) : push[i] = t[i]
      /\ push[Len(t) + 1] = last
  BY <1>1, AppendProperties, LenProperties
<1> HIDE DEF last, front, push
<1>3. ASSUME NEW i \in 1..Len(s), s[i] = x
      PROVE  In(front, x) \/ In(push, x)
  <2>1. CASE i = Len(s)
    <3>1. Len(t) + 1 \in 1..Len(push) /\ push[Len(t) + 1] = x
      BY <1>1, <1>2, <1>3, <2>1
    <3> QED
      BY <3>1 DEF In
  <2>2. CASE i # Len(s)
    <3>1. i \in 1..Len(front) /\ front[i] = x
      BY <1>1, <1>3, <2>2
    <3> QED
      BY <3>1 DEF In
  <2> QED
    BY <2>1, <2>2
<1>4. In(t, x) => In(push, x)
  BY <1>2 DEF In
<1> QED
  BY <1>3, <1>4 DEF In, last, front, push

(* A concatenation has the elements of both parts. *)
LEMMA InConcat ==
  ASSUME NEW S, NEW s \in Seq(S), NEW t \in Seq(S), NEW x
  PROVE  In(s, x) \/ In(t, x) => In(s \o t, x)
<1> DEFINE both == s \o t
<1>1. /\ Len(s) \in Nat /\ Len(t) \in Nat
      /\ Len(both) = Len(s) + Len(t)
      /\ \A i \in 1..(Len(s) + Len(t)) :
           both[i] = IF i <= Len(s) THEN s[i] ELSE t[i - Len(s)]
  BY ConcatProperties, LenProperties
<1> HIDE DEF both
<1>2. ASSUME NEW i \in 1..Len(s), s[i] = x
      PROVE  In(both, x)
  <2>1. i \in 1..Len(both) /\ both[i] = x
    BY <1>1, <1>2
  <2> QED
    BY <2>1 DEF In
<1>3. ASSUME NEW i \in 1..Len(t), t[i] = x
      PROVE  In(both, x)
  <2>1. Len(s) + i \in 1..Len(both) /\ both[Len(s) + i] = x
    BY <1>1, <1>3
  <2> QED
    BY <2>1 DEF In
<1> QED
  BY <1>2, <1>3 DEF In, both

(* At first every slot is on the free stack and no allocation runs. *)
LEMMA LostInit == SlotPoolInit => NoneLost /\ ClaimIsApart
<1> SUFFICES ASSUME SlotPoolInit PROVE NoneLost /\ ClaimIsApart
  OBVIOUS
<1> USE SlotPoolAssumption
<1>1. ASSUME NEW x \in Slots
      PROVE  In(free_slots, x)
  <2>1. x \in Nat /\ x < NumSlots
    BY DEF Slots
  <2>2. Len(free_slots) = NumSlots /\ \A i \in 1..NumSlots : free_slots[i] = NumSlots - i
    BY DEF SlotPoolInit
  <2>3. NumSlots - x \in 1..Len(free_slots) /\ free_slots[NumSlots - x] = x
    BY <2>1, <2>2
  <2> QED
    BY <2>3 DEF In
<1>2. ClaimIsApart
  BY DEF SlotPoolInit, NoClaim, ClaimIsApart
<1> QED
  BY <1>1, <1>2 DEF NoneLost

(* No step of the pool loses a slot or gives the layer being allocated      *)
(* slots of its own.                                                        *)
LEMMA LostStep ==
  ASSUME SlotPoolTypeOK, NoneLost, ClaimIsApart, [SlotPoolNext]_slotVars
  PROVE  NoneLost' /\ ClaimIsApart'
<1> USE SlotPoolAssumption DEF SlotPoolTypeOK
<1>1. ASSUME NEW l \in Layers, NEW n \in 1..MaxTensors, BeginAllocate(l, n)
      PROVE  NoneLost' /\ ClaimIsApart'
  <2>1. /\ claim.slots = <<>> /\ claim'.slots = <<>> /\ claim'.layer = l
        /\ layer_slots[l] = <<>> /\ layer_slots' = layer_slots /\ free_slots' = free_slots
    BY <1>1 DEF BeginAllocate, ClaimIsApart
  <2> QED
    BY <2>1 DEF NoneLost, ClaimIsApart, Allocating, Slots
<1>2. CASE PopFree
  <2>1. /\ free_slots # <<>> /\ free_slots' = Front(free_slots)
        /\ claim'.slots = Append(claim.slots, Last(free_slots))
        /\ claim'.layer = claim.layer /\ Allocating
        /\ layer_slots' = layer_slots
    BY <1>2 DEF PopFree, PopWhile, Gather
  <2>2. free_slots \in Seq(Slots) /\ claim.slots \in Seq(Slots)
    OBVIOUS
  <2>3. \A x \in Slots : In(free_slots, x) \/ In(claim.slots, x)
                           => In(free_slots', x) \/ In(claim'.slots, x)
    BY <2>1, <2>2, InMoveLast
  <2>4. NoneLost'
    BY <2>1, <2>3 DEF NoneLost, Slots
  <2> QED
    BY <2>1, <2>4 DEF ClaimIsApart, Allocating
<1>3. CASE EvictOldest
  <2>1. CASE Evictable = {}
    BY <1>3, <2>1 DEF EvictOldest, EvictLeaving, NoneLost, ClaimIsApart, Allocating, Slots
  <2>2. CASE Evictable # {}
    <3>1. Oldest \in Layers /\ layer_slots[Oldest] # <<>>
      BY <2>2, OldestIsEvictable DEF Evictable
    <3> DEFINE held == layer_slots[Oldest]
    <3>2. /\ free_slots = <<>> /\ free_slots' = Front(held)
          /\ claim'.slots = Append(claim.slots, Last(held))
          /\ claim'.layer = claim.layer /\ Allocating
          /\ \A l \in Layers : layer_slots'[l] = IF l = Oldest THEN <<>> ELSE layer_slots[l]
      BY <1>3, <2>2, <3>1 DEF EvictOldest, EvictLeaving, Gather
    <3>3. held \in Seq(Slots) /\ claim.slots \in Seq(Slots) /\ held # <<>>
      BY <3>1
    <3> HIDE DEF held
    <3>4. \A x \in Slots : In(held, x) \/ In(claim.slots, x)
                             => In(free_slots', x) \/ In(claim'.slots, x)
      BY <3>2, <3>3, InMoveLast
    <3>5. NoneLost'
      BY <3>2, <3>4, InEmpty DEF NoneLost, Slots, held
    <3> QED
      BY <3>2, <3>5 DEF ClaimIsApart, Allocating
  <2> QED
    BY <2>1, <2>2
<1>4. CASE EndAllocate
  <2>1. claim.layer \in Layers
    BY <1>4 DEF EndAllocate, Allocating
  <2>2. /\ claim'.slots = <<>> /\ claim'.layer = -1 /\ free_slots' = free_slots
        /\ layer_slots[claim.layer] = <<>>
        /\ \A l \in Layers :
             layer_slots'[l] = IF l = claim.layer THEN claim.slots ELSE layer_slots[l]
    BY <1>4, <2>1 DEF EndAllocate, NoClaim, ClaimIsApart
  <2>3. NoneLost'
    BY <2>1, <2>2, InEmpty DEF NoneLost, Slots
  <2> QED
    BY <2>2, <2>3 DEF ClaimIsApart
<1>5. ASSUME NEW l \in Layers, ReleaseSlots(l)
      PROVE  NoneLost' /\ ClaimIsApart'
  <2>1. /\ free_slots' = free_slots \o layer_slots[l]
        /\ claim' = claim
        /\ \A m \in Layers : layer_slots'[m] = IF m = l THEN <<>> ELSE layer_slots[m]
    BY <1>5 DEF ReleaseSlots
  <2>2. free_slots \in Seq(Slots) /\ layer_slots[l] \in Seq(Slots)
    OBVIOUS
  <2>3. \A x \in Slots : In(free_slots, x) \/ In(layer_slots[l], x) => In(free_slots', x)
    BY <2>1, <2>2, InConcat
  <2>4. NoneLost'
    BY <2>1, <2>3 DEF NoneLost, Slots
  <2> QED
    BY <2>1, <2>4 DEF ClaimIsApart, Allocating
<1>6. CASE UNCHANGED slotVars
  BY <1>6 DEF slotVars, NoneLost, ClaimIsApart, Allocating, Slots
<1> QED
  BY <1>1, <1>2, <1>3, <1>4, <1>5, <1>6 DEF SlotPoolNext, AllocateStep

(* Every slot is always free, claimed or with a layer: none leaks.         *)
THEOREM SlotsNotLost == SlotPoolSpec => []NoSlotLost
<1>1. SlotPoolInit => NoneLost /\ ClaimIsApart
  BY LostInit
<1>2. SlotPoolTypeOK /\ NoneLost /\ ClaimIsApart /\ [SlotPoolNext]_slotVars
        => NoneLost' /\ ClaimIsApart'
  BY LostStep
<1>3. NoneLost => NoSlotLost
  BY LostByPlace
<1> QED
  BY <1>1, <1>2, <1>3, TypeCorrect, PTL DEF SlotPoolSpec

-----------------------------------------------------------------------------
(* With nothing free and no other layer to evict, every slot would be in   *)
(* the claim; but a claim that still wants one has fewer than NumSlots.    *)
LEMMA ClaimIsPartial ==
  ASSUME SlotPoolTypeOK, NoneLost, ClaimIsApart,
         free_slots = <<>>, Len(claim.slots) < claim.want
  PROVE  Evictable # {}
<1> USE SlotPoolAssumption DEF SlotPoolTypeOK
<1> SUFFICES ASSUME Evictable = {} PROVE FALSE
  OBVIOUS
<1> DEFINE n == Len(claim.slots)
<1>1. n \in Nat /\ claim.slots \in [1..n -> Slots] /\ n < NumSlots
  BY LenProperties
<1>2. \A l \in Layers : layer_slots[l] = <<>>
  BY DEF Evictable, ClaimIsApart
<1>3. \A x \in Slots : In(claim.slots, x)
  BY <1>2, InEmpty DEF NoneLost
<1>4. claim.slots \in Surjection(1..n, Slots)
  BY <1>1, <1>3 DEF Surjection, In
<1>5. IsFiniteSet(1..n) /\ Cardinality(1..n) = n
  <2> HIDE DEF n
  <2>1. n \in Int /\ 1 \in Int
    BY <1>1
  <2>2. IsFiniteSet(1..n) /\ Cardinality(1..n) = IF 1 > n THEN 0 ELSE n - 1 + 1
    BY <2>1, FS_Interval
  <2> QED
    BY <1>1, <2>2
<1>6. Cardinality(Slots) = NumSlots
  BY FS_Interval DEF Slots
<1>7. Cardinality(Slots) <= Cardinality(1..n)
  BY <1>4, <1>5, FS_Surjection
<1> QED
  BY <1>1, <1>5, <1>6, <1>7

(* expect("pool exhausted after eviction") never fires, as long as one     *)
(* layer's tensors fit in the pool.                                        *)
THEOREM PoolNeverExhausted == SlotPoolSpec => []NeverExhausted
<1>1. SlotPoolInit => NeverExhausted /\ NoneLost /\ ClaimIsApart
  BY LostInit DEF SlotPoolInit, NeverExhausted
<1>2. SlotPoolTypeOK /\ NoneLost /\ ClaimIsApart /\ NeverExhausted /\ [SlotPoolNext]_slotVars
        => NeverExhausted'
  <2> SUFFICES ASSUME SlotPoolTypeOK, NoneLost, ClaimIsApart, NeverExhausted,
                      [SlotPoolNext]_slotVars
               PROVE  panicked' = panicked
    BY DEF NeverExhausted
  <2>1. CASE EvictOldest
    <3>1. Evictable # {}
      BY <2>1, ClaimIsPartial DEF EvictOldest, EvictLeaving
    <3> QED
      BY <2>1, <3>1 DEF EvictOldest, EvictLeaving
  <2>2. CASE PopFree \/ EndAllocate \/ UNCHANGED slotVars
    BY <2>2 DEF PopFree, PopWhile, EndAllocate, slotVars
  <2>3. ASSUME NEW l \in Layers, NEW n \in 1..MaxTensors, BeginAllocate(l, n)
        PROVE  panicked' = panicked
    BY <2>3 DEF BeginAllocate
  <2>4. ASSUME NEW l \in Layers, ReleaseSlots(l)
        PROVE  panicked' = panicked
    BY <2>4 DEF ReleaseSlots
  <2> QED
    BY <2>1, <2>2, <2>3, <2>4 DEF SlotPoolNext, AllocateStep
<1>3. SlotPoolTypeOK /\ NoneLost /\ ClaimIsApart /\ [SlotPoolNext]_slotVars
        => NoneLost' /\ ClaimIsApart'
  BY LostStep
<1> QED
  BY <1>1, <1>2, <1>3, TypeCorrect, PTL DEF SlotPoolSpec
=============================================================================
