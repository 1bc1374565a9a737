----------------------------- MODULE LayerStore -----------------------------
(***************************************************************************)
(* What layer streaming promises to the forward pass, without threads,     *)
(* channels or statuses: a layer is computed only while all of its data is *)
(* in memory, and data leaves memory only when no computation uses it.     *)
(* LayerLoader is shown to implement this.                                 *)
(***************************************************************************)
CONSTANTS Layers, None

VARIABLES
  resident,  \* layers whose data is completely in memory
  using      \* the layer the forward pass is in, or None

vars == <<resident, using>>

Init == resident = {} /\ using = None

Load(l) ==
  /\ resident' = resident \cup {l}
  /\ UNCHANGED using

Evict(l) ==
  /\ l # using
  /\ resident' = resident \ {l}
  /\ UNCHANGED using

Enter(l) ==
  /\ using = None
  /\ l \in resident
  /\ using' = l
  /\ UNCHANGED resident

Leave ==
  /\ using' = None
  /\ UNCHANGED resident

Next == (\E l \in Layers : Load(l) \/ Evict(l) \/ Enter(l)) \/ Leave

Spec == Init /\ [][Next]_vars
=============================================================================
