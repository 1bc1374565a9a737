---------------------------- MODULE MCDenseFfn ----------------------------
(* Model values and small instances for DenseFfn. *)
EXTENDS DenseFfn

MCLayers == 0..(NumLayers - 1)
MCCells == 0..(NumSlots - 1)
MCData == MCLayers \X (1..Tensors)
=============================================================================
