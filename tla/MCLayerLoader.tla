--------------------------- MODULE MCLayerLoader ---------------------------
(* Model values and small instances for LayerLoader. *)
EXTENDS LayerLoader

MCLayers == 0..(NumLayers - 1)
MCCells == UNION {{<<l, i>> : i \in 1..NumParts[l]} : l \in MCLayers}

(* Six layers: 1 is on the GPU (no region), 2 and 5 in RAM, 0, 3, 4 NVMe. *)
PartsSix == 0 :> 2 @@ 1 :> 0 @@ 2 :> 1 @@ 3 :> 2 @@ 4 :> 3 @@ 5 :> 1
=============================================================================
