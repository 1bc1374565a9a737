\* Two passes with a slot for every streaming layer; layer 0 is resident.
CONSTANTS
  NumLayers = 4
  NumSlots = 3
  Tensors = 1
  NumResident = 1
  NodesPerLayer = 2
  MaxPasses = 2
  Layers <- MCLayers
  Cells <- MCCells
  Data <- MCData
  Loads = {1, 2, 3, 4, 5, 6, 7, 8}
  Workers = {w1, w2}
  IoFaults = FALSE
  Empty = Empty
  NoTask = NoTask
SPECIFICATION Spec
INVARIANTS FirstPassIsRight HeldSlotsAreRight
