\* A slot for every tensor, two passes: a late duplicate completion.
CONSTANTS
  NumLayers = 3
  NumSlots = 3
  Tensors = 1
  NumResident = 0
  NodesPerLayer = 2
  MaxPasses = 2
  Layers <- MCLayers
  Cells <- MCCells
  Data <- MCData
  Loads = {1, 2, 3, 4, 5, 6, 7, 8}
  Workers = {w1, w2}
  IoFaults = FALSE
  Empty = Empty
  NoTask = NoTask
SPECIFICATION Spec
INVARIANTS RightWeights
