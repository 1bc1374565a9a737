\* Three layers of two tensors on a pool of two layers: prefetch and ensure evict.
CONSTANTS
  NumLayers = 3
  NumSlots = 4
  Tensors = 2
  NumResident = 0
  NodesPerLayer = 2
  MaxPasses = 1
  Layers <- MCLayers
  Cells <- MCCells
  Data <- MCData
  Loads = {1, 2, 3, 4, 5, 6, 7, 8}
  Workers = {w1, w2}
  IoFaults = FALSE
  Empty = Empty
  NoTask = NoTask
SPECIFICATION FairSpec
INVARIANTS LoadingIsUnderway RemainingIsExact
PROPERTIES Terminates
