\* As a model is built: the next layer has experts too.
CONSTANTS
  Layers <- Near
  NumExperts = 2
  ExpertsUsed = 1
  Tensors = 1
  NumSlots = 2
  Capacity = 16
  Position <- AsIs
  RouterLimit = 64
  SpecLimit = 4
  MaxPasses = 1
  Cells <- MCCells
  Keys <- MCKeys
  Data <- MCData
  Loads = {1, 2, 3, 4, 5, 6}
  Workers = {w1, w2}
  IoFaults = FALSE
  Empty = Empty
  NoTask = NoTask
SPECIFICATION Spec
INVARIANTS HitMeansPresent
