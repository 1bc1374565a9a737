\* Three layers too far apart for speculation, slots for two, a cache that overflows.
CONSTANTS
  Layers <- Far3
  NumExperts = 2
  ExpertsUsed = 1
  Tensors = 2
  NumSlots = 4
  Capacity = 5
  Position <- AsIs
  RouterLimit = 64
  SpecLimit = 4
  MaxPasses = 2
  Cells <- MCCells
  Keys <- MCKeys
  Data <- MCData
  Loads = {1, 2, 3, 4, 5, 6}
  Workers = {w1, w2}
  IoFaults = FALSE
  Empty = Empty
  NoTask = NoTask
SPECIFICATION FairSpec
INVARIANTS RoutedExpertsPresent
PROPERTY Terminates
