\* Speculative loads in flight next to the loads waited for; slots for one layer, a file in another order.
CONSTANTS
  Layers <- Near
  NumExperts = 2
  ExpertsUsed = 1
  Tensors = 2
  NumSlots = 3
  Capacity = 5
  Position <- Swapped
  RouterLimit = 64
  SpecLimit = 4
  MaxPasses = 2
  Cells <- MCCells
  Keys <- MCKeys
  Data <- MCData
  Loads = {1, 2, 3, 4, 5, 6}
  Workers = {w1, w2}
  IoFaults = FALSE
  Empty = Empty
  NoTask = NoTask
SPECIFICATION Spec
INVARIANTS WaitedForAll OnlySpeculationMisleads OnlySpeculatedAreMissing
