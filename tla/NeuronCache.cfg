\* Room for three of six slices.
CONSTANTS
  Keys <- MCKeys
  Capacity = 3
SPECIFICATION AgeSpec
INVARIANTS OrderListsEntries WithinCapacity
PROPERTY EvictsLeastRecent
