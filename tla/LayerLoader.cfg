\* Every residency, two workers; layers 0, 3 and 4 on NVMe, 2 and 5 in RAM, 1 on the GPU.
CONSTANTS
  NumLayers = 6
  Layers <- MCLayers
  Loads <- MCLayers
  Cells <- MCCells
  Data <- MCCells
  NumParts <- PartsSix
  NvmeLayers = {0, 3, 4}
  NodesPerLayer = 2
  Lookaheads = {2, 3}
  Residencies = {"streaming", "resident", "preloaded"}
  MaxPasses = 2
  IoFaults = FALSE
  Workers = {w1, w2}
  Empty = Empty
  NoTask = NoTask
SPECIFICATION FairSpec
INVARIANTS TypeOK InsideMeansPresent OneLoadPerLayer StoppedIsDrained Preloaded
PROPERTIES ReleaseIsQuiet StoreSpec Terminates
