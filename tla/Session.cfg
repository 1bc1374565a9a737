\* Two generations; a context that a long prompt can fill; optimize after either.
CONSTANTS
  NCtx = 6
  NBatch = 4
  Hot = 4
  Managed = TRUE
  Interval = 2
  Prompts = {1, 4, 6}
  MaxTokens = 2
  Layers = {0, 1}
  NumExperts = 3
  ExpertsUsed = 2
  Enough = 3
  Files = {0, 1}
  Fused <- MCFused
  Routings <- MCRoutings
  NodesBefore = 1
  NodesAfter = 1
  MaxRuns = 2
SPECIFICATION Spec
INVARIANTS WindowKept CacheBounded ExpertsFound NoExpertLost PlannedOnFreshProfile
PROPERTY KeepsHistory
