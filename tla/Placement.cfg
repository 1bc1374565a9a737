\* Every strategy, on machines where it applies and where it does not.
CONSTANTS
  Models <- MCModels
  Deployments <- MCDeployments
  Contexts <- MCContexts
SPECIFICATION Spec
INVARIANTS PlanFits ScheduledIsOverridden OffloadFits DenseStreamingFits
CHECK_DEADLOCK FALSE
