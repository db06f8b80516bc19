SPECIFICATION Spec
CONSTANTS
  Known = Known
  Made = Made
  NoArg = NoArg
  Values = {Known, Made}
  Services = {"app", "worker", "queue", "downstream"}
  Replicas = {0, 1, 2, 4}
  ConfidenceThreshold = 75
  RiskThreshold = 40
  RiskFloor = 60
  DependsOn <- MCDependsOn
  MaxPolls = 2
  Plans <- MCPlans
  EditedPlans <- MCEditedPlans
  InitialStacks <- MCInitialStacks
INVARIANT RollbackConverges
