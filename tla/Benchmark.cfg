SPECIFICATION FairSpec
CONSTANTS
  max = max
  plus = plus
  Models = {max, plus}
  MaxCallTokens = 2
  FreeTier <- MCFreeTier
  HasRunCap = TRUE
  RunCap = 8
  TokenCap = 3
  MaxAttempts = 3
  Services = {"app", "worker", "downstream", "db", "queue"}
  Known = Known
  RolledOut = RolledOut
  Values = {Known, RolledOut}
  Replicas = {0, 1}
  NoArg = NoArg
  ConfidenceThreshold = 70
  RiskThreshold = 30
  RiskFloor = 50
  DependsOn <- MCDependsOn
  Backlog = 1
  NoAnswer = NoAnswer
  NoMock = NoMock
  Faults <- MCFaults
  ModelByRole <- MCModelByRole
  Ablation = TRUE
  Modes = {"mock", "real"}
  PlannerPlans <- MCPlannerPlans
  BaselinePlans <- MCSteps
INVARIANTS
  TypeOK
  RunCapHolds
  TaskIsBounded
  FreeTierIsConserved
  SpendIsAttributed
  OracleIsRight
  FixIsFinal
PROPERTIES
  BenchmarkEnds
