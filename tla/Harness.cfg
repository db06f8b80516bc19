SPECIFICATION Spec
CONSTANTS
  Services = {"app", "worker", "downstream", "db", "queue"}
  Known = Known
  RolledOut = RolledOut
  Values = {Known, RolledOut}
  Replicas = {0, 1, 2}
  NoArg = NoArg
  ConfidenceThreshold = 70
  RiskThreshold = 30
  RiskFloor = 50
  DependsOn <- MCDependsOn
  Backlog = 1
  NoAnswer = NoAnswer
  NoFault = NoFault
  Scenarios <- MCScenarios
  AgentSteps <- MCAgentSteps
  MaxActs = 2
  CaptureProbes = 3
  VerifySamples = 2
  MaxBacklog = 4
INVARIANTS TypeOK StartsClean FaultIsVisible  MockAgrees
PROPERTY RevertRestores
