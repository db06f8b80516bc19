------------------------------ MODULE MCHarness ------------------------------
EXTENDS Harness

ToolCall(action, target, arg) == [action |-> action, target |-> target, arg |-> arg]

\* db_outage_ambiguous is injected, reverted and seen as db_pool_exhaustion is.
MCScenarios == FaultIds \ {"db_outage_ambiguous"}

\* Every fixing step, the ones that fix nothing, and the ones that do harm.
MCAgentSteps ==
  {ToolCall("restart_service", s, NoArg) : s \in {"worker", "downstream", "db"}}
    \union {ToolCall("scale_service", s, n) : s \in {"worker", "db"}, n \in {0, 1}}
    \union {ToolCall("rollback", "app", NoArg), ToolCall("apply_config", "app", <<>>),
            ToolCall("apply_config", "app", [feature_mode |-> Known]),
            ToolCall("apply_config", "app", [feature_mode |-> RolledOut]),
            ToolCall("apply_config", "app", [feature_mode |-> Known, downstream_url |-> RolledOut])}

MCDependsOn ==
  [s \in Services |-> CASE s = "app" -> {"db", "queue", "downstream"}
                        [] s = "worker" -> {"queue"}
                        [] OTHER -> {}]

=============================================================================
