----------------------------- MODULE MCBenchmark -----------------------------
(***************************************************************************)
(* An instance of Benchmark for TLC: one fault that takes two steps and    *)
(* one that no step fixes, two models, and caps that any few calls reach.  *)
(***************************************************************************)
EXTENDS Benchmark

CONSTANTS max, plus

MCFaults == <<"config_rollout_worker_wedge", "expired_credential">>

MCModelByRole == [reasoning |-> max, planning |-> plus]

\* Both tiers run out in the middle of a call.
MCFreeTier == [m \in Models |-> IF m = max THEN 5 ELSE 3]

MCDependsOn ==
  [s \in Services |-> CASE s = "app" -> {"db", "queue", "downstream"}
                        [] s = "worker" -> {"queue"}
                        [] OTHER -> {}]

Restarting(service) == [action |-> "restart_service", target |-> service, arg |-> NoArg]
Back == [action |-> "rollback", target |-> "app", arg |-> NoArg]
Patch(patch) == [action |-> "apply_config", target |-> "app", arg |-> patch]

Fix == <<Back, Restarting("worker")>>
Standard == [feature_mode |-> Known]
Turbo == [feature_mode |-> RolledOut]

\* The whole fix, half of it, the fix in other words, the fix undone, the fix that
\* a tool refuses, the wrong steps, and none.
MCSteps ==
  {Fix, <<Back>>, <<Restarting("worker"), Patch(Standard), Back>>, Fix \o <<Patch(Turbo)>>,
   <<Restarting("worker"), Patch([feature_mode |-> Known, other |-> Known])>>,
   <<Restarting("db")>>, <<>>}

\* At a confidence that the gate lets pass, and one that it escalates.
MCPlannerPlans ==
  {[steps |-> steps, rollback |-> <<Back>>, risk |-> 10, confidence |-> confidence,
    escalate |-> FALSE] : steps \in MCSteps, confidence \in {60, 80}}

=============================================================================
