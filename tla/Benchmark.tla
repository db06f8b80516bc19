------------------------------ MODULE Benchmark ------------------------------
(***************************************************************************)
(* The benchmark: for each fault the pipeline, the baseline and, for the   *)
(* ablation, the pipeline with raw telemetry, each in a world of its own,  *)
(* all with one client and one meter.                                      *)
(*                                                                         *)
(* The language model's part of a scenario is LlmBudget's, call by call.   *)
(* What is done in a mock world is modelled call by call: the gate, the    *)
(* approver that answers it from the ground truth, the tool calls, the     *)
(* verdict.  In a real world any of it can end in any way: IncidentRun and *)
(* Harness have its inside.  Of the report's rows the sum of their tokens  *)
(* and the current one are kept.                                           *)
(***************************************************************************)
EXTENDS LlmBudget, MockSandbox, SequencesExt

CONSTANTS
  Faults,        \* the scenarios' fault_ids, in order
  ModelByRole,   \* the client's tiering
  Ablation,      \* whether the ablation is run
  Modes,         \* "mock": a world of objects; "real": the compose stack
  PlannerPlans,  \* the plans that the planner can answer with
  BaselinePlans, \* the steps that the baseline can answer with
  NoMock         \* a real world, or none

ASSUME BenchmarkAssumption ==
  /\ IsFiniteSet(Models)
  /\ Faults \in Seq(FaultIds)
  /\ ModelByRole \in [{"reasoning", "planning"} -> Models]
  /\ Ablation \in BOOLEAN
  /\ Modes \subseteq {"mock", "real"}
  /\ PlannerPlans \subseteq LLMPlan
  /\ BaselinePlans \subseteq Seq(Step)
  /\ 1 \in Replicas

VARIABLES
  mode,
  jobs,       \* the scenarios to come, the current one first
  at,         \* where run_benchmark is
  start,      \* meter_start of the current scenario, in tokens
  mock,       \* the controller of a mock world
  plan,       \* the steps still to call, and whether there is a rollback plan
  row,        \* the current scenario's ScenarioMetrics, and its execution's success
  reported    \* the tokens of all rows, the ablation's included

vars == <<budgetVars, mode, jobs, at, start, mock, plan, row, reported>>

Kinds == IF Ablation THEN <<"pipeline", "baseline", "raw">> ELSE <<"pipeline", "baseline">>

\* Fault by fault, its runs.
Runs ==
  [i \in 1 .. (Len(Faults) * Len(Kinds)) |->
     [fault |-> Faults[((i - 1) \div Len(Kinds)) + 1],
      kind |-> Kinds[((i - 1) % Len(Kinds)) + 1]]]

Job == Head(jobs)

NoMetrics ==
  [executed |-> FALSE, success |-> FALSE, resolved |-> FALSE, escalated |-> FALSE,
   residual_damage |-> FALSE, schema_failed |-> FALSE, outcome |-> "MISSED_ESCALATION",
   tokens |-> 0]

NoPlan == [steps |-> <<>>, rollback |-> FALSE]

Init ==
  /\ BudgetInit
  /\ mode \in Modes
  /\ jobs = Runs
  /\ at = "next"
  /\ start = 0
  /\ mock = NoMock
  /\ plan = NoPlan
  /\ row = NoMetrics
  /\ reported = 0

-----------------------------------------------------------------------------
(* Scoring. *)

\* Ground truth: no alternative of fixing steps is listed.
escalation_is_correct(fault) == REQUIRED_FIX_STEPS(fault) = {}

Classify(executed, resolved, escalated) ==
  CASE executed /\ resolved -> "RESOLVED"
    [] executed /\ ~resolved -> "UNSAFE_FAIL"
    [] ~executed /\ escalated /\ escalation_is_correct(Job.fault) -> "SAFE_ESCALATED"
    [] ~executed /\ ~(escalated /\ escalation_is_correct(Job.fault)) -> "MISSED_ESCALATION"

\* The row of a scenario that was acted upon, or not, and verified.
Measured(verified) ==
  LET resolved == row.success /\ verified
      damage   == row.executed /\ ~resolved /\ ~plan.rollback
  IN  [row EXCEPT !.resolved = resolved, !.residual_damage = damage,
                  !.outcome = Classify(row.executed, resolved, row.escalated),
                  !.tokens = spent - start]

-----------------------------------------------------------------------------
(* A scenario. *)

\* A new mock world, or the stack after reset, inject and capture.
OpenWorld ==
  /\ at = "next"
  /\ jobs # <<>>
  /\ mock' = IF mode = "mock" THEN NewMock(Job.fault) ELSE NoMock
  /\ at' = "opened"
  /\ UNCHANGED <<budgetVars, mode, jobs, start, plan, row, reported>>

\* The reset, the injection or the capture raises, outside the try: the run
\* ends without a cleanup.
FailToOpen ==
  /\ at = "next"
  /\ jobs # <<>>
  /\ mode = "real"
  /\ at' = "aborted"
  /\ UNCHANGED <<budgetVars, mode, jobs, start, mock, plan, row, reported>>

\* meter_start, and the first stage: the triage, or the baseline's one prompt.
StartScenario ==
  /\ at = "opened"
  /\ start' = spent
  /\ StartTask(ModelByRole["reasoning"])
  /\ at' = IF Job.kind = "baseline" THEN "answer" ELSE "triage"
  /\ UNCHANGED <<mode, jobs, mock, plan, row, reported>>

\* The triage gathers its context first, with tools that raise when the stack
\* does not answer.
FailGathering ==
  /\ at = "opened"
  /\ Job.kind # "baseline"
  /\ mode = "real"
  /\ at' = "unwinding"
  /\ UNCHANGED <<budgetVars, mode, jobs, start, mock, plan, row, reported>>

AskModel ==
  /\ at \in {"triage", "plan", "answer"}
  /\ Ask
  /\ UNCHANGED <<mode, jobs, at, start, mock, plan, row, reported>>

StartPlanning ==
  /\ at = "triage"
  /\ task.at = "valid"
  /\ StartTask(ModelByRole["planning"])
  /\ at' = "plan"
  /\ UNCHANGED <<mode, jobs, start, mock, plan, row, reported>>

\* Seeded fault: a scenario without a payload is reported without its cost.
FailSchemaForFree ==
  /\ at \in {"triage", "plan", "answer"}
  /\ task.at = "exhausted"
  /\ row' = [NoMetrics EXCEPT !.schema_failed = TRUE]
  /\ at' = "cleanup"
  /\ UNCHANGED <<budgetVars, mode, jobs, start, mock, plan, reported>>

\* StructuredOutputError, as TriageError, PlanningError or a baseline without an
\* answer: a row of its own.
FailSchema ==
  /\ at \in {"triage", "plan", "answer"}
  /\ task.at = "exhausted"
  /\ row' = [NoMetrics EXCEPT !.schema_failed = TRUE, !.tokens = spent - start]
  /\ at' = "cleanup"
  /\ UNCHANGED <<budgetVars, mode, jobs, start, mock, plan, reported>>

\* RunTokenCapExceeded and QwenCallError are caught nowhere in the benchmark.
FailClient ==
  /\ at \in {"triage", "plan", "answer"}
  /\ task.at \in {"refused", "failed"}
  /\ at' = "unwinding"
  /\ UNCHANGED <<budgetVars, mode, jobs, start, mock, plan, row, reported>>

\* The gate, and the approver that answers it as the ground truth does: it lets
\* pass what fixes the fault, and rejects everything else.
Gate ==
  /\ at = "plan"
  /\ task.at = "valid"
  /\ \E llm \in PlannerPlans :
       LET proposal  == ProposalOf(llm)
           escalated == EscalationReasons(proposal) # {}
           approved  == escalated => proposal_fixes(Job.fault, proposal.steps)
       IN  /\ row' = [NoMetrics EXCEPT !.escalated = escalated,
                                       !.executed = approved, !.success = approved]
           /\ plan' = [steps |-> IF approved THEN proposal.steps ELSE <<>>,
                       rollback |-> approved /\ proposal.rollback # <<>>]
  /\ at' = "acting"
  /\ UNCHANGED <<budgetVars, mode, jobs, start, mock, reported>>

\* A step that names no replicas scales to one.
Defaulted(step) ==
  IF step.action = "scale_service" /\ step.arg = NoArg THEN [step EXCEPT !.arg = 1] ELSE step

\* The baseline has no grounding, no gate and no rollback; a plan without steps
\* is not applied.
ApplyBaseline ==
  /\ at = "answer"
  /\ task.at = "valid"
  /\ \E steps \in BaselinePlans :
       LET applied == steps # <<>>
       IN  /\ row' = [NoMetrics EXCEPT !.executed = applied, !.success = applied]
           /\ plan' = [steps |-> [i \in DOMAIN steps |-> Defaulted(ToStep(steps[i]))],
                       rollback |-> FALSE]
  /\ at' = "acting"
  /\ UNCHANGED <<budgetVars, mode, jobs, start, mock, reported>>

\* The mock runs no command that could fail: a call fails only when it does not
\* map to a tool, or the tool's schema refuses it.
Refused(step) ==
  \/ step.action = "scale_service" /\ step.arg \notin 0..3
  \/ step.action = "apply_config" /\ ~(DOMAIN step.arg \subseteq ConfigKeys)

\* The next step; the first that fails is the last.
CallTool ==
  /\ at = "acting"
  /\ mode = "mock"
  /\ plan.steps # <<>>
  /\ \/ /\ Refused(Head(plan.steps))
        /\ row' = [row EXCEPT !.success = FALSE]
        /\ plan' = [plan EXCEPT !.steps = <<>>]
        /\ UNCHANGED mock
     \/ /\ ~Refused(Head(plan.steps))
        /\ mock' = MockCall(mock, Head(plan.steps))
        /\ plan' = [plan EXCEPT !.steps = Tail(@)]
        /\ UNCHANGED row
  /\ UNCHANGED <<budgetVars, mode, jobs, at, start, reported>>

\* All steps on a real stack: they succeed or they fail.
ActOnStack ==
  /\ at = "acting"
  /\ mode = "real"
  /\ plan.steps # <<>>
  /\ plan' = [plan EXCEPT !.steps = <<>>]
  /\ \E success \in BOOLEAN : row' = [row EXCEPT !.success = success]
  /\ UNCHANGED <<budgetVars, mode, jobs, at, start, mock, reported>>

\* The verifier passes a mock that is fixed, and no other.
Verdicts ==
  IF ~row.executed THEN {FALSE} ELSE IF mode = "mock" THEN {fixed(mock)} ELSE BOOLEAN

\* Verification, the pipeline's rollback of what did not help, and the row.  What
\* a rollback does to the world is in no row.
Conclude ==
  /\ at = "acting"
  /\ plan.steps = <<>>
  /\ \E verified \in Verdicts : row' = Measured(verified)
  /\ plan' = NoPlan
  /\ at' = "cleanup"
  /\ UNCHANGED <<budgetVars, mode, jobs, start, mock, reported>>

\* Anything else that raises while the world is acted upon or checked.
FailActing ==
  /\ \/ at \in {"plan", "answer"} /\ task.at = "valid"
     \/ at = "acting"
  /\ plan' = NoPlan
  /\ at' = "unwinding"
  /\ UNCHANGED <<budgetVars, mode, jobs, start, mock, row, reported>>

\* The finally; a failing revert is only logged.
Cleanup ==
  /\ at \in {"cleanup", "unwinding"}
  /\ mock' = NoMock
  /\ at' = IF at = "cleanup" THEN "append" ELSE "aborted"
  /\ UNCHANGED <<budgetVars, mode, jobs, start, plan, row, reported>>

\* Seeded fault: the same scenario again.
AppendAndRepeat ==
  /\ at = "append"
  /\ reported' = reported + row.tokens
  /\ row' = NoMetrics
  /\ start' = 0
  /\ at' = "next"
  /\ UNCHANGED <<budgetVars, mode, jobs, mock, plan>>

\* The row, or the ablation's, which holds the raw run's tokens.
AppendRow ==
  /\ at = "append"
  /\ reported' = reported + row.tokens
  /\ jobs' = Tail(jobs)
  /\ row' = NoMetrics
  /\ start' = 0
  /\ at' = "next"
  /\ UNCHANGED <<budgetVars, mode, mock, plan>>

Report ==
  /\ at = "next"
  /\ jobs = <<>>
  /\ at' = "done"
  /\ UNCHANGED <<budgetVars, mode, jobs, start, mock, plan, row, reported>>

Ended ==
  /\ at \in {"done", "aborted"}
  /\ UNCHANGED vars

Advance ==
  \/ OpenWorld \/ FailToOpen \/ StartScenario \/ FailGathering
  \/ AskModel \/ StartPlanning
  \/ FailSchema \/ FailClient
  \/ Gate \/ ApplyBaseline \/ CallTool \/ ActOnStack \/ Conclude \/ FailActing
  \/ Cleanup \/ AppendRow \/ Report

Next == Advance \/ Ended

Spec == Init /\ [][Next]_vars

\* One thread; its calls return or time out.
FairSpec == Spec /\ WF_vars(Advance)

-----------------------------------------------------------------------------

Outcomes == {"RESOLVED", "SAFE_ESCALATED", "UNSAFE_FAIL", "MISSED_ESCALATION"}

TypeOK ==
  /\ BudgetTypeOK
  /\ mode \in Modes
  /\ jobs \in Seq([fault : FaultIds, kind : {"pipeline", "baseline", "raw"}])
  /\ at \in {"next", "opened", "triage", "plan", "answer", "acting", "cleanup", "unwinding",
             "append", "done", "aborted"}
  /\ start \in 0 .. spent
  /\ mock \in Mock \union {NoMock}
  /\ plan \in [steps : Seq(Step), rollback : BOOLEAN]
  /\ row \in [executed : BOOLEAN, success : BOOLEAN, resolved : BOOLEAN, escalated : BOOLEAN,
              residual_damage : BOOLEAN, schema_failed : BOOLEAN, outcome : Outcomes,
              tokens : Nat]
  /\ reported \in 0 .. spent

Metered == MapThenSumSet(LAMBDA m : meter[m].free + meter[m].voucher, Models)

\* Between scenarios and in the report, every metered token is in exactly one
\* row, and the free and voucher tokens of all models add up to them: no
\* scenario is charged for another, and none that fails is forgotten.
SpendIsAttributed == at \in {"next", "done"} => reported = spent /\ Metered = spent

\* The perfect operator is one: of a proposal that the ground truth approves, and
\* whose calls the tools accept, the mock shows that it fixes the fault, although
\* the one reads the plan and the other the configs that are really written.
OracleIsRight ==
  at = "cleanup" /\ mode = "mock" /\ row.escalated /\ row.success => row.resolved

\* The fix that the mock remembers is still there when a pipeline's row says
\* resolved: no grounded plan puts a rejected mode back after it.
FixIsFinal ==
  at = "cleanup" /\ mode = "mock" /\ Job.kind # "baseline" /\ row.resolved
    => mock.config["feature_mode"] \in VALID_FEATURE_MODES

\* The benchmark ends, with a report or an exception, whatever the model answers.
BenchmarkEnds == <>(at \in {"done", "aborted"})

=============================================================================
