----------------------------- MODULE IncidentRun -----------------------------
(***************************************************************************)
(* One run of the pipeline (run_incident): triage, planning, the HITL gate *)
(* with the human behind it, the executor (dry-run then apply, per step),  *)
(* verification with its settle window, the automatic rollback, and the    *)
(* recording of the outcome.                                               *)
(*                                                                         *)
(* The environment chooses what the planner answers, what the human        *)
(* decides, which compose commands fail, and what the verifier measures on *)
(* a stack that could be healthy.                                          *)
(***************************************************************************)
EXTENDS InfraTools

CONSTANTS
  Plans,          \* the planner's possible answers
  EditedPlans,    \* the step lists a human may put in place of the proposal's
  InitialStacks,  \* what a fault can have left, as far as Stack shows it
  MaxPolls        \* bound: verification polls within the settle window

ASSUME RunAssumption ==
  /\ Plans \subseteq LLMPlan
  /\ EditedPlans \subseteq Seq(Step)
  /\ InitialStacks \subseteq Stack
  /\ MaxPolls \in Nat \ {0}

\* A fault that changes the config restarts the app before it counts as injected.
ASSUME InitialAssumption ==
  \A st \in InitialStacks : "app" \in st.up => st.loaded = st.file

VARIABLES
  pc,         \* where run_incident is
  proposal,   \* the planner's proposal
  approved,   \* gate.proposal: the proposal to execute
  gate,       \* GateOutcome without its proposal
  phase,      \* which plan execute() runs
  outcomes,   \* step_outcomes of the current phase: success flags
  execution,  \* success of each phase's ExecutionResult
  polls,      \* verification measurements taken
  verified,   \* VerificationResult.resolved
  report,     \* resolved, rolled_back, outcome_recorded
  knowledge,  \* what record_outcome stored about this incident
  stack,      \* the sandbox
  initial,    \* history: the stack before the run
  calls       \* history: every Infra tool call, in order

runVars == <<proposal, approved, gate>>
execVars == <<phase, outcomes, execution>>
endVars == <<polls, verified, report, knowledge>>
envVars == <<stack, initial, calls>>
vars == <<pc, runVars, execVars, endVars, envVars>>

Phases == {"remediation", "rollback"}

NoProposal == [steps |-> <<>>, rollback |-> <<>>, risk |-> 0, confidence |-> 100,
               escalate |-> FALSE, requires_approval |-> TRUE]

Plan(p, ph) == IF ph = "rollback" THEN p.rollback ELSE p.steps
Current == Plan(approved, phase)

\* Seeded fault: the steps run in descending order.
LastStepFirst == Len(Current) - Len(outcomes)

Cursor == Len(outcomes) + 1

Ended == pc \in {"done", "raised"}

-----------------------------------------------------------------------------

Init ==
  /\ pc = "triage"
  /\ proposal = NoProposal
  /\ approved = NoProposal
  /\ gate = [approved |-> FALSE, route |-> "none", human |-> "none"]
  /\ phase = "remediation"
  /\ outcomes = <<>>
  /\ execution = [ph \in Phases |-> "none"]
  /\ polls = 0
  /\ verified = FALSE
  /\ report = [resolved |-> FALSE, rolled_back |-> FALSE, recorded |-> FALSE]
  /\ knowledge = "none"
  /\ stack \in InitialStacks
  /\ initial = stack
  /\ calls = <<>>

\* run_triage: hypotheses, or TriageError / a client error that leaves the run.
Triage ==
  /\ pc = "triage"
  /\ pc' \in {"plan", "raised"}
  /\ UNCHANGED <<runVars, execVars, endVars, envVars>>

\* plan_remediation: a proposal, or PlanningError / a client error.
PlanRemediation ==
  /\ pc = "plan"
  /\ \/ \E plan \in Plans : proposal' = ProposalOf(plan) /\ pc' = "gate"
     \/ pc' = "raised" /\ UNCHANGED proposal
  /\ UNCHANGED <<approved, gate, execVars, endVars, envVars>>

Cleared(p) == [p EXCEPT !.requires_approval = FALSE]

AutoApprove ==
  /\ pc = "gate"
  /\ EscalationReasons(proposal) = {}
  /\ approved' = Cleared(proposal)
  /\ gate' = [approved |-> TRUE, route |-> "auto", human |-> "none"]
  /\ pc' = "execute"
  /\ UNCHANGED <<proposal, execVars, endVars, envVars>>

Escalate ==
  /\ pc = "gate"
  /\ EscalationReasons(proposal) # {}
  /\ pc' = "human"
  /\ UNCHANGED <<runVars, execVars, endVars, envVars>>

HumanApproves ==
  /\ pc = "human"
  /\ approved' = Cleared(proposal)
  /\ gate' = [approved |-> TRUE, route |-> "human", human |-> "approve"]
  /\ pc' = "execute"
  /\ UNCHANGED <<proposal, execVars, endVars, envVars>>

\* The gate takes any proposal from an edit, its rollback plan included; the API
\* offers an edit of the steps only.
Edits(p) ==
  {[p EXCEPT !.steps = e[1], !.rollback = e[2]] :
     e \in (EditedPlans \union {p.steps}) \X (EditedPlans \union {p.rollback})}

HumanEdits ==
  /\ pc = "human"
  /\ \E edited \in Edits(proposal) : approved' = Cleared(edited)
  /\ gate' = [approved |-> TRUE, route |-> "human", human |-> "edit"]
  /\ pc' = "execute"
  /\ UNCHANGED <<proposal, execVars, endVars, envVars>>

\* An edit decision without a proposal is a ValueError.
HumanEditsNothing ==
  /\ pc = "human"
  /\ pc' = "raised"
  /\ UNCHANGED <<runVars, execVars, endVars, envVars>>

\* Seeded fault: a rejected proposal is cleared and executed.
HumanRejectsInVain ==
  /\ pc = "human"
  /\ approved' = Cleared(proposal)
  /\ gate' = [approved |-> FALSE, route |-> "human", human |-> "reject"]
  /\ pc' = "execute"
  /\ UNCHANGED <<proposal, execVars, endVars, envVars>>

HumanRejects ==
  /\ pc = "human"
  /\ approved' = proposal
  /\ gate' = [approved |-> FALSE, route |-> "human", human |-> "reject"]
  /\ pc' = "record"
  /\ UNCHANGED <<proposal, execVars, endVars, envVars>>

-----------------------------------------------------------------------------

\* execute() refuses a proposal that still requires approval, except when it
\* is asked for the rollback plan.
Enter(ph) ==
  /\ phase' = ph
  /\ outcomes' = <<>>
  /\ pc' = IF approved.requires_approval /\ ph = "remediation" THEN "raised" ELSE "step"

Execute ==
  /\ pc = "execute"
  /\ Enter("remediation")
  /\ UNCHANGED <<runVars, execution, endVars, envVars>>

Succeeded(outs) == outs # <<>> /\ \A i \in DOMAIN outs : outs[i]

\* execute() returns, and run_incident goes on: after the remediation to the
\* verifier, after the rollback to the recording.
Return(outs) ==
  /\ outcomes' = outs
  /\ execution' = [execution EXCEPT ![phase] = IF Succeeded(outs) THEN "ok" ELSE "failed"]
  /\ pc' = IF phase = "rollback" THEN "record" ELSE "verify"
  /\ report' = [report EXCEPT !.rolled_back = @ \/ phase = "rollback"]

\* scale_service without replicas does not map to a tool call.
Unmappable(step) == step.action = "scale_service" /\ step.arg = NoArg

FinishSteps ==
  /\ pc = "step"
  /\ Cursor > Len(Current)
  /\ Return(outcomes)
  /\ UNCHANGED <<runVars, phase, polls, verified, knowledge, envVars>>

RefuseStep ==
  /\ pc = "step"
  /\ Cursor <= Len(Current)
  /\ Unmappable(Current[Cursor])
  /\ Return(Append(outcomes, FALSE))
  /\ UNCHANGED <<runVars, phase, polls, verified, knowledge, envVars>>

Call(dry, result) ==
  /\ calls' = Append(calls, [phase |-> phase, at |-> Cursor, step |-> Current[Cursor],
                             dry |-> dry, ok |-> result.ok])
  /\ stack' = result.stack

\* Seeded fault: the answer of the dry run is ignored.
DryRunUnread ==
  /\ pc = "step"
  /\ Cursor <= Len(Current)
  /\ ~Unmappable(Current[Cursor])
  /\ \E result \in Invoke(stack, Current[Cursor], TRUE) : Call(TRUE, result)
  /\ pc' = "apply"
  /\ UNCHANGED <<runVars, execVars, endVars, initial>>

DryRun ==
  /\ pc = "step"
  /\ Cursor <= Len(Current)
  /\ ~Unmappable(Current[Cursor])
  /\ \E result \in Invoke(stack, Current[Cursor], TRUE) :
       /\ Call(TRUE, result)
       /\ IF result.ok
          THEN pc' = "apply" /\ UNCHANGED <<outcomes, execution, report>>
          ELSE Return(Append(outcomes, FALSE))
  /\ UNCHANGED <<runVars, phase, polls, verified, knowledge, initial>>

\* Seeded fault: a failed step does not end the loop.
ApplyOnwards ==
  /\ pc = "apply"
  /\ \E result \in Invoke(stack, Current[Cursor], FALSE) :
       Call(FALSE, result) /\ outcomes' = Append(outcomes, result.ok)
  /\ pc' = "step"
  /\ UNCHANGED <<runVars, phase, execution, endVars, initial>>

Apply ==
  /\ pc = "apply"
  /\ \E result \in Invoke(stack, Current[Cursor], FALSE) :
       /\ Call(FALSE, result)
       /\ IF result.ok
          THEN /\ outcomes' = Append(outcomes, TRUE)
               /\ pc' = "step"
               /\ UNCHANGED <<execution, report>>
          ELSE Return(Append(outcomes, FALSE))
  /\ UNCHANGED <<runVars, phase, polls, verified, knowledge, initial>>

-----------------------------------------------------------------------------

\* Seeded fault: healthy probes suffice, whether or not the plan succeeded.
ConcludeByProbes(passed) ==
  /\ verified' = passed
  /\ report' = [report EXCEPT !.resolved = passed]
  /\ IF ~passed /\ approved.rollback # <<>>
     THEN Enter("rollback")
     ELSE pc' = "record" /\ UNCHANGED <<phase, outcomes>>

\* Seeded fault: only a failed execution is rolled back.
ConcludeByExecution(passed) ==
  /\ verified' = passed
  /\ report' = [report EXCEPT !.resolved = execution["remediation"] = "ok" /\ passed]
  /\ IF execution["remediation"] # "ok" /\ approved.rollback # <<>>
     THEN Enter("rollback")
     ELSE pc' = "record" /\ UNCHANGED <<phase, outcomes>>

\* Seeded fault: a resolved run is rolled back as well.
ConcludeAndUndo(passed) ==
  /\ verified' = passed
  /\ report' = [report EXCEPT !.resolved = execution["remediation"] = "ok" /\ passed]
  /\ IF approved.rollback # <<>>
     THEN Enter("rollback")
     ELSE pc' = "record" /\ UNCHANGED <<phase, outcomes>>

\* The checks pass or the deadline has passed: the last measurement counts.
\* An unresolved run with a rollback plan goes on to execute it.
Conclude(passed) ==
  LET resolved == execution["remediation"] = "ok" /\ passed
  IN  /\ verified' = passed
      /\ report' = [report EXCEPT !.resolved = resolved]
      /\ IF ~resolved /\ approved.rollback # <<>>
         THEN Enter("rollback")
         ELSE pc' = "record" /\ UNCHANGED <<phase, outcomes>>

\* Seeded fault: one poll too many.
VerifyOnceMore ==
  /\ pc = "verify"
  /\ polls <= MaxPolls
  /\ polls' = polls + 1
  /\ \E passed \in RunChecks(stack) :
       \/ Conclude(passed)
       \/ ~passed /\ UNCHANGED <<pc, verified, report, phase, outcomes>>
  /\ UNCHANGED <<runVars, execution, knowledge, envVars>>

\* Seeded fault: every poll sets the deadline anew.
VerifyForever ==
  /\ pc = "verify"
  /\ polls' = (polls + 1) % MaxPolls
  /\ \E passed \in RunChecks(stack) :
       IF passed THEN Conclude(passed)
       ELSE UNCHANGED <<pc, verified, report, phase, outcomes>>
  /\ UNCHANGED <<runVars, execution, knowledge, envVars>>

Verify ==
  /\ pc = "verify"
  /\ polls < MaxPolls
  /\ polls' = polls + 1
  /\ \E passed \in RunChecks(stack) :
       \/ Conclude(passed)
       \/ /\ ~passed
          /\ polls' < MaxPolls
          /\ UNCHANGED <<pc, verified, report, phase, outcomes>>
  /\ UNCHANGED <<runVars, execution, knowledge, envVars>>

\* Best effort: a failure to record does not fail the run.
RecordOutcome ==
  /\ pc = "record"
  /\ \E recorded \in BOOLEAN :
       /\ report' = [report EXCEPT !.recorded = recorded]
       /\ knowledge' = CASE ~recorded -> "none"
                         [] recorded /\ report.resolved -> "resolved"
                         [] recorded /\ ~report.resolved -> "unresolved"
  /\ pc' = "done"
  /\ UNCHANGED <<runVars, execVars, polls, verified, envVars>>

Done == Ended /\ UNCHANGED vars

-----------------------------------------------------------------------------

Human == HumanApproves \/ HumanEdits \/ HumanEditsNothing \/ HumanRejects

Pipeline ==
  \/ Triage \/ PlanRemediation \/ AutoApprove \/ Escalate
  \/ Execute \/ FinishSteps \/ RefuseStep \/ DryRun \/ Apply
  \/ Verify \/ RecordOutcome

Next == Pipeline \/ Human \/ Done

Spec == Init /\ [][Next]_vars

\* The pipeline keeps running; the human need not ever answer.
FairSpec == Spec /\ WF_vars(Pipeline)

-----------------------------------------------------------------------------

ToolCall == [phase : Phases, at : Nat, step : Step, dry : BOOLEAN, ok : BOOLEAN]

TypeOK ==
  /\ pc \in {"triage", "plan", "gate", "human", "execute", "step", "apply",
             "verify", "record", "done", "raised"}
  /\ proposal \in Proposal
  /\ approved \in Proposal
  /\ gate \in [approved : BOOLEAN, route : {"none", "auto", "human"},
               human : {"none", "approve", "edit", "reject"}]
  /\ phase \in Phases
  /\ outcomes \in Seq(BOOLEAN)
  /\ execution \in [Phases -> {"none", "ok", "failed"}]
  /\ polls \in 0..MaxPolls
  /\ verified \in BOOLEAN
  /\ report \in [resolved : BOOLEAN, rolled_back : BOOLEAN, recorded : BOOLEAN]
  /\ knowledge \in {"none", "resolved", "unresolved"}
  /\ stack \in Stack
  /\ initial \in Stack
  /\ calls \in Seq(ToolCall)

Rehearses(d, c) ==
  d.dry /\ d.ok /\ d.phase = c.phase /\ d.at = c.at /\ d.step = c.step

\* A tool is applied only straight after its own dry run succeeded: same
\* phase, same step, nothing in between (executor.py, "dry-run then apply").
DryRunFirst ==
  \A i \in DOMAIN calls : ~calls[i].dry =>
    i > 1 /\ Rehearses(calls[i - 1], calls[i])

\* Once a call of a phase has failed, that phase calls no tool again: the
\* executor's break leaves the rest of the plan alone.
HaltOnFailure ==
  \A i, j \in DOMAIN calls :
    i < j /\ calls[i].phase = calls[j].phase => calls[i].ok

\* The executor follows the approved plan: what is called is the step of that
\* plan, and every earlier step of the plan was applied with success before it.
FollowsThePlan ==
  \A i \in DOMAIN calls :
    LET c == calls[i] IN
    /\ c.at \in DOMAIN Plan(approved, c.phase)
    /\ c.step = Plan(approved, c.phase)[c.at]
    /\ \A k \in 1..(c.at - 1) : \E j \in 1..(i - 1) :
         calls[j].phase = c.phase /\ calls[j].at = k /\ ~calls[j].dry /\ calls[j].ok

\* Without a human, the remediation phase acts only on a plan that the planner
\* stood by, confident, low in risk, and with no step that removes capacity or
\* overwrites config (hitl.py's routing, end to end from the planner's answer).
AutonomyIsBounded ==
  (gate.route = "auto" /\ calls # <<>>) =>
    /\ ~proposal.escalate
    /\ proposal.confidence >= ConfidenceThreshold
    /\ proposal.risk <= RiskThreshold
    /\ approved.steps = proposal.steps
    /\ \A i \in DOMAIN calls : calls[i].phase = "remediation" => ~IsDestructive(calls[i].step)

\* Until the gate has approved, and for ever after a rejection or a failure
\* before it, the sandbox is as the run found it.
UntouchedWithoutApproval == ~gate.approved => calls = <<>> /\ stack = initial

\* A run that reports success, or stores it for later triage to find, applied
\* every approved step, called nothing after that, and leaves a stack whose
\* containers and loaded config allow it to be healthy.
ResolvedIsEarned ==
  (report.resolved \/ knowledge = "resolved") =>
    /\ CanBeHealthy(stack)
    /\ approved.steps # <<>>
    /\ calls # <<>>
    /\ \A i \in DOMAIN calls : calls[i].ok /\ calls[i].phase = "remediation"
    /\ \A k \in DOMAIN approved.steps : \E i \in DOMAIN calls :
         calls[i].at = k /\ ~calls[i].dry

\* An approved run that ends unresolved with a rollback plan at hand has
\* entered it, and a run that rolled back never reports success
\* (architecture.md: failed verification triggers the rollback plan).
FailureIsContained ==
  /\ report.rolled_back => ~report.resolved /\ execution["rollback"] # "none"
  /\ (pc = "done" /\ gate.approved /\ ~report.resolved /\ approved.rollback # <<>>) =>
       report.rolled_back

\* The remediation phase of a plan that no human edited writes no feature_mode
\* but the valid one, and loads none, whatever the model made up beside it and
\* whatever restart failed ("a hallucinated feature_mode can never reach the
\* executor").
GroundedUntilRollback ==
  (phase = "remediation" /\ gate.human # "edit") =>
    {stack.file["feature_mode"], stack.loaded["feature_mode"]}
      \subseteq {initial.file["feature_mode"], initial.loaded["feature_mode"], Known}

\* The running app disagrees with its config file only after a config call
\* that wrote the file and could not restart the app.
SplitOnlyByFailedRestart ==
  ("app" \in stack.up /\ stack.file # stack.loaded) =>
    \E i \in DOMAIN calls :
      ~calls[i].dry /\ ~calls[i].ok /\ calls[i].step.action \in {"apply_config", "rollback"}

\* A run ends, in a report or an exception, unless it waits for a human who
\* never answers: no retry, poll or rollback keeps it going for ever.
EndsUnlessHumanIsSilent == <>Ended \/ <>[](pc = "human")

-----------------------------------------------------------------------------
(***************************************************************************)
(* The run as an implementation of SupervisedAction.                       *)
(***************************************************************************)

Mode ==
  CASE pc \in {"triage", "plan", "gate", "human"} -> "deciding"
    [] pc \in {"execute", "step", "apply", "verify"} ->
         IF phase = "remediation" THEN "acting" ELSE "undoing"
    [] pc \in {"record", "done", "raised"} -> "closed"

Claim ==
  CASE Mode \in {"deciding", "acting"} -> "open"
    [] Mode \in {"undoing", "closed"} ->
         IF report.resolved THEN "resolved" ELSE "unresolved"

Promise == INSTANCE SupervisedAction WITH
  mode <- Mode, consent <- gate.approved, world <- stack, claim <- Claim,
  Worlds <- Stack, Sound <- {st \in Stack : CanBeHealthy(st)}

\* Every run, with its calls, failures, polls and human, is a behaviour of the
\* abstract contract: observe, act under consent, undo, make one true claim.
KeepsThePromise == Promise!Spec

-----------------------------------------------------------------------------
(***************************************************************************)
(* What the repository says of itself and the code does not do.            *)
(***************************************************************************)

\* hitl.py: "Destructive actions ALWAYS escalate, no matter how confident the
\* model is": a destructive tool is applied only with a human on the route.
DestructiveAlwaysEscalates ==
  \A i \in DOMAIN calls :
    ~calls[i].dry /\ IsDestructive(calls[i].step) => gate.route = "human"

\* infra.py: rollback restores the canonical config "and restart[s] the app",
\* and no-ops only "when already canonical": when it has just reported
\* success, a running app runs the canonical config.
RollbackConverges ==
  (calls # <<>> /\ "app" \in stack.up) =>
    LET last == calls[Len(calls)] IN
    last.step.action = "rollback" /\ ~last.dry /\ last.ok => stack.loaded = Canonical

\* remediation.py: "config VALUES are grounded to the app's known-good set": in
\* the remediation phase of a plan that no human edited, no key of the config
\* gets a value that is not the known-good one.
ConfigValuesAreGrounded ==
  (phase = "remediation" /\ gate.human # "edit") =>
    \A key \in ConfigKeys : stack.file[key] \in {initial.file[key], Known}

=============================================================================
