-------------------------- MODULE IncidentRunProofs --------------------------
(***************************************************************************)
(* Theorems about IncidentRun, for every vocabulary, every set of plans    *)
(* and edits, every threshold and every number of polls.                   *)
(***************************************************************************)
EXTENDS IncidentRun, SequenceTheorems, TLAPS

-----------------------------------------------------------------------------
(* The pure part. *)

LEMMA MappedSeq ==
  ASSUME NEW S, NEW T, NEW s \in Seq(S), NEW t,
         t = [i \in DOMAIN s |-> t[i]],
         \A i \in DOMAIN s : t[i] \in T
  PROVE  t \in Seq(T) /\ Len(t) = Len(s) /\ DOMAIN t = DOMAIN s
<1>1. Len(s) \in Nat /\ DOMAIN s = 1..Len(s)
  BY LenProperties
<1>2. t \in [1..Len(s) -> T]
  BY <1>1
<1>3. t \in Seq(T)
  BY <1>1, <1>2, SeqDef
<1>4. DOMAIN t = 1..Len(t) /\ Len(t) \in Nat
  BY <1>3, LenProperties
<1>5. QED
  BY <1>1, <1>2, <1>3, <1>4

LEMMA CanonicalType ==
  /\ Canonical \in Configs
  /\ \A key \in ConfigKeys : Canonical[key] = Known
BY VocabularyAssumption DEF Canonical, Configs

\* A patch within the schema makes a config of a config.
LEMMA PatchedType ==
  ASSUME NEW config \in Configs, NEW patch \in Patches
  PROVE  /\ Patched(config, patch) \in Configs
         /\ \A key \in ConfigKeys :
              Patched(config, patch)[key] = IF key \in DOMAIN patch THEN patch[key] ELSE config[key]
<1>1. PICK keys \in SUBSET (ConfigKeys \union {"other"}) : patch \in [keys -> Values]
  BY DEF Patches
<1>2. \A key \in ConfigKeys : (IF key \in DOMAIN patch THEN patch[key] ELSE config[key]) \in Values
  BY <1>1 DEF Configs
<1>3. QED
  BY <1>2 DEF Patched, Configs

LEMMA StepOfStep ==
  ASSUME NEW s \in Step
  PROVE  /\ GroundStep(s) \in Step
         /\ ToStep(s) \in Step
         /\ ToStep(s).action = s.action
         /\ ToStep(s).arg = s.arg
BY VocabularyAssumption DEF Step, GroundStep, ToStep

\* Grounding and conversion turn every plan into a well-formed proposal that
\* is born flagged for approval.
LEMMA ProposalOfPlan ==
  ASSUME NEW plan \in LLMPlan
  PROVE  ProposalOf(plan) \in Proposal /\ ProposalOf(plan).requires_approval
<1> DEFINE grounded == [i \in DOMAIN plan.steps |-> GroundStep(plan.steps[i])]
           steps == [i \in DOMAIN grounded |-> ToStep(grounded[i])]
           rollback == [i \in DOMAIN plan.rollback |-> ToStep(plan.rollback[i])]
<1>1. plan.steps \in Seq(Step) /\ plan.rollback \in Seq(Step)
  BY DEF LLMPlan
<1>2. \A i \in DOMAIN plan.steps : plan.steps[i] \in Step
  BY <1>1, ElementOfSeq, LenProperties
<1>3. \A i \in DOMAIN plan.rollback : plan.rollback[i] \in Step
  BY <1>1, ElementOfSeq, LenProperties
<1>4. grounded \in Seq(Step) /\ DOMAIN grounded = DOMAIN plan.steps
  <2>1. \A i \in DOMAIN plan.steps : grounded[i] \in Step
    BY <1>2, StepOfStep
  <2>2. grounded = [i \in DOMAIN plan.steps |-> grounded[i]]
    OBVIOUS
  <2>. HIDE DEF grounded
  <2>3. QED
    BY <1>1, <2>1, <2>2, MappedSeq
<1>5. steps \in Seq(Step)
  <2>. HIDE DEF grounded
  <2>1. \A i \in DOMAIN grounded : grounded[i] \in Step
    BY <1>4, ElementOfSeq, LenProperties
  <2>2. \A i \in DOMAIN grounded : steps[i] \in Step
    BY <2>1, StepOfStep
  <2>3. steps = [i \in DOMAIN grounded |-> steps[i]]
    OBVIOUS
  <2>. HIDE DEF steps
  <2>4. QED
    BY <1>4, <2>2, <2>3, MappedSeq
<1>6. rollback \in Seq(Step)
  <2>1. \A i \in DOMAIN plan.rollback : rollback[i] \in Step
    BY <1>3, StepOfStep
  <2>2. rollback = [i \in DOMAIN plan.rollback |-> rollback[i]]
    OBVIOUS
  <2>. HIDE DEF rollback
  <2>3. QED
    BY <1>1, <2>1, <2>2, MappedSeq
<1>7. <<>> \in Seq(Step)
  BY EmptySeq
<1>8. RiskFloor \in 0..100
  BY ThresholdAssumption
<1>9. plan.risk \in 0..100 /\ plan.confidence \in 0..100 /\ plan.escalate \in BOOLEAN
  BY DEF LLMPlan
<1>10. QED
  BY <1>5, <1>6, <1>7, <1>8, <1>9 DEF ProposalOf, Proposal

OpResult == [ok : BOOLEAN, stack : Stack]

LEMMA ResultTyped ==
  \A st \in Stack : Result(TRUE, st) \in OpResult /\ Result(FALSE, st) \in OpResult
BY DEF Result, OpResult

\* A tool call returns a flag and leaves a stack.
LEMMA InvokeReturnsResult ==
  ASSUME NEW st \in Stack, NEW step \in Step, NEW dry \in BOOLEAN,
         NEW result \in Invoke(st, step, dry)
  PROVE  result \in OpResult
<1>1. /\ st.file \in Configs /\ st.loaded \in Configs /\ st.up \subseteq Services
      /\ Canonical \in Configs /\ "app" \in Services
  BY VocabularyAssumption, CanonicalType DEF Stack
<1>2. \A t \in Stack, s \in Services : Restarted(t, s) \in Stack
  BY DEF Stack, Restarted
<1>3. \A s \in Services, n \in 0..1 : Scaled(st, s, n) \in Stack
  BY <1>1, DependsOnAssumption DEF Stack, Scaled
<1>4. \A c \in Configs : [st EXCEPT !.file = c] \in Stack
  BY <1>1 DEF Stack
<1>5. ASSUME NEW c \in Configs, NEW r \in WriteConfig(st, c, dry)
      PROVE  r \in OpResult
  <2> DEFINE written == [st EXCEPT !.file = c]
  <2>1. written \in Stack /\ Restarted(written, "app") \in Stack
    BY <1>1, <1>2, <1>4
  <2>2. r \in {Result(TRUE, st), Result(TRUE, Restarted(written, "app")), Result(FALSE, written)}
    BY <1>5, Zenon DEF WriteConfig
  <2>. HIDE DEF written
  <2>3. QED
    BY <2>1, <2>2, ResultTyped
<1>6. CASE step.action = "restart_service"
  <2>1. result \in RestartService(st, step.target, dry) /\ step.target \in Services
    BY <1>6 DEF Invoke, Step
  <2>2. result \in {Result(TRUE, st), Result(TRUE, Restarted(st, step.target)), Result(FALSE, st)}
    BY <2>1, Zenon DEF RestartService
  <2>3. QED
    BY <1>2, <2>1, <2>2, ResultTyped
<1>7. CASE step.action = "scale_service"
  <2>1. result \in ScaleService(st, step.target, step.arg, dry) /\ step.target \in Services
    BY <1>7 DEF Invoke, Step
  <2>2. \/ result \in {Result(FALSE, st), Result(TRUE, st)}
        \/ step.arg \in 0..1 /\ result = Result(TRUE, Scaled(st, step.target, step.arg))
    <3>1. CASE step.arg \notin 0..3
      BY <2>1, <3>1, Zenon DEF ScaleService
    <3>2. CASE step.arg \in 0..3 /\ dry
      BY <2>1, <3>2, Zenon DEF ScaleService
    <3>3. CASE step.arg \in 2..3 /\ ~dry
      <4>1. step.arg \in 0..3 /\ step.arg \notin 0..1
        BY <3>3
      <4>2. QED
        BY <2>1, <3>3, <4>1, Zenon DEF ScaleService
    <3>4. CASE step.arg \in 0..1 /\ ~dry
      <4>1. step.arg \in 0..3 /\ step.arg \notin 2..3
        BY <3>4
      <4>2. QED
        BY <2>1, <3>4, <4>1, Zenon DEF ScaleService
    <3>5. step.arg \in 0..3 => step.arg \in 0..1 \/ step.arg \in 2..3
      OBVIOUS
    <3>6. QED
      BY <3>1, <3>2, <3>3, <3>4, <3>5
  <2>3. QED
    BY <1>3, <2>1, <2>2, ResultTyped
<1>8. CASE step.action = "apply_config"
  <2>1. result \in ApplyConfig(st, step.arg, dry) /\ step.arg \in Patches
    BY <1>8 DEF Invoke, Step
  <2>2. \/ result \in WriteConfig(st, Patched(st.file, step.arg), dry)
        \/ result = Result(FALSE, st)
    BY <2>1, Zenon DEF ApplyConfig
  <2>3. QED
    BY <2>1, <2>2, <1>1, <1>5, PatchedType, ResultTyped
<1>9. CASE step.action = "rollback"
  BY <1>1, <1>5, <1>9 DEF Invoke, Rollback
<1>10. QED
  BY <1>6, <1>7, <1>8, <1>9 DEF Step

-----------------------------------------------------------------------------
(* Type correctness. *)

LEMMA AppendOk ==
  ASSUME NEW S, NEW s \in Seq(S), NEW e \in S
  PROVE  /\ Append(s, e) \in Seq(S)
         /\ Len(Append(s, e)) = Len(s) + 1
         /\ Len(s) \in Nat
         /\ DOMAIN s = 1..Len(s)
         /\ DOMAIN Append(s, e) = 1..(Len(s) + 1)
         /\ \A i \in 1..Len(s) : Append(s, e)[i] = s[i]
         /\ Append(s, e)[Len(s) + 1] = e
BY LenProperties, AppendProperties

\* The step under the cursor.
LEMMA CursorStep ==
  ASSUME TypeOK
  PROVE  /\ Current \in Seq(Step) /\ DOMAIN Current = 1..Len(Current) /\ Len(Current) \in Nat
         /\ Len(outcomes) \in Nat /\ Cursor \in Nat
         /\ Cursor <= Len(Current) => Cursor \in DOMAIN Current /\ Current[Cursor] \in Step
<1>1. Current \in Seq(Step) /\ outcomes \in Seq(BOOLEAN)
  BY DEF TypeOK, Current, Plan, Proposal, Phases
<1>2. Len(Current) \in Nat /\ DOMAIN Current = 1..Len(Current) /\ Len(outcomes) \in Nat
  BY <1>1, LenProperties
<1>3. Cursor \in Nat /\ Cursor >= 1
  BY <1>2 DEF Cursor
<1>4. ASSUME Cursor <= Len(Current)
      PROVE  Cursor \in DOMAIN Current /\ Current[Cursor] \in Step
  <2>1. Cursor \in 1..Len(Current)
    BY <1>2, <1>3, <1>4
  <2>2. QED
    BY <1>1, <1>2, <2>1, ElementOfSeq
<1>5. QED
  BY <1>1, <1>2, <1>3, <1>4

LEMMA ReturnTyped ==
  ASSUME TypeOK, NEW outs \in Seq(BOOLEAN), Return(outs)
  PROVE  /\ outcomes' \in Seq(BOOLEAN)
         /\ execution' \in [Phases -> {"none", "ok", "failed"}]
         /\ pc' \in {"record", "verify"}
         /\ report' = [report EXCEPT !.rolled_back = @ \/ phase = "rollback"]
         /\ report' \in [resolved : BOOLEAN, rolled_back : BOOLEAN, recorded : BOOLEAN]
BY DEF TypeOK, Return, Phases

LEMMA TypeInit == Init => TypeOK
<1>1. <<>> \in Seq(Step) /\ <<>> \in Seq(BOOLEAN) /\ <<>> \in Seq(ToolCall)
  BY EmptySeq
<1>2. NoProposal \in Proposal
  BY <1>1 DEF NoProposal, Proposal
<1>3. SUFFICES ASSUME Init PROVE TypeOK
  OBVIOUS
<1>4. stack \in Stack /\ initial \in Stack
  BY <1>3, RunAssumption DEF Init
<1>5. execution \in [Phases -> {"none", "ok", "failed"}]
  BY <1>3 DEF Init
<1>6. polls \in 0..MaxPolls
  BY <1>3, RunAssumption DEF Init
<1>7. QED
  BY <1>1, <1>2, <1>3, <1>4, <1>5, <1>6 DEF Init, TypeOK, Phases

\* apply() has a step to apply.
StepPending == pc = "apply" => Cursor <= Len(Current)

LEMMA TypeNext == TypeOK /\ StepPending /\ [Next]_vars => TypeOK'
<1> SUFFICES ASSUME TypeOK, StepPending, [Next]_vars PROVE TypeOK'
  OBVIOUS
<1> USE DEF vars, runVars, execVars, endVars, envVars
<1>1. CASE Triage
  BY <1>1 DEF Triage, TypeOK
<1>2. CASE PlanRemediation
  <2>1. proposal' \in Proposal
    BY <1>2, RunAssumption, ProposalOfPlan DEF PlanRemediation, TypeOK
  <2>2. QED
    BY <1>2, <2>1 DEF PlanRemediation, TypeOK
<1>3. Cleared(proposal) \in Proposal
  BY DEF TypeOK, Cleared, Proposal
<1>4. CASE AutoApprove
  BY <1>3, <1>4 DEF AutoApprove, TypeOK
<1>5. CASE Escalate
  BY <1>5 DEF Escalate, TypeOK
<1>6. CASE HumanApproves
  BY <1>3, <1>6 DEF HumanApproves, TypeOK
<1>7. CASE HumanEdits
  <2>1. PICK edited \in Edits(proposal) : approved' = Cleared(edited)
    BY <1>7 DEF HumanEdits
  <2>2. edited \in Proposal
    <3>1. PICK e \in (EditedPlans \union {proposal.steps}) \X (EditedPlans \union {proposal.rollback}) :
            edited = [proposal EXCEPT !.steps = e[1], !.rollback = e[2]]
      BY DEF Edits
    <3>2. proposal \in Proposal /\ e[1] \in Seq(Step) /\ e[2] \in Seq(Step)
      BY <3>1, RunAssumption DEF TypeOK, Proposal
    <3>3. QED
      BY <3>1, <3>2 DEF Proposal
  <2>3. approved' \in Proposal
    BY <2>1, <2>2 DEF Cleared, Proposal
  <2>4. QED
    BY <1>7, <2>3 DEF HumanEdits, TypeOK
<1>8. CASE HumanEditsNothing
  BY <1>8 DEF HumanEditsNothing, TypeOK
<1>9. CASE HumanRejects
  BY <1>9 DEF HumanRejects, TypeOK
<1>10. <<>> \in Seq(BOOLEAN)
  BY EmptySeq
<1>11. CASE Execute
  BY <1>10, <1>11 DEF Execute, Enter, TypeOK, Phases
<1>12. outcomes \in Seq(BOOLEAN) /\ (\A b \in BOOLEAN : Append(outcomes, b) \in Seq(BOOLEAN))
  BY AppendOk DEF TypeOK
<1>13. CASE FinishSteps
  BY <1>12, <1>13, ReturnTyped DEF FinishSteps, TypeOK
<1>14. CASE RefuseStep
  BY <1>12, <1>14, ReturnTyped DEF RefuseStep, TypeOK
<1>15. ASSUME NEW dry \in BOOLEAN, NEW result \in Invoke(stack, Current[Cursor], dry),
              Current[Cursor] \in Step, Call(dry, result)
       PROVE  calls' \in Seq(ToolCall) /\ stack' \in Stack /\ result.ok \in BOOLEAN
  <2>1. result.ok \in BOOLEAN /\ result.stack \in Stack
    BY <1>15, InvokeReturnsResult DEF TypeOK, OpResult
  <2>2. [phase |-> phase, at |-> Cursor, step |-> Current[Cursor], dry |-> dry,
         ok |-> result.ok] \in ToolCall
    BY <1>15, <2>1, CursorStep DEF TypeOK, ToolCall
  <2>3. QED
    BY <1>15, <2>1, <2>2, AppendOk DEF Call, TypeOK
<1>16. CASE DryRun
  <2>1. PICK result \in Invoke(stack, Current[Cursor], TRUE) :
          /\ Call(TRUE, result)
          /\ IF result.ok
             THEN pc' = "apply" /\ UNCHANGED <<outcomes, execution, report>>
             ELSE Return(Append(outcomes, FALSE))
    BY <1>16 DEF DryRun
  <2>2. calls' \in Seq(ToolCall) /\ stack' \in Stack
    BY <1>15, <1>16, <2>1, CursorStep DEF DryRun
  <2>3. CASE result.ok
    BY <1>16, <2>1, <2>2, <2>3 DEF DryRun, TypeOK
  <2>4. CASE ~result.ok
    BY <1>12, <1>16, <2>1, <2>2, <2>4, ReturnTyped DEF DryRun, TypeOK
  <2>5. QED
    BY <2>3, <2>4
<1>17. CASE Apply
  <2>1. PICK result \in Invoke(stack, Current[Cursor], FALSE) :
          /\ Call(FALSE, result)
          /\ IF result.ok
             THEN outcomes' = Append(outcomes, TRUE) /\ pc' = "step" /\ UNCHANGED <<execution, report>>
             ELSE Return(Append(outcomes, FALSE))
    BY <1>17 DEF Apply
  <2>2. calls' \in Seq(ToolCall) /\ stack' \in Stack
    BY <1>15, <1>17, <2>1, CursorStep DEF Apply, StepPending
  <2>3. CASE result.ok
    <3>1. outcomes' \in Seq(BOOLEAN) /\ pc' = "step" /\ UNCHANGED <<execution, report>>
      BY <1>12, <2>1, <2>3
    <3>2. QED
      BY <1>17, <2>2, <3>1 DEF Apply, TypeOK
  <2>4. CASE ~result.ok
    BY <1>12, <1>17, <2>1, <2>2, <2>4, ReturnTyped DEF Apply, TypeOK
  <2>5. QED
    BY <2>3, <2>4
<1>18. CASE Verify
  <2>1. polls' \in 0..MaxPolls
    BY <1>18, RunAssumption DEF Verify, TypeOK
  <2>2. PICK passed \in BOOLEAN :
          \/ Conclude(passed)
          \/ UNCHANGED <<pc, verified, report, phase, outcomes>>
    BY <1>18 DEF Verify, RunChecks
  <2>3. CASE Conclude(passed)
    <3>1. /\ phase' \in Phases /\ outcomes' \in Seq(BOOLEAN)
          /\ pc' \in {"raised", "step", "record"}
      BY <1>10, <2>3 DEF Conclude, Enter, TypeOK, Phases
    <3>2. verified' \in BOOLEAN
      BY <2>3 DEF Conclude
    <3>3. report' \in [resolved : BOOLEAN, rolled_back : BOOLEAN, recorded : BOOLEAN]
      BY <2>3 DEF Conclude, TypeOK
    <3>4. QED
      BY <1>18, <2>1, <3>1, <3>2, <3>3 DEF Verify, TypeOK
  <2>4. CASE UNCHANGED <<pc, verified, report, phase, outcomes>>
    BY <1>18, <2>1, <2>4 DEF Verify, TypeOK
  <2>5. QED
    BY <2>2, <2>3, <2>4
<1>19. CASE RecordOutcome
  BY <1>19 DEF RecordOutcome, TypeOK
<1>20. CASE UNCHANGED vars
  BY <1>20 DEF TypeOK
<1>21. QED
  BY <1>1, <1>2, <1>4, <1>5, <1>6, <1>7, <1>8, <1>9, <1>11, <1>13, <1>14, <1>16, <1>17,
     <1>18, <1>19, <1>20 DEF Next, Pipeline, Human, Done

LEMMA StepPendingNext == TypeOK /\ StepPending /\ [Next]_vars => StepPending'
<1> SUFFICES ASSUME TypeOK, StepPending, [Next]_vars, pc' = "apply"
             PROVE  Cursor' <= Len(Current')
  BY DEF StepPending
<1> USE DEF vars, runVars, execVars, endVars, envVars
<1>1. CASE DryRun
  BY <1>1 DEF DryRun, Return, Cursor, Current, Plan
<1>2. CASE UNCHANGED vars
  BY <1>2 DEF StepPending, Cursor, Current, Plan
<1>3. CASE Verify
  BY <1>3 DEF Verify, Conclude, Enter
<1>4. QED
  BY <1>1, <1>2, <1>3 DEF Next, Pipeline, Human, Done, Triage, PlanRemediation, AutoApprove,
     Escalate, HumanApproves, HumanEdits, HumanEditsNothing, HumanRejects, Execute, Enter,
     FinishSteps, RefuseStep, Apply, Return, RecordOutcome

\* Every variable of a run keeps its type, for all plans, stacks and bounds.
THEOREM TypeCorrect == Spec => [](TypeOK /\ StepPending)
<1>1. Init => TypeOK /\ StepPending
  BY TypeInit DEF Init, StepPending
<1>2. TypeOK /\ StepPending /\ [Next]_vars => (TypeOK /\ StepPending)'
  BY TypeNext, StepPendingNext
<1>3. QED
  BY <1>1, <1>2, PTL DEF Spec

-----------------------------------------------------------------------------
(***************************************************************************)
(* The inductive invariant: what the gate, the phases and the cursor of    *)
(* execute() remember about the calls made so far.                         *)
(***************************************************************************)

Deciding == pc \in {"triage", "plan", "gate", "human"}

Acting == pc \in {"execute", "step", "apply", "verify"}

Stepping == pc \in {"step", "apply"}

NewCall(dry, ok) ==
  [phase |-> phase, at |-> Cursor, step |-> Current[Cursor], dry |-> dry, ok |-> ok]

GateInv ==
  /\ Deciding => ~gate.approved /\ gate.route = "none"
  /\ Acting => gate.approved
  /\ pc = "execute" => calls = <<>>
  /\ UntouchedWithoutApproval

\* A run never returns from its rollback to its remediation.
PhaseInv ==
  /\ pc = "verify" => phase = "remediation"
  /\ phase = "remediation" => \A i \in DOMAIN calls : calls[i].phase = "remediation"

\* While execute() is in its loop, the phase has seen no failure.
CleanInv == Stepping => \A i \in DOMAIN calls : calls[i].phase = phase => calls[i].ok

\* Every step below the cursor has been applied with success.
DoneBefore(ph, n, m) ==
  \A k \in 1..n : \E j \in 1..m :
    calls[j].phase = ph /\ calls[j].at = k /\ ~calls[j].dry /\ calls[j].ok

CursorInv == Stepping => DoneBefore(phase, Len(outcomes), Len(calls))

\* apply() comes straight after the step's own dry run.
RehearsedInv == pc = "apply" => calls # <<>> /\ calls[Len(calls)] = NewCall(TRUE, TRUE)

\* The automatic route leaves the planner's steps as they are.
RouteInv ==
  gate.route = "auto" => EscalationReasons(proposal) = {} /\ approved.steps = proposal.steps

-----------------------------------------------------------------------------

\* What a call does, as far as the invariants go.
Calling(dry, ok) ==
  /\ NewCall(dry, ok) \in ToolCall
  /\ calls' = Append(calls, NewCall(dry, ok))
  /\ UNCHANGED <<proposal, approved, gate, phase, initial>>

LEMMA CallTyped ==
  ASSUME TypeOK, Cursor <= Len(Current), NEW dry \in BOOLEAN,
         NEW result \in Invoke(stack, Current[Cursor], dry)
  PROVE  result.ok \in BOOLEAN /\ NewCall(dry, result.ok) \in ToolCall
<1>1. Current[Cursor] \in Step /\ Cursor \in Nat
  BY CursorStep
<1>2. result.ok \in BOOLEAN
  BY <1>1, InvokeReturnsResult DEF TypeOK, OpResult
<1>3. phase \in Phases
  BY DEF TypeOK
<1>4. QED
  BY <1>1, <1>2, <1>3 DEF NewCall, ToolCall

LEMMA DryRunEffect ==
  ASSUME TypeOK, DryRun
  PROVE  \E ok \in BOOLEAN :
           /\ Calling(TRUE, ok)
           /\ ok => pc' = "apply" /\ outcomes' = outcomes
           /\ ~ok => pc' = IF phase = "rollback" THEN "record" ELSE "verify"
<1>1. PICK result \in Invoke(stack, Current[Cursor], TRUE) :
        /\ Call(TRUE, result)
        /\ IF result.ok
           THEN pc' = "apply" /\ UNCHANGED <<outcomes, execution, report>>
           ELSE Return(Append(outcomes, FALSE))
  BY DEF DryRun
<1>2. result.ok \in BOOLEAN /\ NewCall(TRUE, result.ok) \in ToolCall
  BY CallTyped DEF DryRun
<1>3. Calling(TRUE, result.ok)
  BY <1>1, <1>2 DEF DryRun, Calling, Call, NewCall, runVars
<1>4. result.ok => pc' = "apply" /\ outcomes' = outcomes
  BY <1>1
<1>5. ~result.ok => pc' = IF phase = "rollback" THEN "record" ELSE "verify"
  BY <1>1 DEF Return
<1>6. QED
  BY <1>2, <1>3, <1>4, <1>5

LEMMA ApplyEffect ==
  ASSUME TypeOK, StepPending, Apply
  PROVE  \E ok \in BOOLEAN :
           /\ Calling(FALSE, ok)
           /\ ok => pc' = "step" /\ outcomes' = Append(outcomes, TRUE)
           /\ ~ok => pc' = IF phase = "rollback" THEN "record" ELSE "verify"
<1>1. PICK result \in Invoke(stack, Current[Cursor], FALSE) :
        /\ Call(FALSE, result)
        /\ IF result.ok
           THEN outcomes' = Append(outcomes, TRUE) /\ pc' = "step" /\ UNCHANGED <<execution, report>>
           ELSE Return(Append(outcomes, FALSE))
  BY DEF Apply
<1>2. result.ok \in BOOLEAN /\ NewCall(FALSE, result.ok) \in ToolCall
  BY CallTyped DEF Apply, StepPending
<1>3. Calling(FALSE, result.ok)
  BY <1>1, <1>2 DEF Apply, Calling, Call, NewCall, runVars
<1>4. result.ok => pc' = "step" /\ outcomes' = Append(outcomes, TRUE)
  BY <1>1
<1>5. ~result.ok => pc' = IF phase = "rollback" THEN "record" ELSE "verify"
  BY <1>1 DEF Return
<1>6. QED
  BY <1>2, <1>3, <1>4, <1>5

\* Every other step calls no tool, and leaves the stack alone.
Quiet == [Next]_vars /\ ~DryRun /\ ~Apply

LEMMA QuietStep == Quiet => UNCHANGED <<calls, stack, initial>>
BY DEF Quiet, Next, Pipeline, Human, Done, Triage, PlanRemediation, AutoApprove, Escalate,
   HumanApproves, HumanEdits, HumanEditsNothing, HumanRejects, Execute, FinishSteps, RefuseStep,
   Verify, RecordOutcome, vars, runVars, execVars, endVars, envVars

\* It enters the loop of execute() only at the first step of a phase.
LEMMA QuietEntry ==
  ASSUME Quiet
  PROVE  /\ pc' # "apply" \/ UNCHANGED vars
         /\ pc' = "step" =>
              \/ UNCHANGED vars
              \/ pc = "execute" /\ outcomes' = <<>>
              \/ pc = "verify" /\ phase' = "rollback" /\ outcomes' = <<>>
BY DEF Quiet, Next, Pipeline, Human, Done, Triage, PlanRemediation, AutoApprove, Escalate,
   HumanApproves, HumanEdits, HumanEditsNothing, HumanRejects, Execute, FinishSteps, RefuseStep,
   Verify, RecordOutcome, Return, Enter, Conclude, vars, runVars, execVars, endVars, envVars

\* The gate is the only way from deciding to acting.
LEMMA QuietGate ==
  ASSUME Quiet
  PROVE  /\ UNCHANGED gate \/ Deciding
         /\ Deciding' => Deciding /\ UNCHANGED gate
         /\ Acting' => (Deciding /\ gate'.approved) \/ (Acting /\ UNCHANGED gate)
<1> USE DEF Quiet, vars, runVars, execVars, endVars, envVars, Deciding, Acting
<1>1. CASE Human
  BY <1>1 DEF Human, HumanApproves, HumanEdits, HumanEditsNothing, HumanRejects
<1>2. CASE Triage \/ PlanRemediation \/ AutoApprove \/ Escalate \/ Execute
  BY <1>2 DEF Triage, PlanRemediation, AutoApprove, Escalate, Execute, Enter
<1>3. CASE FinishSteps \/ RefuseStep \/ Verify \/ RecordOutcome
  BY <1>3 DEF FinishSteps, RefuseStep, Return, Verify, RecordOutcome, Conclude, Enter
<1>4. CASE UNCHANGED vars
  BY <1>4
<1>5. QED
  BY <1>1, <1>2, <1>3, <1>4 DEF Next, Pipeline, Done

\* The approved plan and the phase change only while there is nothing to
\* follow, except for the turn to the rollback.
LEMMA QuietPlan ==
  ASSUME Quiet
  PROVE  /\ UNCHANGED approved \/ Deciding
         /\ UNCHANGED phase \/ pc = "execute" \/ (phase' = "rollback" /\ pc' # "verify")
         /\ pc' = "verify" => phase # "rollback" \/ pc = "verify"
BY DEF Quiet, Next, Pipeline, Human, Done, Triage, PlanRemediation, AutoApprove, Escalate,
   HumanApproves, HumanEdits, HumanEditsNothing, HumanRejects, Execute, FinishSteps, RefuseStep,
   Verify, RecordOutcome, Return, Enter, Conclude, Deciding, vars, runVars, execVars, endVars,
   envVars

-----------------------------------------------------------------------------
(* Each part of the invariant holds at first, and after every step. *)

IInv ==
  /\ TypeOK
  /\ StepPending
  /\ GateInv
  /\ PhaseInv
  /\ CleanInv
  /\ CursorInv
  /\ RehearsedInv
  /\ RouteInv
  /\ DryRunFirst
  /\ HaltOnFailure
  /\ FollowsThePlan

LEMMA IInvInit == Init => IInv
<1> SUFFICES ASSUME Init PROVE IInv
  OBVIOUS
<1>1. TypeOK
  BY TypeInit
<1>2. calls = <<>> /\ DOMAIN calls = {}
  BY DEF Init
<1>3. StepPending /\ CleanInv /\ CursorInv /\ RehearsedInv
  BY DEF Init, StepPending, CleanInv, CursorInv, RehearsedInv, Stepping
<1>4. GateInv /\ PhaseInv /\ RouteInv
  BY <1>2 DEF Init, GateInv, Deciding, Acting, UntouchedWithoutApproval, PhaseInv, RouteInv
<1>5. DryRunFirst /\ HaltOnFailure /\ FollowsThePlan
  BY <1>2 DEF DryRunFirst, HaltOnFailure, FollowsThePlan
<1>6. QED
  BY <1>1, <1>3, <1>4, <1>5 DEF IInv

LEMMA GateNext == IInv /\ [Next]_vars => GateInv'
<1> SUFFICES ASSUME IInv, [Next]_vars PROVE GateInv'
  OBVIOUS
<1> USE DEF GateInv, Deciding, Acting
<1>1. CASE DryRun
  BY <1>1, DryRunEffect DEF IInv, DryRun, Calling, UntouchedWithoutApproval
<1>2. CASE Apply
  BY <1>2, ApplyEffect DEF IInv, Apply, Calling, UntouchedWithoutApproval
<1>3. CASE Quiet
  <2>1. UNCHANGED <<calls, stack, initial>>
    BY <1>3, QuietStep
  <2>2. UNCHANGED gate \/ Deciding
    BY <1>3, QuietGate
  <2>3. UntouchedWithoutApproval'
    BY <2>1, <2>2 DEF IInv, UntouchedWithoutApproval
  <2>4. (Deciding => ~gate.approved /\ gate.route = "none")'
    BY <1>3, QuietGate DEF IInv
  <2>5. (Acting => gate.approved)'
    BY <1>3, QuietGate DEF IInv
  <2>6. pc' = "execute" => Deciding \/ UNCHANGED pc
    BY <1>3 DEF Quiet, Next, Pipeline, Human, Done, Triage, PlanRemediation, AutoApprove,
       Escalate, HumanApproves, HumanEdits, HumanEditsNothing, HumanRejects, Execute, Enter,
       FinishSteps, RefuseStep, Return, Verify, Conclude, RecordOutcome, vars
  <2>7. (pc = "execute" => calls = <<>>)'
    BY <2>1, <2>6 DEF IInv, UntouchedWithoutApproval
  <2>8. QED
    BY <2>3, <2>4, <2>5, <2>7
<1>4. QED
  BY <1>1, <1>2, <1>3 DEF Quiet

\* The calls after a call: the old ones, and the new one.
LEMMA CallsAfter ==
  ASSUME TypeOK, NEW c \in ToolCall, calls' = Append(calls, c)
  PROVE  /\ Len(calls) \in Nat /\ DOMAIN calls = 1..Len(calls)
         /\ Len(calls') = Len(calls) + 1
         /\ DOMAIN calls' = 1..(Len(calls) + 1)
         /\ \A i \in 1..Len(calls) : calls'[i] = calls[i]
         /\ calls'[Len(calls) + 1] = c
         /\ \A i \in DOMAIN calls' : calls'[i] = c \/ (i \in DOMAIN calls /\ calls'[i] = calls[i])
<1>1. /\ Len(calls) \in Nat /\ DOMAIN calls = 1..Len(calls)
      /\ Len(calls') = Len(calls) + 1
      /\ DOMAIN calls' = 1..(Len(calls) + 1)
      /\ \A i \in 1..Len(calls) : calls'[i] = calls[i]
      /\ calls'[Len(calls) + 1] = c
  BY AppendOk DEF TypeOK
<1>2. QED
  BY <1>1

LEMMA PhaseNext == IInv /\ [Next]_vars => PhaseInv'
<1> SUFFICES ASSUME IInv, [Next]_vars PROVE PhaseInv'
  OBVIOUS
<1> USE DEF PhaseInv
<1>1. ASSUME NEW dry \in BOOLEAN, NEW ok \in BOOLEAN, Calling(dry, ok),
             pc' = "verify" => phase # "rollback"
      PROVE  PhaseInv'
  <2>1. phase' = phase /\ phase \in Phases
    BY <1>1 DEF Calling, IInv, TypeOK
  <2>2. NewCall(dry, ok).phase = phase
    BY DEF NewCall
  <2>3. \A i \in DOMAIN calls' : calls'[i] = NewCall(dry, ok) \/ (i \in DOMAIN calls /\ calls'[i] = calls[i])
    BY <1>1, CallsAfter DEF IInv, Calling
  <2>4. QED
    BY <1>1, <2>1, <2>2, <2>3 DEF IInv, Phases
<1>2. CASE DryRun
  BY <1>1, <1>2, DryRunEffect DEF IInv
<1>3. CASE Apply
  BY <1>1, <1>3, ApplyEffect DEF IInv
<1>4. CASE Quiet
  <2>1. UNCHANGED calls
    BY <1>4, QuietStep
  <2>2. pc = "execute" => DOMAIN calls = {}
    BY DEF IInv, GateInv
  <2>3. pc' = "verify" => phase' = "remediation"
    <3>1. phase' \in Phases
      BY TypeNext DEF IInv, TypeOK
    <3>2. pc' = "verify" => pc # "execute"
      BY <1>4 DEF Quiet, Next, Pipeline, Human, Done, Triage, PlanRemediation, AutoApprove,
         Escalate, HumanApproves, HumanEdits, HumanEditsNothing, HumanRejects, Execute, Enter,
         FinishSteps, RefuseStep, Verify, RecordOutcome, vars
    <3>3. QED
      BY <1>4, <3>1, <3>2, QuietPlan DEF IInv, TypeOK, Phases
  <2>4. QED
    BY <1>4, <2>1, <2>2, <2>3, QuietPlan DEF IInv
<1>5. QED
  BY <1>2, <1>3, <1>4 DEF Quiet

LEMMA CleanNext == IInv /\ [Next]_vars => CleanInv'
<1> SUFFICES ASSUME IInv, [Next]_vars, Stepping'
             PROVE  \A i \in DOMAIN calls' : calls'[i].phase = phase' => calls'[i].ok
  BY DEF CleanInv
<1>1. ASSUME NEW dry \in BOOLEAN, Calling(dry, TRUE), Stepping
      PROVE  \A i \in DOMAIN calls' : calls'[i].phase = phase' => calls'[i].ok
  <2>1. \A i \in DOMAIN calls' :
          calls'[i] = NewCall(dry, TRUE) \/ (i \in DOMAIN calls /\ calls'[i] = calls[i])
    BY <1>1, CallsAfter DEF IInv, Calling
  <2>2. NewCall(dry, TRUE).ok
    BY DEF NewCall
  <2>3. QED
    BY <1>1, <2>1, <2>2 DEF IInv, CleanInv, Calling
<1>2. CASE DryRun
  BY <1>1, <1>2, DryRunEffect DEF IInv, DryRun, Stepping
<1>3. CASE Apply
  BY <1>1, <1>3, ApplyEffect DEF IInv, Apply, Stepping
<1>4. CASE Quiet
  <2>1. UNCHANGED calls
    BY <1>4, QuietStep
  <2>2. CASE UNCHANGED vars
    BY <2>1, <2>2 DEF IInv, CleanInv, Stepping, vars, execVars
  <2>3. CASE pc = "execute"
    BY <2>1, <2>3 DEF IInv, GateInv
  <2>4. CASE pc = "verify" /\ phase' = "rollback"
    BY <2>1, <2>4 DEF IInv, PhaseInv
  <2>5. QED
    BY <1>4, <2>2, <2>3, <2>4, QuietEntry DEF Stepping
<1>5. QED
  BY <1>2, <1>3, <1>4 DEF Quiet

LEMMA CursorNext == IInv /\ [Next]_vars => CursorInv'
<1> SUFFICES ASSUME IInv, [Next]_vars, Stepping'
             PROVE  DoneBefore(phase, Len(outcomes), Len(calls))'
  BY DEF CursorInv
<1>1. ASSUME NEW dry \in BOOLEAN, NEW ok \in BOOLEAN, Calling(dry, ok), Stepping
      PROVE  /\ phase' = phase /\ Len(calls) \in Nat /\ Len(calls') = Len(calls) + 1
             /\ \A k \in 1..Len(outcomes) : \E j \in 1..Len(calls') :
                  calls'[j].phase = phase /\ calls'[j].at = k /\ ~calls'[j].dry /\ calls'[j].ok
  <2>1. DoneBefore(phase, Len(outcomes), Len(calls))
    BY <1>1 DEF IInv, CursorInv
  <2>2. /\ Len(calls) \in Nat /\ Len(calls') = Len(calls) + 1
        /\ \A i \in 1..Len(calls) : calls'[i] = calls[i]
    BY <1>1, CallsAfter DEF IInv, Calling
  <2>3. 1..Len(calls) \subseteq 1..Len(calls')
    BY <2>2
  <2>4. QED
    BY <1>1, <2>1, <2>2, <2>3 DEF DoneBefore, Calling
<1>2. CASE DryRun
  <2>1. PICK ok \in BOOLEAN : Calling(TRUE, ok) /\ outcomes' = outcomes
    BY <1>2, DryRunEffect DEF IInv, Stepping
  <2>2. QED
    BY <1>1, <1>2, <2>1 DEF DoneBefore, DryRun, Stepping
<1>3. CASE Apply
  <2>1. Calling(FALSE, TRUE) /\ outcomes' = Append(outcomes, TRUE) /\ Stepping
    BY <1>3, ApplyEffect DEF IInv, Apply, Stepping
  <2>2. Len(outcomes) \in Nat /\ Len(outcomes') = Len(outcomes) + 1
    BY <2>1, AppendOk DEF IInv, TypeOK
  <2>3. calls'[Len(calls')] = NewCall(FALSE, TRUE) /\ Len(calls') \in 1..Len(calls')
    <3>1. /\ Len(calls) \in Nat /\ Len(calls') = Len(calls) + 1
          /\ calls'[Len(calls) + 1] = NewCall(FALSE, TRUE)
      BY <2>1, CallsAfter DEF IInv, Calling
    <3>2. QED
      BY <3>1
  <2>4. ASSUME NEW k \in 1..Len(outcomes')
        PROVE  \E j \in 1..Len(calls') :
                 calls'[j].phase = phase /\ calls'[j].at = k /\ ~calls'[j].dry /\ calls'[j].ok
    <3>1. CASE k \in 1..Len(outcomes)
      BY <1>1, <2>1, <3>1
    <3>2. CASE k = Len(outcomes) + 1
      <4>1. /\ NewCall(FALSE, TRUE).phase = phase /\ NewCall(FALSE, TRUE).at = k
            /\ ~NewCall(FALSE, TRUE).dry /\ NewCall(FALSE, TRUE).ok
        BY <3>2 DEF NewCall, Cursor
      <4>2. QED
        BY <2>3, <4>1
    <3>3. QED
      BY <2>2, <3>1, <3>2
  <2>5. phase' = phase
    BY <2>1 DEF Calling
  <2>6. QED
    BY <2>4, <2>5 DEF DoneBefore
<1>4. CASE Quiet
  <2>1. UNCHANGED calls
    BY <1>4, QuietStep
  <2>2. CASE UNCHANGED vars
    BY <2>1, <2>2 DEF IInv, CursorInv, DoneBefore, Stepping, vars, execVars
  <2>3. CASE outcomes' = <<>>
    BY <2>3 DEF DoneBefore
  <2>4. QED
    BY <1>4, <2>2, <2>3, QuietEntry DEF Stepping
<1>5. QED
  BY <1>2, <1>3, <1>4 DEF Quiet

LEMMA RehearsedNext == IInv /\ [Next]_vars => RehearsedInv'
<1> SUFFICES ASSUME IInv, [Next]_vars, pc' = "apply"
             PROVE  calls' # <<>> /\ calls'[Len(calls')] = NewCall(TRUE, TRUE)'
  BY DEF RehearsedInv
<1>1. CASE DryRun
  <2>1. Calling(TRUE, TRUE) /\ outcomes' = outcomes
    BY <1>1, DryRunEffect DEF IInv
  <2>2. /\ Len(calls) \in Nat /\ Len(calls') = Len(calls) + 1 /\ DOMAIN calls' = 1..(Len(calls) + 1)
        /\ calls'[Len(calls) + 1] = NewCall(TRUE, TRUE)
    BY <2>1, CallsAfter DEF IInv, Calling
  <2>3. NewCall(TRUE, TRUE)' = NewCall(TRUE, TRUE)
    BY <2>1 DEF Calling, NewCall, Cursor, Current, Plan
  <2>4. calls' # <<>>
    BY <2>2
  <2>5. QED
    BY <2>2, <2>3, <2>4
<1>2. CASE Apply
  BY <1>2, ApplyEffect DEF IInv
<1>3. CASE Quiet
  <2>1. UNCHANGED vars
    BY <1>3, QuietEntry
  <2>2. QED
    BY <2>1 DEF IInv, RehearsedInv, NewCall, Cursor, Current, Plan, vars, runVars, execVars, envVars
<1>4. QED
  BY <1>1, <1>2, <1>3 DEF Quiet

LEMMA RouteNext == IInv /\ [Next]_vars => RouteInv'
<1> SUFFICES ASSUME IInv, [Next]_vars, gate'.route = "auto"
             PROVE  EscalationReasons(proposal)' = {} /\ approved'.steps = proposal'.steps
  BY DEF RouteInv
<1>1. CASE AutoApprove
  BY <1>1 DEF AutoApprove, Cleared, EscalationReasons, IInv, TypeOK, Proposal
<1>2. CASE DryRun \/ Apply
  BY <1>2, DryRunEffect, ApplyEffect DEF IInv, Calling, RouteInv
<1>3. CASE Quiet /\ ~AutoApprove
  <2>1. UNCHANGED gate
    <3>1. CASE Human
      BY <3>1 DEF Human, HumanApproves, HumanEdits, HumanEditsNothing, HumanRejects, runVars
    <3>2. CASE ~Human
      BY <1>3, <3>2 DEF Quiet, Next, Pipeline, Done, Triage, PlanRemediation, Escalate, Execute,
         FinishSteps, RefuseStep, Verify, RecordOutcome, vars, runVars
    <3>3. QED
      BY <3>1, <3>2
  <2>2. gate.route = "auto" /\ ~Deciding
    BY <2>1 DEF IInv, GateInv
  <2>3. UNCHANGED <<approved, proposal>>
    BY <1>3, <2>2 DEF Quiet, Next, Pipeline, Human, Done, Triage, PlanRemediation, Escalate,
       HumanApproves, HumanEdits, HumanEditsNothing, HumanRejects, Execute, FinishSteps,
       RefuseStep, Verify, RecordOutcome, vars, runVars, Deciding
  <2>4. QED
    BY <2>2, <2>3 DEF IInv, RouteInv, EscalationReasons, DestructiveSteps
<1>4. QED
  BY <1>1, <1>2, <1>3 DEF Quiet

LEMMA DryRunFirstNext == IInv /\ [Next]_vars => DryRunFirst'
<1> SUFFICES ASSUME IInv, [Next]_vars PROVE DryRunFirst'
  OBVIOUS
<1>1. ASSUME NEW dry \in BOOLEAN, NEW ok \in BOOLEAN, Calling(dry, ok), dry \/ pc = "apply"
      PROVE  DryRunFirst'
  <2>1. /\ Len(calls) \in Nat /\ DOMAIN calls = 1..Len(calls)
        /\ DOMAIN calls' = 1..(Len(calls) + 1)
        /\ \A i \in 1..Len(calls) : calls'[i] = calls[i]
        /\ calls'[Len(calls) + 1] = NewCall(dry, ok)
    BY <1>1, CallsAfter DEF IInv, Calling
  <2>2. ASSUME ~dry
        PROVE  Len(calls) > 0 /\ Rehearses(calls[Len(calls)], NewCall(dry, ok))
    <3>1. calls # <<>> /\ calls[Len(calls)] = NewCall(TRUE, TRUE) /\ calls \in Seq(ToolCall)
      BY <1>1, <2>2 DEF IInv, RehearsedInv, TypeOK
    <3>2. Rehearses(NewCall(TRUE, TRUE), NewCall(dry, ok))
      BY DEF Rehearses, NewCall
    <3>3. Len(calls) > 0
      BY <2>1, <3>1, EmptySeq
    <3>4. QED
      BY <3>1, <3>2, <3>3, Zenon
  <2>3. ASSUME NEW i \in DOMAIN calls', ~calls'[i].dry
        PROVE  i > 1 /\ Rehearses(calls'[i - 1], calls'[i])
    <3>1. CASE i \in 1..Len(calls)
      <4>1. i > 1 /\ Rehearses(calls[i - 1], calls[i])
        BY <2>1, <2>3, <3>1 DEF IInv, DryRunFirst
      <4>2. QED
        BY <2>1, <3>1, <4>1
    <3>2. CASE i = Len(calls) + 1
      <4>1. ~dry
        <5>1. NewCall(dry, ok).dry = dry
          BY DEF NewCall
        <5>2. QED
          BY <2>1, <2>3, <3>2, <5>1, Zenon
      <4>2. i > 1 /\ i - 1 \in 1..Len(calls) /\ i - 1 = Len(calls)
        BY <2>1, <2>2, <3>2, <4>1
      <4>3. calls'[i - 1] = calls[Len(calls)] /\ calls'[i] = NewCall(dry, ok)
        BY <2>1, <3>2, <4>2
      <4>4. Rehearses(calls[Len(calls)], NewCall(dry, ok))
        BY <2>2, <4>1
      <4>5. QED
        BY <4>2, <4>3, <4>4, Zenon
    <3>3. QED
      BY <2>1, <3>1, <3>2
  <2>4. QED
    BY <2>3 DEF DryRunFirst
<1>2. CASE DryRun
  BY <1>1, <1>2, DryRunEffect DEF IInv
<1>3. CASE Apply
  BY <1>1, <1>3, ApplyEffect DEF IInv, Apply
<1>4. CASE Quiet
  BY <1>4, QuietStep DEF IInv, DryRunFirst
<1>5. QED
  BY <1>2, <1>3, <1>4 DEF Quiet

LEMMA HaltOnFailureNext == IInv /\ [Next]_vars => HaltOnFailure'
<1> SUFFICES ASSUME IInv, [Next]_vars PROVE HaltOnFailure'
  OBVIOUS
<1>1. ASSUME NEW dry \in BOOLEAN, NEW ok \in BOOLEAN, Calling(dry, ok), Stepping
      PROVE  HaltOnFailure'
  <2>1. /\ Len(calls) \in Nat /\ DOMAIN calls = 1..Len(calls)
        /\ DOMAIN calls' = 1..(Len(calls) + 1)
        /\ \A i \in 1..Len(calls) : calls'[i] = calls[i]
        /\ calls'[Len(calls) + 1] = NewCall(dry, ok)
    BY <1>1, CallsAfter DEF IInv, Calling
  <2>2. NewCall(dry, ok).phase = phase
    BY DEF NewCall
  <2>3. \A i \in DOMAIN calls : calls[i].phase = phase => calls[i].ok
    BY <1>1 DEF IInv, CleanInv
  <2>4. ASSUME NEW i \in DOMAIN calls', NEW j \in DOMAIN calls', i < j,
               calls'[i].phase = calls'[j].phase
        PROVE  calls'[i].ok
    <3>1. i \in 1..Len(calls) /\ calls'[i] = calls[i]
      BY <2>1, <2>4
    <3>2. CASE j \in 1..Len(calls)
      BY <2>1, <2>4, <3>1, <3>2 DEF IInv, HaltOnFailure
    <3>3. CASE j = Len(calls) + 1
      BY <2>1, <2>2, <2>3, <2>4, <3>1, <3>3
    <3>4. QED
      BY <2>1, <3>2, <3>3
  <2>5. QED
    BY <2>4 DEF HaltOnFailure
<1>2. CASE DryRun
  BY <1>1, <1>2, DryRunEffect DEF IInv, DryRun, Stepping
<1>3. CASE Apply
  BY <1>1, <1>3, ApplyEffect DEF IInv, Apply, Stepping
<1>4. CASE Quiet
  BY <1>4, QuietStep DEF IInv, HaltOnFailure
<1>5. QED
  BY <1>2, <1>3, <1>4 DEF Quiet

LEMMA FollowsThePlanNext == IInv /\ [Next]_vars => FollowsThePlan'
<1> SUFFICES ASSUME IInv, [Next]_vars PROVE FollowsThePlan'
  OBVIOUS
<1>1. ASSUME NEW dry \in BOOLEAN, NEW ok \in BOOLEAN, Calling(dry, ok), Stepping,
             Cursor <= Len(Current)
      PROVE  FollowsThePlan'
  <2>1. /\ Len(calls) \in Nat /\ DOMAIN calls = 1..Len(calls)
        /\ DOMAIN calls' = 1..(Len(calls) + 1)
        /\ \A i \in 1..Len(calls) : calls'[i] = calls[i]
        /\ calls'[Len(calls) + 1] = NewCall(dry, ok)
    BY <1>1, CallsAfter DEF IInv, Calling
  <2>2. \A ph : Plan(approved, ph)' = Plan(approved, ph)
    BY <1>1 DEF Calling, Plan
  <2>3. /\ NewCall(dry, ok).at = Cursor /\ NewCall(dry, ok).phase = phase
        /\ NewCall(dry, ok).step = Plan(approved, phase)[Cursor]
    BY DEF NewCall, Current
  <2>4. Cursor \in DOMAIN Plan(approved, phase) /\ Len(outcomes) \in Nat
    BY <1>1, CursorStep DEF IInv, Current
  <2>5. DoneBefore(phase, Len(outcomes), Len(calls))
    BY <1>1 DEF IInv, CursorInv
  <2>6. ASSUME NEW i \in DOMAIN calls'
        PROVE  LET c == calls'[i] IN
               /\ c.at \in DOMAIN Plan(approved', c.phase)
               /\ c.step = Plan(approved', c.phase)[c.at]
               /\ \A k \in 1..(c.at - 1) : \E j \in 1..(i - 1) :
                    calls'[j].phase = c.phase /\ calls'[j].at = k /\ ~calls'[j].dry /\ calls'[j].ok
    <3>1. CASE i \in 1..Len(calls)
      <4>1. /\ calls[i].at \in DOMAIN Plan(approved, calls[i].phase)
            /\ calls[i].step = Plan(approved, calls[i].phase)[calls[i].at]
            /\ \A k \in 1..(calls[i].at - 1) : \E j \in 1..(i - 1) :
                 /\ calls[j].phase = calls[i].phase /\ calls[j].at = k
                 /\ ~calls[j].dry /\ calls[j].ok
        BY <2>1, <3>1 DEF IInv, FollowsThePlan
      <4>2. calls'[i] = calls[i] /\ \A j \in 1..(i - 1) : calls'[j] = calls[j]
        BY <2>1, <3>1
      <4>3. approved' = approved
        BY <1>1 DEF Calling
      <4>4. QED
        BY <4>1, <4>2, <4>3
    <3>2. CASE i = Len(calls) + 1
      <4>1. \A k \in 1..(Cursor - 1) : \E j \in 1..Len(calls) :
              calls[j].phase = phase /\ calls[j].at = k /\ ~calls[j].dry /\ calls[j].ok
        BY <2>4, <2>5 DEF DoneBefore, Cursor
      <4>2. calls'[i] = NewCall(dry, ok) /\ i - 1 = Len(calls)
        BY <2>1, <3>2
      <4>3. approved' = approved
        BY <1>1 DEF Calling
      <4>4. QED
        BY <2>1, <2>3, <2>4, <4>1, <4>2, <4>3
    <3>3. QED
      BY <2>1, <3>1, <3>2
  <2>7. QED
    BY <2>6 DEF FollowsThePlan, Plan
<1>2. CASE DryRun
  BY <1>1, <1>2, DryRunEffect DEF IInv, DryRun, Stepping
<1>3. CASE Apply
  BY <1>1, <1>3, ApplyEffect DEF IInv, Apply, Stepping, StepPending
<1>4. CASE Quiet
  <2>1. UNCHANGED calls /\ (UNCHANGED approved \/ Deciding)
    BY <1>4, QuietStep, QuietPlan
  <2>2. CASE UNCHANGED approved
    BY <2>1, <2>2 DEF IInv, FollowsThePlan, Plan
  <2>3. CASE Deciding
    <3>1. DOMAIN calls' = {}
      BY <2>1, <2>3 DEF IInv, GateInv, UntouchedWithoutApproval
    <3>2. QED
      BY <3>1 DEF FollowsThePlan
  <2>4. QED
    BY <2>1, <2>2, <2>3
<1>5. QED
  BY <1>2, <1>3, <1>4 DEF Quiet

-----------------------------------------------------------------------------
(* The theorems. *)

LEMMA IInvNext == IInv /\ [Next]_vars => IInv'
<1>1. IInv /\ [Next]_vars => TypeOK' /\ StepPending'
  BY TypeNext, StepPendingNext DEF IInv
<1>2. QED
  BY <1>1, GateNext, PhaseNext, CleanNext, CursorNext, RehearsedNext, RouteNext,
     DryRunFirstNext, HaltOnFailureNext, FollowsThePlanNext DEF IInv

LEMMA Invariance == Spec => []IInv
BY IInvInit, IInvNext, PTL DEF Spec

\* Without approval, no tool of the Infra server is called and the sandbox is
\* as the run found it: hitl_gate comes before execute, on every path.
THEOREM NothingWithoutApproval == Spec => []UntouchedWithoutApproval
<1>1. IInv => UntouchedWithoutApproval
  BY DEF IInv, GateInv
<1>2. QED
  BY <1>1, Invariance, PTL

\* Every tool is rehearsed: execute() applies a step only straight after that
\* step's own dry run succeeded.
THEOREM RehearsedBeforeApplied == Spec => []DryRunFirst
<1>1. IInv => DryRunFirst
  BY DEF IInv
<1>2. QED
  BY <1>1, Invariance, PTL

\* execute() calls nothing more in a phase whose last call failed.
THEOREM FailureHalts == Spec => []HaltOnFailure
<1>1. IInv => HaltOnFailure
  BY DEF IInv
<1>2. QED
  BY <1>1, Invariance, PTL

\* Every call is the approved plan's step at its place, all the earlier steps
\* having been applied with success.
THEOREM PlanIsFollowed == Spec => []FollowsThePlan
<1>1. IInv => FollowsThePlan
  BY DEF IInv
<1>2. QED
  BY <1>1, Invariance, PTL

\* On the automatic route the remediation acts on a plan that the planner
\* stood by, within the thresholds, and never destructively, whatever the
\* thresholds are.
THEOREM AutonomyBounded == Spec => []AutonomyIsBounded
<1>1. IInv => AutonomyIsBounded
  <2> SUFFICES ASSUME IInv, gate.route = "auto", calls # <<>>
               PROVE  /\ ~proposal.escalate
                      /\ proposal.confidence >= ConfidenceThreshold
                      /\ proposal.risk <= RiskThreshold
                      /\ approved.steps = proposal.steps
                      /\ \A i \in DOMAIN calls : calls[i].phase = "remediation" => ~IsDestructive(calls[i].step)
    BY DEF AutonomyIsBounded
  <2>1. EscalationReasons(proposal) = {} /\ approved.steps = proposal.steps
    BY DEF IInv, RouteInv
  <2>2. /\ ~proposal.escalate
        /\ DestructiveSteps(proposal.steps) = {}
        /\ ~(proposal.confidence < ConfidenceThreshold)
        /\ ~(proposal.risk > RiskThreshold)
    BY <2>1 DEF EscalationReasons
  <2>3. proposal.confidence >= ConfidenceThreshold /\ proposal.risk <= RiskThreshold
    <3>1. proposal.confidence \in 0..100 /\ proposal.risk \in 0..100
      BY DEF IInv, TypeOK, Proposal
    <3>2. ConfidenceThreshold \in 0..100 /\ RiskThreshold \in 0..100
      BY ThresholdAssumption
    <3>3. \A m, n \in 0..100 : (~(m < n) => m >= n) /\ (~(m > n) => m <= n)
      OBVIOUS
    <3>4. QED
      BY <2>2, <3>1, <3>2, <3>3, Zenon
  <2>4. ASSUME NEW i \in DOMAIN calls, calls[i].phase = "remediation"
        PROVE  ~IsDestructive(calls[i].step)
    <3>1. calls[i].at \in DOMAIN approved.steps /\ calls[i].step = approved.steps[calls[i].at]
      BY <2>4 DEF IInv, FollowsThePlan, Plan
    <3>2. QED
      BY <2>1, <2>2, <3>1 DEF DestructiveSteps
  <2>5. QED
    BY <2>1, <2>2, <2>3, <2>4
<1>2. QED
  BY <1>1, Invariance, PTL

=============================================================================
