------------------------ MODULE IncidentOutcomeProofs ------------------------
(***************************************************************************)
(* What a run makes of its incident: the report against the calls and the  *)
(* stack, the config it leaves, and the run as an implementation of        *)
(* SupervisedAction.  All of it builds on the invariant IInv of            *)
(* IncidentRunProofs.                                                      *)
(***************************************************************************)
EXTENDS IncidentRunProofs

-----------------------------------------------------------------------------
(* The inductive invariant. *)

\* Every approved step was applied, and no call of the run failed.
Earned ==
  /\ approved.steps # <<>>
  /\ calls # <<>>
  /\ \A i \in DOMAIN calls : calls[i].ok /\ calls[i].phase = "remediation"
  /\ \A k \in DOMAIN approved.steps : \E i \in DOMAIN calls :
       calls[i].at = k /\ ~calls[i].dry

\* The rollback comes after the verification, and nothing after the rollback.
UndoInv == phase = "rollback" => pc \in {"step", "apply", "record", "done"}

\* The executor's success is what the verifier's word is combined with.
ExecutedInv == pc = "verify" /\ execution["remediation"] = "ok" => Earned

\* Success is claimed only at the end, and of a healthy stack.
ResolvedInv ==
  /\ report.resolved =>
       /\ pc \in {"record", "done"}
       /\ phase = "remediation"
       /\ CanBeHealthy(stack)
       /\ Earned
  /\ knowledge = "resolved" => report.resolved

\* A failure with a rollback plan is on its way through it, or has been.
RolledBackInv ==
  /\ report.rolled_back =>
       /\ phase = "rollback"
       /\ pc \in {"record", "done"}
       /\ execution["rollback"] # "none"
  /\ (pc \in {"record", "done"} /\ gate.approved /\ ~report.resolved /\ approved.rollback # <<>>) =>
       report.rolled_back

\* The step names no feature_mode but the valid one.
Tame(step) ==
  step.action = "apply_config" /\ "feature_mode" \in DOMAIN step.arg => step.arg["feature_mode"] = Known

Grounded(steps) == \A i \in DOMAIN steps : Tame(steps[i])

\* The modes that a stack's config file and its running app have.
Modes(st) == {st.file["feature_mode"], st.loaded["feature_mode"]}

GroundedInv ==
  /\ Grounded(proposal.steps)
  /\ gate.human # "edit" => Grounded(approved.steps)
  /\ GroundedUntilRollback

\* The app runs another config than that of its file.
Split(st) == "app" \in st.up /\ st.file # st.loaded

\* A config call that failed half-way.
HalfWritten(c) == ~c.dry /\ ~c.ok /\ c.step.action \in {"apply_config", "rollback"}

OutcomeInv ==
  /\ UndoInv
  /\ ExecutedInv
  /\ ResolvedInv
  /\ RolledBackInv
  /\ GroundedInv
  /\ SplitOnlyByFailedRestart

-----------------------------------------------------------------------------
(* What the tools and the executor do, as far as the outcome goes. *)

\* A dry run changes nothing; a tame step brings no mode but the valid one; and only a config call that fails half-way splits app and file.
LEMMA ToolEffect ==
  ASSUME NEW st \in Stack, NEW step \in Step, NEW dry \in BOOLEAN,
         NEW result \in Invoke(st, step, dry)
  PROVE  /\ dry => result.stack = st
         /\ Tame(step) => Modes(result.stack) \subseteq Modes(st) \union {Known}
         /\ Split(result.stack) =>
              \/ Split(st)
              \/ ~dry /\ ~result.ok /\ step.action \in {"apply_config", "rollback"}
<1>0. \A t : Result(TRUE, t).stack = t /\ Result(FALSE, t).stack = t /\ ~Result(FALSE, t).ok
  BY DEF Result
<1>1. st.file \in Configs /\ st.up \subseteq Services /\ DOMAIN st = {"file", "loaded", "up"}
  BY DEF Stack
<1>2. \A s \in Services : /\ Modes(Restarted(st, s)) \subseteq Modes(st)
                          /\ Split(Restarted(st, s)) => Split(st)
  BY DEF Stack, Restarted, Split, Modes
<1>3. \A s \in Services : \A n \in 0..1 : /\ Modes(Scaled(st, s, n)) \subseteq Modes(st)
                                          /\ Split(Scaled(st, s, n)) => Split(st)
  BY DEF Stack, Scaled, Split, Modes
<1>4. CASE step.action = "restart_service"
  <2>1. result \in RestartService(st, step.target, dry) /\ step.target \in Services
    BY <1>4 DEF Invoke, Step
  <2>2. \/ result \in {Result(TRUE, st), Result(FALSE, st)}
        \/ ~dry /\ result = Result(TRUE, Restarted(st, step.target))
    BY <2>1, Zenon DEF RestartService
  <2>3. result.stack = st \/ (~dry /\ result.stack = Restarted(st, step.target))
    BY <1>0, <2>2
  <2>4. QED
    BY <1>2, <2>1, <2>3
<1>5. CASE step.action = "scale_service"
  <2>1. result \in ScaleService(st, step.target, step.arg, dry) /\ step.target \in Services
    BY <1>5 DEF Invoke, Step
  <2>2. \/ result \in {Result(TRUE, st), Result(FALSE, st)}
        \/ ~dry /\ step.arg \in 0..1 /\ result = Result(TRUE, Scaled(st, step.target, step.arg))
    <3>1. CASE step.arg \notin 0..3
      BY <2>1, <3>1, Zenon DEF ScaleService
    <3>2. CASE step.arg \in 0..3 /\ dry
      BY <2>1, <3>2, Zenon DEF ScaleService
    <3>3. CASE step.arg \in 2..3 /\ ~dry
      <4>1. step.arg \in 0..3 /\ step.arg \notin 0..1
        BY <3>3
      <4>2. QED
        BY <2>1, <3>3, <4>1, Zenon DEF ScaleService
    <3>4. CASE step.arg \in 0..1 /\ ~dry
      <4>1. step.arg \in 0..3 /\ step.arg \notin 2..3
        BY <3>4
      <4>2. QED
        BY <2>1, <3>4, <4>1, Zenon DEF ScaleService
    <3>5. step.arg \in 0..3 => step.arg \in 0..1 \/ step.arg \in 2..3
      OBVIOUS
    <3>6. QED
      BY <3>1, <3>2, <3>3, <3>4, <3>5
  <2>3. \/ result.stack = st
        \/ ~dry /\ step.arg \in 0..1 /\ result.stack = Scaled(st, step.target, step.arg)
    BY <1>0, <2>2
  <2>4. Modes(result.stack) \subseteq Modes(st) /\ (Split(result.stack) => Split(st)) /\ (dry => result.stack = st)
    <3>1. CASE result.stack = st
      BY <3>1
    <3>2. CASE ~dry /\ step.arg \in 0..1 /\ result.stack = Scaled(st, step.target, step.arg)
      <4>1. /\ Modes(Scaled(st, step.target, step.arg)) \subseteq Modes(st)
            /\ Split(Scaled(st, step.target, step.arg)) => Split(st)
        <5>1. step.target \in Services /\ step.arg \in 0..1
          BY <2>1, <3>2
        <5>2. QED
          BY <1>3, <5>1, Zenon
      <4>2. QED
        BY <3>2, <4>1
    <3>3. QED
      BY <2>3, <3>1, <3>2
  <2>5. QED
    BY <2>4
<1>6. ASSUME NEW c \in Configs, result \in WriteConfig(st, c, dry),
             step.action \in {"apply_config", "rollback"}
      PROVE  /\ dry => result.stack = st
             /\ Modes(result.stack) \subseteq Modes(st) \union {c["feature_mode"]}
             /\ Split(result.stack) => Split(st) \/ (~dry /\ ~result.ok)
  <2> DEFINE written == [st EXCEPT !.file = c]
  <2>1. \/ result = Result(TRUE, st)
        \/ ~dry /\ result \in {Result(TRUE, Restarted(written, "app")), Result(FALSE, written)}
    BY <1>6, Zenon DEF WriteConfig
  <2>2. /\ Modes(written) \subseteq Modes(st) \union {c["feature_mode"]}
        /\ Modes(Restarted(written, "app")) \subseteq Modes(st) \union {c["feature_mode"]}
        /\ ~Split(Restarted(written, "app"))
    BY <1>1 DEF Stack, Restarted, Split, Modes
  <2>. HIDE DEF written
  <2>3. QED
    BY <1>0, <2>1, <2>2
<1>7. CASE step.action = "apply_config"
  <2>1. result \in ApplyConfig(st, step.arg, dry) /\ step.arg \in Patches
    BY <1>7 DEF Invoke, Step
  <2> DEFINE c == Patched(st.file, step.arg)
  <2>2. /\ c \in Configs
        /\ Tame(step) => c["feature_mode"] \in {st.file["feature_mode"], Known}
    BY <1>1, <1>7, <2>1, PatchedType DEF Tame, ConfigKeys
  <2>. HIDE DEF c
  <2>3. CASE result = Result(FALSE, st)
    BY <1>0, <2>3
  <2>4. CASE result \in WriteConfig(st, c, dry)
    <3>1. /\ dry => result.stack = st
          /\ Modes(result.stack) \subseteq Modes(st) \union {c["feature_mode"]}
          /\ Split(result.stack) => Split(st) \/ (~dry /\ ~result.ok)
      BY <1>6, <1>7, <2>2, <2>4
    <3>2. st.file["feature_mode"] \in Modes(st)
      BY DEF Modes
    <3>3. QED
      BY <1>7, <2>2, <3>1, <3>2
  <2>5. QED
    BY <2>1, <2>3, <2>4, Zenon DEF ApplyConfig, c
<1>8. CASE step.action = "rollback"
  <2>1. result \in WriteConfig(st, Canonical, dry)
    BY <1>8 DEF Invoke, Rollback
  <2>2. QED
    BY <1>6, <1>8, <2>1, CanonicalType DEF ConfigKeys
<1>9. QED
  BY <1>4, <1>5, <1>7, <1>8 DEF Step

\* execute() gives up on a step: the phase has failed.
Breaks ==
  /\ execution' = [execution EXCEPT ![phase] = "failed"]
  /\ pc' = IF phase = "rollback" THEN "record" ELSE "verify"
  /\ report' = [report EXCEPT !.rolled_back = @ \/ phase = "rollback"]

LEMMA FailedReturn == TypeOK /\ Return(Append(outcomes, FALSE)) => Breaks
<1> SUFFICES ASSUME TypeOK, Return(Append(outcomes, FALSE)) PROVE Breaks
  OBVIOUS
<1>1. ~Succeeded(Append(outcomes, FALSE))
  <2>1. /\ Len(outcomes) \in Nat
        /\ DOMAIN Append(outcomes, FALSE) = 1..(Len(outcomes) + 1)
        /\ Append(outcomes, FALSE)[Len(outcomes) + 1] = FALSE
    BY AppendOk DEF TypeOK
  <2>2. Len(outcomes) + 1 \in 1..(Len(outcomes) + 1)
    BY <2>1
  <2>3. QED
    BY <2>1, <2>2 DEF Succeeded
<1>2. QED
  BY <1>1 DEF Return, Breaks

\* A tool call with its result: what the step does to history, stack and report.
Called(dry, result) ==
  /\ result \in Invoke(stack, Current[Cursor], dry)
  /\ result.ok \in BOOLEAN
  /\ Current[Cursor] \in Step
  /\ Calling(dry, result.ok)
  /\ stack' = result.stack
  /\ UNCHANGED <<knowledge, verified, polls>>
  /\ ~result.ok => Breaks

LEMMA CallEffect ==
  ASSUME TypeOK, NEW dry \in BOOLEAN, NEW result, Called(dry, result)
  PROVE  /\ dry => stack' = stack
         /\ Tame(Current[Cursor]) => Modes(stack') \subseteq Modes(stack) \union {Known}
         /\ Split(stack') =>
              \/ Split(stack)
              \/ ~dry /\ ~result.ok /\ Current[Cursor].action \in {"apply_config", "rollback"}
<1>1. /\ stack \in Stack /\ Current[Cursor] \in Step
      /\ result \in Invoke(stack, Current[Cursor], dry) /\ stack' = result.stack
  BY DEF Called, TypeOK
<1>2. QED
  BY <1>1, ToolEffect

LEMMA DryRunOutcome ==
  ASSUME TypeOK, DryRun
  PROVE  \E result : /\ Called(TRUE, result)
                     /\ result.ok => pc' = "apply" /\ UNCHANGED <<execution, report>>
<1>1. PICK result \in Invoke(stack, Current[Cursor], TRUE) :
        /\ Call(TRUE, result)
        /\ IF result.ok
           THEN pc' = "apply" /\ UNCHANGED <<outcomes, execution, report>>
           ELSE Return(Append(outcomes, FALSE))
  BY DEF DryRun
<1>2. /\ result.ok \in BOOLEAN /\ NewCall(TRUE, result.ok) \in ToolCall
      /\ Current[Cursor] \in Step
  BY CallTyped, CursorStep DEF DryRun
<1>3. Calling(TRUE, result.ok) /\ stack' = result.stack /\ UNCHANGED <<knowledge, verified, polls>>
  BY <1>1, <1>2 DEF DryRun, Calling, Call, NewCall, runVars
<1>4. ~result.ok => Breaks
  BY <1>1, FailedReturn
<1>5. QED
  BY <1>1, <1>2, <1>3, <1>4 DEF Called

LEMMA ApplyOutcome ==
  ASSUME TypeOK, StepPending, Apply
  PROVE  \E result : /\ Called(FALSE, result)
                     /\ result.ok => pc' = "step" /\ UNCHANGED <<execution, report>>
<1>1. PICK result \in Invoke(stack, Current[Cursor], FALSE) :
        /\ Call(FALSE, result)
        /\ IF result.ok
           THEN outcomes' = Append(outcomes, TRUE) /\ pc' = "step" /\ UNCHANGED <<execution, report>>
           ELSE Return(Append(outcomes, FALSE))
  BY DEF Apply
<1>2. /\ result.ok \in BOOLEAN /\ NewCall(FALSE, result.ok) \in ToolCall
      /\ Current[Cursor] \in Step
  BY CallTyped, CursorStep DEF Apply, StepPending
<1>3. Calling(FALSE, result.ok) /\ stack' = result.stack /\ UNCHANGED <<knowledge, verified, polls>>
  BY <1>1, <1>2 DEF Apply, Calling, Call, NewCall, runVars
<1>4. ~result.ok => Breaks
  BY <1>1, FailedReturn
<1>5. QED
  BY <1>1, <1>2, <1>3, <1>4 DEF Called

-----------------------------------------------------------------------------
(* Each part of the invariant holds at first, and after every step. *)

LEMMA OutcomeInit == Init => OutcomeInv
<1> SUFFICES ASSUME Init PROVE OutcomeInv
  OBVIOUS
<1>1. UndoInv /\ ExecutedInv /\ ResolvedInv /\ RolledBackInv
  BY DEF Init, UndoInv, ExecutedInv, ResolvedInv, RolledBackInv
<1>2. GroundedInv
  BY DEF Init, NoProposal, GroundedInv, Grounded, GroundedUntilRollback
<1>3. SplitOnlyByFailedRestart
  BY InitialAssumption DEF Init, SplitOnlyByFailedRestart
<1>4. QED
  BY <1>1, <1>2, <1>3 DEF OutcomeInv

\* The steps around the execution, by what they leave of it.
LEMMA UndoNext == IInv /\ OutcomeInv /\ [Next]_vars => UndoInv'
<1> SUFFICES ASSUME IInv, OutcomeInv, [Next]_vars PROVE UndoInv'
  OBVIOUS
<1> USE DEF UndoInv
<1>0. UndoInv /\ TypeOK /\ StepPending
  BY DEF OutcomeInv, IInv
<1>1. CASE DryRun
  BY <1>0, <1>1, DryRunOutcome DEF Called, Calling, Breaks
<1>2. CASE Apply
  BY <1>0, <1>2, ApplyOutcome DEF Called, Calling, Breaks
<1>3. CASE FinishSteps \/ RefuseStep
  BY <1>0, <1>3 DEF FinishSteps, RefuseStep, Return
<1>4. CASE Verify
  BY <1>0, <1>4 DEF Verify, Conclude, Enter, TypeOK
<1>5. CASE UNCHANGED vars
  BY <1>0, <1>5 DEF vars, execVars
<1>6. QED
  BY <1>0, <1>1, <1>2, <1>3, <1>4, <1>5 DEF Next, Pipeline, Human, Done, Triage,
     PlanRemediation, AutoApprove, Escalate, HumanApproves, HumanEdits, HumanEditsNothing,
     HumanRejects, Execute, Enter, RecordOutcome, execVars, Phases, TypeOK

\* Who has run every step of a plan without a failure has earned its success.
LEMMA FinishEarns ==
  ASSUME IInv, FinishSteps, Succeeded(outcomes), phase = "remediation"
  PROVE  Earned
<1>1. Stepping /\ Len(Current) < Cursor /\ outcomes # <<>>
  <2>1. Cursor \in Nat /\ Len(Current) \in Nat
    BY CursorStep DEF IInv
  <2>2. QED
    BY <2>1 DEF FinishSteps, Stepping, Succeeded
<1>2. /\ Current = approved.steps /\ Len(Current) \in Nat /\ DOMAIN Current = 1..Len(Current)
      /\ Len(outcomes) \in Nat /\ Len(outcomes) > 0 /\ Len(Current) <= Len(outcomes)
  <2>1. outcomes \in Seq(BOOLEAN) /\ Len(outcomes) \in Nat /\ Len(Current) \in Nat
    BY CursorStep DEF IInv, TypeOK
  <2>2. Len(outcomes) > 0
    BY <1>1, <2>1, EmptySeq
  <2>3. Current = approved.steps
    BY DEF Current, Plan
  <2>4. QED
    BY <1>1, <2>1, <2>2, <2>3, CursorStep DEF IInv, Cursor
<1>3. /\ DoneBefore(phase, Len(outcomes), Len(calls))
      /\ Len(calls) \in Nat /\ DOMAIN calls = 1..Len(calls)
  BY <1>1, LenProperties DEF IInv, CursorInv, TypeOK
<1>4. \A k \in 1..Len(outcomes) : \E j \in DOMAIN calls :
        calls[j].phase = phase /\ calls[j].at = k /\ ~calls[j].dry
  BY <1>3 DEF DoneBefore
<1>5. \A k \in DOMAIN approved.steps : k \in 1..Len(outcomes)
  BY <1>2
<1>6. PICK j \in DOMAIN calls : calls[j].phase = "remediation" /\ calls[j].at = 1
  BY <1>2, <1>4
<1>7. calls # <<>>
  BY <1>3, <1>6, EmptySeq
<1>8. approved.steps # <<>>
  <2>1. 1 \in DOMAIN approved.steps
    BY <1>6 DEF IInv, FollowsThePlan, Plan
  <2>2. QED
    BY <1>2, <2>1
<1>9. \A i \in DOMAIN calls : calls[i].ok /\ calls[i].phase = "remediation"
  BY <1>1 DEF IInv, CleanInv, PhaseInv
<1>10. QED
  BY <1>4, <1>5, <1>7, <1>8, <1>9 DEF Earned

LEMMA ExecutedNext == IInv /\ OutcomeInv /\ [Next]_vars => ExecutedInv'
<1> SUFFICES ASSUME IInv, OutcomeInv, [Next]_vars,
                    pc' = "verify", execution'["remediation"] = "ok"
             PROVE  Earned'
  BY DEF ExecutedInv
<1>0. TypeOK /\ StepPending /\ ExecutedInv
  BY DEF OutcomeInv, IInv
<1>1. execution \in [Phases -> {"none", "ok", "failed"}] /\ phase \in {"remediation", "rollback"}
  BY <1>0 DEF TypeOK, Phases
<1>2. Breaks => FALSE
  BY <1>1 DEF Breaks, Phases
<1>3. CASE DryRun
  BY <1>0, <1>2, <1>3, DryRunOutcome DEF Called
<1>4. CASE Apply
  BY <1>0, <1>2, <1>4, ApplyOutcome DEF Called
<1>5. CASE RefuseStep
  <2>1. Return(Append(outcomes, FALSE))
    BY <1>5 DEF RefuseStep
  <2>2. QED
    BY <1>0, <1>2, <2>1, FailedReturn
<1>6. UNCHANGED <<approved, calls>> /\ Earned => Earned'
  BY DEF Earned
<1>7. CASE FinishSteps
  <2>1. Return(outcomes) /\ UNCHANGED <<approved, calls>>
    BY <1>7 DEF FinishSteps, runVars, envVars
  <2>2. phase = "remediation" /\ Succeeded(outcomes)
    BY <1>1, <2>1 DEF Return, Phases
  <2>3. QED
    BY <1>6, <1>7, <2>1, <2>2, FinishEarns
<1>8. CASE Verify
  <2>1. pc = "verify" /\ UNCHANGED <<execution, approved, calls>>
    BY <1>8 DEF Verify, runVars, envVars
  <2>2. QED
    BY <1>0, <1>6, <2>1 DEF ExecutedInv
<1>9. CASE UNCHANGED vars
  BY <1>0, <1>6, <1>9 DEF ExecutedInv, vars, runVars, execVars, envVars
<1>10. QED
  BY <1>3, <1>4, <1>5, <1>7, <1>8, <1>9 DEF Next, Pipeline, Human, Done, Triage,
     PlanRemediation, AutoApprove, Escalate, HumanApproves, HumanEdits, HumanEditsNothing,
     HumanRejects, Execute, Enter, RecordOutcome

\* Nothing but the verifier's last word makes a run resolved.
LEMMA ResolvedNext == IInv /\ OutcomeInv /\ [Next]_vars => ResolvedInv'
<1> SUFFICES ASSUME IInv, OutcomeInv, [Next]_vars PROVE ResolvedInv'
  OBVIOUS
<1>0. TypeOK /\ StepPending /\ ResolvedInv /\ ExecutedInv
  BY DEF OutcomeInv, IInv
<1>1. report \in [resolved : BOOLEAN, rolled_back : BOOLEAN, recorded : BOOLEAN]
  BY <1>0 DEF TypeOK
<1>2. UNCHANGED <<approved, calls>> /\ Earned => Earned'
  BY DEF Earned
<1>3. ASSUME pc \notin {"record", "done"}, report'.resolved = report.resolved, UNCHANGED knowledge
      PROVE  ResolvedInv'
  BY <1>0, <1>3 DEF ResolvedInv
<1>4. Breaks => report'.resolved = report.resolved
  BY <1>1 DEF Breaks
<1>5. CASE DryRun
  <2>1. pc = "step"
    BY <1>5 DEF DryRun
  <2>2. report'.resolved = report.resolved /\ UNCHANGED knowledge
    BY <1>0, <1>4, <1>5, DryRunOutcome DEF Called
  <2>3. QED
    BY <1>3, <2>1, <2>2
<1>6. CASE Apply
  <2>1. pc = "apply"
    BY <1>6 DEF Apply
  <2>2. report'.resolved = report.resolved /\ UNCHANGED knowledge
    BY <1>0, <1>4, <1>6, ApplyOutcome DEF Called
  <2>3. QED
    BY <1>3, <2>1, <2>2
<1>7. CASE FinishSteps \/ RefuseStep
  BY <1>1, <1>3, <1>7 DEF FinishSteps, RefuseStep, Return
<1>8. CASE Verify
  <2>1. /\ pc = "verify" /\ ~report.resolved /\ knowledge # "resolved"
        /\ phase = "remediation"
        /\ UNCHANGED <<approved, calls, stack, knowledge>>
    BY <1>0, <1>8 DEF Verify, ResolvedInv, IInv, PhaseInv, runVars, envVars
  <2>2. PICK passed \in RunChecks(stack) :
          Conclude(passed) \/ UNCHANGED <<pc, verified, report, phase, outcomes>>
    BY <1>8 DEF Verify
  <2>3. CASE UNCHANGED <<pc, verified, report, phase, outcomes>>
    BY <2>1, <2>3 DEF ResolvedInv
  <2>4. CASE Conclude(passed)
    <3>1. SUFFICES ASSUME report'.resolved PROVE ResolvedInv'
      BY <2>1 DEF ResolvedInv
    <3>2. execution["remediation"] = "ok" /\ passed
      BY <1>1, <2>4, <3>1 DEF Conclude
    <3>3. pc' = "record" /\ UNCHANGED phase
      BY <2>4, <3>2 DEF Conclude
    <3>4. CanBeHealthy(stack)
      BY <2>2, <3>2 DEF RunChecks
    <3>5. CanBeHealthy(stack)'
      BY <2>1, <3>4 DEF CanBeHealthy
    <3>6. Earned'
      BY <1>0, <1>2, <2>1, <3>2 DEF ExecutedInv
    <3>7. QED
      BY <2>1, <3>1, <3>3, <3>5, <3>6 DEF ResolvedInv
  <2>5. QED
    BY <2>2, <2>3, <2>4
<1>9. CASE RecordOutcome \/ UNCHANGED vars
  <2>1. /\ UNCHANGED <<approved, calls, stack, phase>>
        /\ report'.resolved = report.resolved
        /\ UNCHANGED <<pc, knowledge>> \/ pc' = "done"
        /\ knowledge' = "resolved" => knowledge = "resolved" \/ report.resolved
    BY <1>1, <1>9 DEF RecordOutcome, vars, runVars, execVars, endVars, envVars
  <2>2. CanBeHealthy(stack)' <=> CanBeHealthy(stack)
    BY <2>1 DEF CanBeHealthy
  <2>3. QED
    BY <1>0, <1>2, <2>1, <2>2 DEF ResolvedInv
<1>10. CASE Human \/ Triage \/ PlanRemediation \/ AutoApprove \/ Escalate \/ Execute
  BY <1>3, <1>10 DEF Human, HumanApproves, HumanEdits, HumanEditsNothing, HumanRejects,
     Triage, PlanRemediation, AutoApprove, Escalate, Execute, endVars
<1>11. QED
  BY <1>5, <1>6, <1>7, <1>8, <1>9, <1>10 DEF Next, Pipeline, Done

\* The rollback phase is marked when it ends, however it ends.
LEMMA RolledBackNext == IInv /\ OutcomeInv /\ [Next]_vars => RolledBackInv'
<1> SUFFICES ASSUME IInv, OutcomeInv, [Next]_vars PROVE RolledBackInv'
  OBVIOUS
<1> USE DEF RolledBackInv
<1>0. TypeOK /\ StepPending /\ RolledBackInv /\ UndoInv
  BY DEF OutcomeInv, IInv
<1>1. /\ report \in [resolved : BOOLEAN, rolled_back : BOOLEAN, recorded : BOOLEAN]
      /\ execution \in [Phases -> {"none", "ok", "failed"}]
      /\ phase \in {"remediation", "rollback"}
  BY <1>0 DEF TypeOK, Phases
<1>2. ASSUME pc \in {"step", "apply"}, UNCHANGED phase,
             \/ pc' \in {"step", "apply"} /\ UNCHANGED report
             \/ /\ \E result \in {"ok", "failed"} :
                     execution' = [execution EXCEPT ![phase] = result]
                /\ pc' = (IF phase = "rollback" THEN "record" ELSE "verify")
                /\ report' = [report EXCEPT !.rolled_back = @ \/ phase = "rollback"]
      PROVE  RolledBackInv'
  <2>1. ~report.rolled_back
    BY <1>0, <1>2
  <2>2. CASE pc' \in {"step", "apply"} /\ UNCHANGED report
    BY <2>1, <2>2
  <2>3. CASE phase = "rollback" /\ pc' \notin {"step", "apply"}
    <3>1. report'.rolled_back /\ pc' = "record" /\ phase' = "rollback"
      BY <1>1, <1>2, <2>3
    <3>2. execution'["rollback"] \in {"ok", "failed"}
      BY <1>1, <1>2, <2>3 DEF Phases
    <3>3. QED
      BY <3>1, <3>2
  <2>4. CASE phase = "remediation" /\ pc' \notin {"step", "apply"}
    BY <1>1, <1>2, <2>1, <2>4
  <2>5. QED
    BY <1>1, <1>2, <2>2, <2>3, <2>4
<1>3. CASE DryRun
  BY <1>0, <1>2, <1>3, DryRunOutcome DEF DryRun, Called, Calling, Breaks
<1>4. CASE Apply
  BY <1>0, <1>2, <1>4, ApplyOutcome DEF Apply, Called, Calling, Breaks
<1>5. CASE FinishSteps \/ RefuseStep
  BY <1>2, <1>5 DEF FinishSteps, RefuseStep, Return
<1>6. CASE Verify
  <2>1. ~report.rolled_back /\ phase = "remediation"
    BY <1>0, <1>6 DEF Verify, IInv, PhaseInv
  <2>2. UNCHANGED <<approved, gate>>
    BY <1>6 DEF Verify, runVars
  <2>3. PICK passed \in BOOLEAN :
          Conclude(passed) \/ UNCHANGED <<pc, verified, report, phase, outcomes>>
    BY <1>6 DEF Verify, RunChecks
  <2>4. CASE Conclude(passed)
    <3>1. ~report'.rolled_back /\ report'.resolved = (execution["remediation"] = "ok" /\ passed)
      BY <1>1, <2>1, <2>4 DEF Conclude
    <3>2. ~report'.resolved /\ approved.rollback # <<>> => pc' = "step"
      BY <2>4, <3>1 DEF Conclude, Enter
    <3>3. QED
      BY <2>2, <3>1, <3>2
  <2>5. CASE UNCHANGED <<pc, verified, report, phase, outcomes>>
    BY <1>6, <2>1, <2>5 DEF Verify
  <2>6. QED
    BY <2>3, <2>4, <2>5
<1>7. CASE RecordOutcome \/ UNCHANGED vars
  <2>1. /\ UNCHANGED <<approved, gate, phase, execution>>
        /\ report'.resolved = report.resolved /\ report'.rolled_back = report.rolled_back
        /\ UNCHANGED pc \/ (pc = "record" /\ pc' = "done")
    BY <1>1, <1>7 DEF RecordOutcome, vars, runVars, execVars, endVars
  <2>2. QED
    BY <1>0, <2>1
<1>8. CASE Human \/ Triage \/ PlanRemediation \/ AutoApprove \/ Escalate \/ Execute
  <2>1. /\ pc \notin {"record", "done"} /\ UNCHANGED report
        /\ pc' \in {"record", "done"} => ~gate'.approved
    BY <1>8 DEF Human, HumanApproves, HumanEdits, HumanEditsNothing, HumanRejects, Triage,
       PlanRemediation, AutoApprove, Escalate, Execute, Enter, endVars
  <2>2. QED
    BY <1>0, <2>1
<1>9. QED
  BY <1>3, <1>4, <1>5, <1>6, <1>7, <1>8 DEF Next, Pipeline, Done

\* Grounding: whatever the model wrote, the proposal's own steps name no mode
\* that the app rejects.
LEMMA ProposalIsGrounded ==
  ASSUME NEW plan \in LLMPlan
  PROVE  Grounded(ProposalOf(plan).steps)
<1> DEFINE grounded == [i \in DOMAIN plan.steps |-> GroundStep(plan.steps[i])]
           steps == [i \in DOMAIN grounded |-> ToStep(grounded[i])]
<1>1. \A i \in DOMAIN plan.steps : plan.steps[i] \in Step
  BY ElementOfSeq, LenProperties DEF LLMPlan
<1>2. \A s \in Step : Tame(ToStep(GroundStep(s)))
  BY DEF Step, ToStep, GroundStep, VALID_FEATURE_MODES, Tame
<1>3. Grounded(steps)
  BY <1>1, <1>2 DEF Grounded
<1>4. Grounded(<<>>)
  BY DEF Grounded
<1>5. ProposalOf(plan).steps \in {<<>>, steps}
  BY DEF ProposalOf
<1>. HIDE DEF steps
<1>6. QED
  BY <1>3, <1>4, <1>5

LEMMA GroundedNext == IInv /\ OutcomeInv /\ [Next]_vars => GroundedInv'
<1> SUFFICES ASSUME IInv, OutcomeInv, [Next]_vars PROVE GroundedInv'
  OBVIOUS
<1>0. TypeOK /\ StepPending /\ GroundedInv /\ UndoInv /\ GateInv
  BY DEF OutcomeInv, IInv
<1>1. ASSUME UNCHANGED <<proposal, approved, gate, initial>>,
             phase' = "remediation" =>
               phase = "remediation" /\ Modes(stack') \subseteq Modes(stack) \union {Known}
      PROVE  GroundedInv'
  BY <1>0, <1>1 DEF GroundedInv, Grounded, GroundedUntilRollback, Modes
<1>2. ASSUME Deciding, UNCHANGED <<stack, initial>>
      PROVE  GroundedUntilRollback'
  <2>1. stack = initial
    BY <1>0, <1>2 DEF GateInv, UntouchedWithoutApproval
  <2>2. QED
    BY <1>2, <2>1 DEF GroundedUntilRollback
<1>3. CASE Triage \/ Escalate \/ HumanEditsNothing
  BY <1>1, <1>3 DEF Triage, Escalate, HumanEditsNothing, runVars, execVars, envVars
<1>4. CASE PlanRemediation
  <2>1. Deciding /\ UNCHANGED <<approved, gate, stack, initial>>
    BY <1>4 DEF PlanRemediation, envVars, Deciding
  <2>2. Grounded(proposal'.steps)
    BY <1>0, <1>4, ProposalIsGrounded, RunAssumption DEF PlanRemediation, GroundedInv
  <2>3. QED
    BY <1>0, <1>2, <2>1, <2>2 DEF GroundedInv
<1>5. CASE AutoApprove \/ HumanApproves \/ HumanRejects \/ HumanEdits
  <2>1. Deciding /\ UNCHANGED <<proposal, stack, initial>>
    BY <1>5 DEF AutoApprove, HumanApproves, HumanRejects, HumanEdits, envVars, Deciding
  <2>2. Cleared(proposal).steps = proposal.steps
    BY <1>0 DEF Cleared, TypeOK, Proposal
  <2>3. gate'.human = "edit" \/ approved'.steps = proposal.steps
    BY <1>5, <2>2 DEF AutoApprove, HumanApproves, HumanRejects, HumanEdits
  <2>4. QED
    BY <1>0, <1>2, <2>1, <2>3 DEF GroundedInv, Grounded
<1>6. CASE Execute
  <2>1. phase = "remediation"
    BY <1>0, <1>6 DEF Execute, UndoInv, TypeOK, Phases
  <2>2. QED
    BY <1>1, <1>6, <2>1 DEF Execute, Enter, runVars, envVars
<1>7. CASE DryRun
  <2>1. PICK result : Called(TRUE, result)
    BY <1>0, <1>7, DryRunOutcome
  <2>2. stack' = stack
    BY <1>0, <2>1, CallEffect
  <2>3. QED
    BY <1>1, <2>1, <2>2 DEF Called, Calling
<1>8. CASE Apply
  <2>1. PICK result : Called(FALSE, result)
    BY <1>0, <1>8, ApplyOutcome
  <2>2. UNCHANGED <<proposal, approved, gate, phase, initial>> /\ stack' = result.stack
    BY <2>1 DEF Called, Calling
  <2>3. CASE gate.human = "edit" \/ phase # "remediation"
    BY <1>0, <2>2, <2>3 DEF GroundedInv, Grounded, GroundedUntilRollback
  <2>4. CASE gate.human # "edit" /\ phase = "remediation"
    <3>1. Cursor \in DOMAIN approved.steps /\ Current = approved.steps
      BY <1>0, <1>8, <2>4, CursorStep DEF Apply, StepPending, Current, Plan
    <3>2. Tame(Current[Cursor])
      BY <1>0, <2>4, <3>1 DEF GroundedInv, Grounded
    <3>3. Modes(stack') \subseteq Modes(stack) \union {Known}
      BY <1>0, <2>1, <3>2, CallEffect
    <3>4. QED
      BY <1>1, <2>2, <2>4, <3>3
  <2>5. QED
    BY <2>3, <2>4
<1>9. CASE FinishSteps \/ RefuseStep \/ RecordOutcome \/ UNCHANGED vars
  BY <1>1, <1>9 DEF FinishSteps, RefuseStep, Return, RecordOutcome, vars, runVars, execVars, envVars
<1>10. CASE Verify
  BY <1>1, <1>10 DEF Verify, Conclude, Enter, runVars, envVars
<1>11. QED
  BY <1>3, <1>4, <1>5, <1>6, <1>7, <1>8, <1>9, <1>10 DEF Next, Pipeline, Human, Done

LEMMA SplitNext == IInv /\ OutcomeInv /\ [Next]_vars => SplitOnlyByFailedRestart'
<1> SUFFICES ASSUME IInv, OutcomeInv, [Next]_vars, Split(stack')
             PROVE  \E i \in DOMAIN calls' : HalfWritten(calls'[i])
  BY DEF SplitOnlyByFailedRestart, Split, HalfWritten
<1>0. TypeOK /\ StepPending
  BY DEF IInv
<1>1. Split(stack) => \E i \in DOMAIN calls : HalfWritten(calls[i])
  BY DEF OutcomeInv, SplitOnlyByFailedRestart, Split, HalfWritten
<1>2. ASSUME NEW dry \in BOOLEAN, NEW result, Called(dry, result)
      PROVE  \E i \in DOMAIN calls' : HalfWritten(calls'[i])
  <2>1. /\ Len(calls) \in Nat /\ DOMAIN calls = 1..Len(calls)
        /\ DOMAIN calls' = 1..(Len(calls) + 1)
        /\ \A i \in 1..Len(calls) : calls'[i] = calls[i]
        /\ calls'[Len(calls) + 1] = NewCall(dry, result.ok)
    BY <1>0, <1>2, CallsAfter DEF Called, Calling
  <2>2. CASE Split(stack)
    <3>1. PICK i \in DOMAIN calls : HalfWritten(calls[i])
      BY <1>1, <2>2
    <3>2. i \in DOMAIN calls' /\ calls'[i] = calls[i]
      BY <2>1
    <3>3. QED
      BY <3>1, <3>2
  <2>3. CASE ~Split(stack)
    <3>1. ~dry /\ ~result.ok /\ Current[Cursor].action \in {"apply_config", "rollback"}
      BY <1>0, <1>2, <2>3, CallEffect DEF Called
    <3>2. HalfWritten(NewCall(dry, result.ok))
      BY <3>1 DEF HalfWritten, NewCall
    <3>3. Len(calls) + 1 \in DOMAIN calls'
      BY <2>1
    <3>4. QED
      BY <2>1, <3>2, <3>3
  <2>4. QED
    BY <2>2, <2>3
<1>3. CASE DryRun
  BY <1>0, <1>2, <1>3, DryRunOutcome
<1>4. CASE Apply
  BY <1>0, <1>2, <1>4, ApplyOutcome
<1>5. CASE Quiet
  BY <1>1, <1>5, QuietStep
<1>6. QED
  BY <1>3, <1>4, <1>5 DEF Quiet

LEMMA OutcomeInvariance == Spec => [](IInv /\ OutcomeInv)
<1>1. Init => IInv /\ OutcomeInv
  BY IInvInit, OutcomeInit
<1>2. IInv /\ OutcomeInv /\ [Next]_vars => (IInv /\ OutcomeInv)'
  <2>1. IInv /\ OutcomeInv /\ [Next]_vars => IInv'
    BY IInvNext
  <2>2. IInv /\ OutcomeInv /\ [Next]_vars => OutcomeInv'
    BY UndoNext, ExecutedNext, ResolvedNext, RolledBackNext, GroundedNext, SplitNext DEF OutcomeInv
  <2>3. QED
    BY <2>1, <2>2
<1>3. QED
  BY <1>1, <1>2, PTL DEF Spec

-----------------------------------------------------------------------------
(* The run implements SupervisedAction, step by step. *)

\* Who decides or acts has claimed nothing; who undoes has given up.
LEMMA OpenUntilVerified ==
  ASSUME IInv, OutcomeInv
  PROVE  /\ pc \in {"triage", "plan", "gate", "human"} => ~gate.approved /\ phase = "remediation"
         /\ pc \in {"execute", "step", "apply", "verify"} => gate.approved
         /\ pc \notin {"record", "done"} => ~report.resolved
         /\ phase = "rollback" => ~report.resolved
         /\ pc \in {"execute", "verify"} => phase = "remediation"
         /\ phase \in {"remediation", "rollback"} /\ stack \in Stack
BY DEF IInv, OutcomeInv, GateInv, UndoInv, ResolvedInv, TypeOK, Phases, Deciding, Acting

LEMMA PromiseInit == Init => Promise!Init
BY RunAssumption DEF Init, Promise!Init, Mode, Claim

LEMMA PromiseNext == IInv /\ OutcomeInv /\ [Next]_vars => [Promise!Next]_(Promise!vars)
<1> SUFFICES ASSUME IInv, OutcomeInv, [Next]_vars
             PROVE  Promise!Next \/ UNCHANGED <<Mode, gate.approved, stack, Claim>>
  BY DEF Promise!vars
<1>0. /\ pc \in {"triage", "plan", "gate", "human"} => ~gate.approved /\ phase = "remediation"
      /\ pc \in {"execute", "step", "apply", "verify"} => gate.approved
      /\ pc \notin {"record", "done"} => ~report.resolved
      /\ phase = "rollback" => ~report.resolved
      /\ pc \in {"execute", "verify"} => phase = "remediation"
      /\ phase \in {"remediation", "rollback"} /\ stack \in Stack
  BY OpenUntilVerified
<1>1. TypeOK /\ StepPending /\ TypeOK'
  BY TypeNext DEF IInv
<1>2. gate.approved \in BOOLEAN /\ gate'.approved \in BOOLEAN /\ stack' \in Stack
      /\ report \in [resolved : BOOLEAN, rolled_back : BOOLEAN, recorded : BOOLEAN]
  BY <1>1 DEF TypeOK
\* Observing, and the end of a run that only observed.
<1>3. CASE Triage \/ PlanRemediation \/ Escalate \/ HumanEditsNothing
  <2>1. /\ pc \in {"triage", "plan", "gate", "human"}
        /\ pc' \in {"triage", "plan", "gate", "human", "raised"}
        /\ UNCHANGED <<gate, stack, report, phase>>
    BY <1>3 DEF Triage, PlanRemediation, Escalate, HumanEditsNothing, runVars, execVars, endVars,
       envVars
  <2>2. CASE pc' = "raised"
    <3>1. Promise!Decline
      BY <1>0, <2>1, <2>2 DEF Promise!Decline, Mode, Claim
    <3>2. QED
      BY <3>1 DEF Promise!Next
  <2>3. CASE pc' # "raised"
    BY <2>1, <2>3 DEF Mode, Claim
  <2>4. QED
    BY <2>2, <2>3
<1>4. CASE HumanRejects
  <2>1. Promise!Decline
    <3>1. /\ pc = "human" /\ pc' = "record" /\ gate'.approved = FALSE
          /\ UNCHANGED <<stack, report>>
      BY <1>4 DEF HumanRejects, envVars, endVars
    <3>2. gate'.approved = gate.approved
      BY <1>0, <1>2, <3>1
    <3>3. QED
      BY <1>0, <3>1, <3>2 DEF Promise!Decline, Mode, Claim
  <2>2. QED
    BY <2>1 DEF Promise!Next
\* Consent.
<1>5. CASE AutoApprove \/ HumanApproves \/ HumanEdits
  <2>1. /\ pc \in {"gate", "human"} /\ pc' = "execute" /\ gate'.approved = TRUE
        /\ UNCHANGED <<stack, report, phase>>
    BY <1>5 DEF AutoApprove, HumanApproves, HumanEdits, execVars, endVars, envVars
  <2>2. Promise!Consent
    BY <1>0, <2>1 DEF Promise!Consent, Mode, Claim
  <2>3. QED
    BY <2>2 DEF Promise!Next
\* The loop of execute(), for either plan.
<1>6. ASSUME pc \in {"step", "apply"}, UNCHANGED <<gate, phase>>,
             report'.resolved = report.resolved,
             pc' \in {"step", "apply"} \/ pc' = IF phase = "rollback" THEN "record" ELSE "verify"
      PROVE  Promise!Touch
  <2>1. Mode = (IF phase = "remediation" THEN "acting" ELSE "undoing")
    BY <1>6 DEF Mode
  <2>2. Mode' \in IF Mode = "undoing" THEN {"undoing", "closed"} ELSE {Mode}
    BY <1>0, <1>6, <2>1 DEF Mode
  <2>3. Claim' = Claim
    BY <1>0, <1>6, <2>1, <2>2 DEF Claim
  <2>4. QED
    BY <1>0, <1>2, <1>6, <2>1, <2>2, <2>3 DEF Promise!Touch
<1>7. Breaks => report'.resolved = report.resolved
  BY <1>2 DEF Breaks
<1>8. CASE DryRun
  <2>1. Promise!Touch
    BY <1>1, <1>6, <1>7, <1>8, DryRunOutcome DEF DryRun, Called, Calling, Breaks
  <2>2. QED
    BY <2>1 DEF Promise!Next
<1>9. CASE Apply
  <2>1. Promise!Touch
    BY <1>1, <1>6, <1>7, <1>9, ApplyOutcome DEF Apply, Called, Calling, Breaks
  <2>2. QED
    BY <2>1 DEF Promise!Next
<1>10. CASE FinishSteps \/ RefuseStep
  <2>1. Promise!Touch
    BY <1>2, <1>6, <1>10 DEF FinishSteps, RefuseStep, Return, runVars
  <2>2. QED
    BY <2>1 DEF Promise!Next
<1>11. CASE Execute
  <2>1. /\ pc = "execute" /\ pc' \in {"step", "raised"} /\ phase' = "remediation"
        /\ UNCHANGED <<gate, stack, report>>
    BY <1>11 DEF Execute, Enter, runVars, endVars, envVars
  <2>2. CASE pc' = "step"
    BY <1>0, <2>1, <2>2 DEF Mode, Claim
  <2>3. CASE pc' = "raised"
    <3>1. Promise!GiveUp
      BY <1>0, <2>1, <2>3 DEF Promise!GiveUp, Mode, Claim
    <3>2. QED
      BY <3>1 DEF Promise!Next
  <2>4. QED
    BY <2>1, <2>2, <2>3
\* The verifier's last word: the one claim.
<1>12. CASE Verify
  <2>1. pc = "verify" /\ UNCHANGED <<gate, stack>>
    BY <1>12 DEF Verify, runVars, envVars
  <2>2. PICK passed \in RunChecks(stack) :
          Conclude(passed) \/ UNCHANGED <<pc, verified, report, phase, outcomes>>
    BY <1>12 DEF Verify
  <2>3. CASE UNCHANGED <<pc, verified, report, phase, outcomes>>
    BY <2>1, <2>3 DEF Mode, Claim
  <2>4. CASE Conclude(passed)
    <3>1. report'.resolved = (execution["remediation"] = "ok" /\ passed)
      BY <1>2, <2>4 DEF Conclude
    <3>2. CASE report'.resolved
      <4>1. CanBeHealthy(stack) /\ pc' = "record"
        BY <2>2, <2>4, <3>1, <3>2 DEF RunChecks, Conclude
      <4>2. Promise!ClaimResolved
        BY <1>0, <2>1, <3>2, <4>1 DEF Promise!ClaimResolved, Mode, Claim
      <4>3. QED
        BY <4>2 DEF Promise!Next
    <3>3. CASE ~report'.resolved
      <4>1. pc' = "record" \/ (pc' = "step" /\ phase' = "rollback")
        BY <2>4 DEF Conclude, Enter
      <4>2. Promise!GiveUp
        BY <1>0, <2>1, <3>3, <4>1 DEF Promise!GiveUp, Mode, Claim
      <4>3. QED
        BY <4>2 DEF Promise!Next
    <3>4. QED
      BY <3>2, <3>3
  <2>5. QED
    BY <2>2, <2>3, <2>4
<1>13. CASE RecordOutcome \/ UNCHANGED vars
  <2>1. /\ UNCHANGED <<gate, stack, phase>> /\ report'.resolved = report.resolved
        /\ UNCHANGED pc \/ (pc = "record" /\ pc' = "done")
    BY <1>2, <1>13 DEF RecordOutcome, vars, runVars, execVars, endVars, envVars
  <2>2. QED
    BY <2>1 DEF Mode, Claim
<1>14. QED
  BY <1>3, <1>4, <1>5, <1>8, <1>9, <1>10, <1>11, <1>12, <1>13 DEF Next, Pipeline, Human, Done

-----------------------------------------------------------------------------
(* The theorems. *)

\* What run_incident reports as resolved, and what it stores as resolved, was
\* earned: every approved step applied, no call failed, nothing called
\* afterwards, and a stack that can be healthy; for plans of any length.
THEOREM SuccessIsEarned == Spec => []ResolvedIsEarned
<1>1. OutcomeInv => ResolvedIsEarned
  BY DEF OutcomeInv, ResolvedInv, Earned, ResolvedIsEarned
<1>2. QED
  BY <1>1, OutcomeInvariance, PTL

\* Whatever fails, an approved run with a rollback plan goes through it before
\* it ends unresolved, and one that rolled back claims no success.
THEOREM FailureContained == Spec => []FailureIsContained
<1>1. IInv /\ OutcomeInv => FailureIsContained
  BY DEF OutcomeInv, ResolvedInv, RolledBackInv, FailureIsContained
<1>2. QED
  BY <1>1, OutcomeInvariance, PTL

\* No feature_mode but the valid one, or one that the run found, gets into the
\* config file or the running app until the rollback plan runs or a human has
\* edited the proposal.
THEOREM ModesAreGrounded == Spec => []GroundedUntilRollback
<1>1. OutcomeInv => GroundedUntilRollback
  BY DEF OutcomeInv, GroundedInv
<1>2. QED
  BY <1>1, OutcomeInvariance, PTL

\* The app runs another config than its file only after a config call that
\* wrote the file and failed to restart the app.
THEOREM SplitIsExplained == Spec => []SplitOnlyByFailedRestart
<1>1. OutcomeInv => SplitOnlyByFailedRestart
  BY DEF OutcomeInv
<1>2. QED
  BY <1>1, OutcomeInvariance, PTL

\* Every run is a behaviour of the abstract contract: it observes, acts under
\* consent, undoes, and makes one true claim.
THEOREM PromiseIsKept == Spec => KeepsThePromise
<1>1. Init => Promise!Init
  BY PromiseInit
<1>2. IInv /\ OutcomeInv /\ [Next]_vars => [Promise!Next]_(Promise!vars)
  BY PromiseNext
<1>3. QED
  BY <1>1, <1>2, OutcomeInvariance, PTL DEF Spec, KeepsThePromise, Promise!Spec

=============================================================================
