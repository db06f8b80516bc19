--------------------------- MODULE BenchmarkProofs ---------------------------
(***************************************************************************)
(* Proofs about Benchmark, for any faults, models, caps and modes.         *)
(*                                                                         *)
(* The benchmark's steps are the client's or leave it alone, so that what  *)
(* LlmBudgetProofs proves of the client holds during a benchmark.          *)
(***************************************************************************)
EXTENDS Benchmark, LlmBudgetProofs, FiniteSetTheorems, SequenceTheorems, WellFoundedInduction

-----------------------------------------------------------------------------
(* The benchmark drives the client. *)

Idles == UNCHANGED budgetVars

LEMMA Roles == ModelByRole["reasoning"] \in Models /\ ModelByRole["planning"] \in Models
BY BenchmarkAssumption

LEMMA BudgetStep == [Next]_vars => [BudgetNext]_budgetVars
<1> SUFFICES ASSUME [Next]_vars PROVE [BudgetNext]_budgetVars
  OBVIOUS
<1>1. CASE StartScenario \/ StartPlanning
  BY <1>1, Roles DEF StartScenario, StartPlanning, BudgetNext
<1>2. CASE AskModel
  BY <1>2 DEF AskModel, BudgetNext
<1>3. CASE \/ OpenWorld \/ FailToOpen \/ FailGathering \/ FailSchema \/ FailClient \/ Gate
           \/ ApplyBaseline \/ CallTool \/ ActOnStack \/ Conclude \/ FailActing \/ Cleanup
           \/ AppendRow \/ Report
  <2>1. UNCHANGED budgetVars
    BY <1>3 DEF OpenWorld, FailToOpen, FailGathering, FailSchema, FailClient, Gate, ApplyBaseline,
                CallTool, ActOnStack, Conclude, FailActing, Cleanup, AppendRow, Report
  <2> QED
    BY <2>1
<1>4. CASE Ended \/ UNCHANGED vars
  BY <1>4 DEF Ended, vars
<1> QED
  BY <1>1, <1>2, <1>3, <1>4 DEF Next, Advance

LEMMA BudgetStart == Init => BudgetInit
BY DEF Init

\* The client of a benchmark is a client: a benchmark's behaviours are behaviours
\* of the budgets' specification, which knows of no scenarios (llm/client.py).
THEOREM ClientIsAClient == Spec => BudgetSpec
BY BudgetStart, BudgetStep, PTL DEF Spec, BudgetSpec

LEMMA BudgetHolds == Spec => []BudgetInv
BY ClientIsAClient, BudgetInvariant, PTL

\* The session's cap, across scenarios, stages and retries (llm/client.py).
THEOREM CapHoldsAcrossScenarios == Spec => []RunCapHolds
<1>1. BudgetInv => RunCapHolds
  BY DEF BudgetInv
<1> QED
  BY <1>1, BudgetHolds, PTL

\* The bounds of each stage's complete_structured (llm/structured.py).
THEOREM StagesAreBounded == Spec => []TaskIsBounded
<1>1. BudgetInv => TaskIsBounded
  BY DEF BudgetInv
<1> QED
  BY <1>1, BudgetHolds, PTL

\* The free tier is one for all scenarios, and conserved (llm/cost.py).
THEOREM ScenariosShareTheFreeTier == Spec => []FreeTierIsConserved
<1>1. BudgetInv => FreeTierIsConserved
  BY DEF BudgetInv
<1> QED
  BY <1>1, BudgetHolds, PTL

-----------------------------------------------------------------------------
(* Types of the mock world and of what is done in it. *)

LEMMA ServicesType ==
  /\ Services = {"app", "worker", "downstream", "db", "queue"}
  /\ Canonical \in Configs /\ BadConfig \in Configs
  /\ Canonical["feature_mode"] = Known /\ BadConfig["feature_mode"] # Known
  /\ DOMAIN Canonical = ConfigKeys
BY SandboxAssumption, VocabularyAssumption DEF Canonical, BadConfig, Configs, ConfigKeys

\* A patch within the schema makes a config of a config.
LEMMA PatchedIs ==
  ASSUME NEW config \in Configs, NEW patch \in Patches
  PROVE  /\ Patched(config, patch) \in Configs
         /\ Patched(config, patch)["feature_mode"] =
              IF "feature_mode" \in DOMAIN patch THEN patch["feature_mode"] ELSE config["feature_mode"]
<1>1. PICK keys \in SUBSET (ConfigKeys \union {"other"}) : patch \in [keys -> Values]
  BY DEF Patches
<1>2. \A key \in ConfigKeys : (IF key \in DOMAIN patch THEN patch[key] ELSE config[key]) \in Values
  BY <1>1 DEF Configs
<1>3. QED
  BY <1>2 DEF Patched, Configs, ConfigKeys

LEMMA MarkIs ==
  ASSUME NEW m \in Mock, NEW action, NEW target, NEW arg
  PROVE  LET n == Mark(m, action, target, arg)
         IN  /\ n \in Mock /\ n.fault = m.fault /\ n.config = m.config
             /\ n.satisfied = m.satisfied \union FixingSteps(m.fault, action, target, arg)
<1> DEFINE Fixes == {"restart_service", "scale_service", "rollback"} \X Services
<1>1. \A f \in FaultIds : UNION REQUIRED_FIX_STEPS(f) \subseteq Fixes
  BY ServicesType DEF REQUIRED_FIX_STEPS, FaultIds, PoolFaults, RollbackApp
<1>2. FixingSteps(m.fault, action, target, arg) \subseteq Fixes
  BY <1>1 DEF FixingSteps, Mock
<1> HIDE DEF Fixes
<1> QED
  BY <1>2 DEF Mark, Mock, Fixes

LEMMA NewMockType ==
  ASSUME NEW f \in FaultIds
  PROVE  NewMock(f) \in Mock /\ NewMock(f).fault = f
BY ServicesType DEF NewMock, Mock

LEMMA StepOfStep ==
  ASSUME NEW s \in Step
  PROVE  GroundStep(s) \in Step /\ ToStep(s) \in Step /\ Defaulted(s) \in Step
<1>1. GroundStep(s) \in Step /\ ToStep(s) \in Step
  BY VocabularyAssumption DEF Step, GroundStep, ToStep
<1>2. Defaulted(s) \in Step
  BY BenchmarkAssumption DEF Step, Defaulted
<1> QED
  BY <1>1, <1>2

LEMMA MappedSeq ==
  ASSUME NEW S, NEW T, NEW s \in Seq(S), NEW t,
         t = [i \in DOMAIN s |-> t[i]],
         \A i \in DOMAIN s : t[i] \in T
  PROVE  t \in Seq(T) /\ DOMAIN t = DOMAIN s
<1>1. Len(s) \in Nat /\ DOMAIN s = 1..Len(s)
  BY LenProperties
<1>2. t \in [1..Len(s) -> T]
  BY <1>1
<1>3. t \in Seq(T)
  BY <1>1, <1>2, SeqDef
<1> QED
  BY <1>1, <1>2, <1>3, LenProperties

\* What the planner's proposal asks for are steps.
LEMMA ProposalSteps ==
  ASSUME NEW llm \in PlannerPlans
  PROVE  ProposalOf(llm).steps \in Seq(Step)
<1> DEFINE grounded == [i \in DOMAIN llm.steps |-> GroundStep(llm.steps[i])]
           steps == [i \in DOMAIN grounded |-> ToStep(grounded[i])]
<1>1. llm.steps \in Seq(Step)
  BY BenchmarkAssumption DEF LLMPlan
<1>2. grounded \in Seq(Step)
  <2>1. \A i \in DOMAIN llm.steps : grounded[i] \in Step
    BY <1>1, ElementOfSeq, LenProperties, StepOfStep
  <2>2. grounded = [i \in DOMAIN llm.steps |-> grounded[i]]
    OBVIOUS
  <2> HIDE DEF grounded
  <2> QED
    BY <1>1, <2>1, <2>2, MappedSeq
<1>3. steps \in Seq(Step)
  <2> HIDE DEF grounded
  <2>1. \A i \in DOMAIN grounded : steps[i] \in Step
    BY <1>2, ElementOfSeq, LenProperties, StepOfStep
  <2>2. steps = [i \in DOMAIN grounded |-> steps[i]]
    OBVIOUS
  <2> HIDE DEF steps
  <2> QED
    BY <1>2, <2>1, <2>2, MappedSeq
<1>4. ProposalOf(llm).steps = IF llm.escalate \/ llm.steps = <<>> THEN <<>> ELSE steps
  BY DEF ProposalOf
<1> HIDE DEF grounded, steps
<1> QED
  BY <1>3, <1>4

LEMMA BaselineSteps ==
  ASSUME NEW steps \in BaselinePlans
  PROVE  [i \in DOMAIN steps |-> Defaulted(ToStep(steps[i]))] \in Seq(Step)
<1> DEFINE mapped == [i \in DOMAIN steps |-> Defaulted(ToStep(steps[i]))]
<1>1. steps \in Seq(Step)
  BY BenchmarkAssumption
<1>2. \A i \in DOMAIN steps : mapped[i] \in Step
  BY <1>1, ElementOfSeq, LenProperties, StepOfStep
<1>3. mapped = [i \in DOMAIN steps |-> mapped[i]]
  OBVIOUS
<1> HIDE DEF mapped
<1>4. mapped \in Seq(Step)
  BY <1>1, <1>2, <1>3, MappedSeq
<1> QED
  BY <1>4 DEF mapped

-----------------------------------------------------------------------------
(* What a call does to the mock. *)

\* Once the config is right, the mock has seen to it that it was put right.
Remembers(m) ==
  m.fault \in ConfigFaults /\ m.config["feature_mode"] = Known => RollbackApp \in m.satisfied

\* The mode is right unless the fault's rollout is not undone yet.
Kept(m) ==
  m.fault \notin ConfigFaults \/ RollbackApp \in m.satisfied => m.config["feature_mode"] = Known

\* A step that grounding leaves: it names no rejected mode.
Tame(step) ==
  step.action = "apply_config" /\ "feature_mode" \in DOMAIN step.arg
    => step.arg["feature_mode"] = Known

LEMMA ConfigFaultsFix ==
  ASSUME NEW f \in FaultIds
  PROVE  RollbackApp \in UNION REQUIRED_FIX_STEPS(f) <=> f \in ConfigFaults
<1>1. RollbackApp \notin {<<"restart_service", "db">>, <<"restart_service", "downstream">>,
                          <<"restart_service", "worker">>, <<"scale_service", "worker">>}
  BY DEF RollbackApp
<1> QED
  BY <1>1 DEF REQUIRED_FIX_STEPS, FaultIds, PoolFaults, ConfigFaults

LEMMA NewMockIs ==
  ASSUME NEW f \in FaultIds
  PROVE  Remembers(NewMock(f)) /\ Kept(NewMock(f))
BY ServicesType DEF NewMock, Remembers, Kept

\* A write is remembered as a fix exactly when the mode is right.
LEMMA WriteIs ==
  ASSUME NEW m \in Mock, NEW config \in Configs, Remembers(m)
  PROVE  LET n == MockWrite(m, config)
         IN  /\ n \in Mock /\ n.fault = m.fault /\ n.config = config
             /\ m.satisfied \subseteq n.satisfied /\ Remembers(n)
             /\ config["feature_mode"] # Known => n.satisfied = m.satisfied
<1>1. CASE config = m.config
  BY <1>1 DEF MockWrite, Mock
<1>2. CASE config # m.config
  <2> DEFINE new == [m EXCEPT !.config = config]
             n == Mark(new, "apply_config", "app", config)
             F == FixingSteps(m.fault, "apply_config", "app", config)
             R == UNION REQUIRED_FIX_STEPS(m.fault)
  <2>1. /\ new \in Mock /\ new.fault = m.fault /\ new.config = config
        /\ new.satisfied = m.satisfied
    BY DEF Mock
  <2>2. MockWrite(m, config) = n
    BY <1>2 DEF MockWrite
  <2>3. F = {s \in {RollbackApp} : config["feature_mode"] = Known} \intersect R
    <3>1. "feature_mode" \in DOMAIN config
      BY DEF Configs, ConfigKeys
    <3> QED
      BY <3>1 DEF FixingSteps
  <2>4. /\ n \in Mock /\ n.fault = m.fault /\ n.config = config
        /\ n.satisfied = m.satisfied \union F
    <3> HIDE DEF new, F
    <3> QED
      BY <2>1, MarkIs DEF F
  <2>5. RollbackApp \in R <=> m.fault \in ConfigFaults
    BY ConfigFaultsFix DEF Mock
  <2> HIDE DEF new, n, F, R
  <2>6. /\ config["feature_mode"] # Known => F = {}
        /\ config["feature_mode"] = Known /\ m.fault \in ConfigFaults => RollbackApp \in F
    BY <2>3, <2>5
  <2> QED
    BY <2>2, <2>4, <2>6 DEF Remembers
<1> QED
  BY <1>1, <1>2

\* What fixes of a config call is remembered when the call is made.
LEMMA WriteFixes ==
  ASSUME NEW f \in FaultIds, NEW step \in Step, step.action \in {"apply_config", "rollback"},
         Fixing(f, step) # {}
  PROVE  /\ Fixing(f, step) = {RollbackApp} /\ f \in ConfigFaults
         /\ step.action = "apply_config" =>
              "feature_mode" \in DOMAIN step.arg /\ step.arg["feature_mode"] = Known
<1> DEFINE R == UNION REQUIRED_FIX_STEPS(f)
<1>1. \A s : <<"rollback", s>> \in R => <<"rollback", s>> = RollbackApp
  BY DEF REQUIRED_FIX_STEPS, FaultIds, PoolFaults, RollbackApp
<1>2. RollbackApp \in R <=> f \in ConfigFaults
  BY ConfigFaultsFix
<1>3. CASE step.action = "rollback"
  <2>1. Fixing(f, step) = {<<"rollback", step.target>>} \intersect R
    BY <1>3 DEF Fixing, FixingSteps
  <2> HIDE DEF R
  <2> QED
    BY <1>1, <1>2, <1>3, <2>1
<1>4. CASE step.action = "apply_config"
  <2>1. Fixing(f, step) = {s \in {RollbackApp} : "feature_mode" \in DOMAIN step.arg
                                                 /\ step.arg["feature_mode"] = Known} \intersect R
    BY <1>4 DEF Fixing, FixingSteps
  <2> HIDE DEF R
  <2> QED
    BY <1>2, <1>4, <2>1
<1> QED
  BY <1>3, <1>4

\* A call that the tools accept counts as what it fixes; a tame one leaves what
\* was fixed.
LEMMA CallIs ==
  ASSUME NEW m \in Mock, NEW step \in Step, ~Refused(step), Remembers(m)
  PROVE  LET n == MockCall(m, step)
         IN  /\ n \in Mock /\ n.fault = m.fault /\ m.satisfied \subseteq n.satisfied
             /\ Remembers(n) /\ Fixing(m.fault, step) \subseteq n.satisfied
             /\ Tame(step) /\ Kept(m) => Kept(n)
<1>0. m.fault \in FaultIds /\ m.config \in Configs
  BY DEF Mock
<1>1. CASE step.action \in {"restart_service", "scale_service"}
  <2> DEFINE n == Mark(m, step.action, step.target, step.arg)
             F == Fixing(m.fault, step)
  <2>1. MockCall(m, step) = n
    BY <1>1 DEF MockCall
  <2>2. /\ n \in Mock /\ n.fault = m.fault /\ n.config = m.config /\ n.satisfied = m.satisfied \union F
    BY MarkIs DEF Fixing
  <2>3. RollbackApp \notin F
    <3>1. F \subseteq {<<step.action, step.target>>}
      BY <1>1 DEF Fixing, FixingSteps
    <3>2. <<step.action, step.target>> # RollbackApp
      BY <1>1 DEF RollbackApp
    <3> QED
      BY <3>1, <3>2
  <2> HIDE DEF n, F
  <2> QED
    BY <2>1, <2>2, <2>3 DEF Remembers, Kept, F
<1>2. CASE step.action = "rollback"
  <2> DEFINE n == MockWrite(m, Canonical)
  <2>1. MockCall(m, step) = n
    BY <1>2 DEF MockCall
  <2>2. /\ n \in Mock /\ n.fault = m.fault /\ n.config = Canonical
        /\ m.satisfied \subseteq n.satisfied /\ Remembers(n)
    BY ServicesType, WriteIs
  <2> HIDE DEF n
  <2>3. Fixing(m.fault, step) \subseteq n.satisfied
    <3>1. CASE Fixing(m.fault, step) = {}
      BY <3>1
    <3>2. CASE Fixing(m.fault, step) # {}
      BY <1>0, <1>2, <2>2, <3>2, WriteFixes, ServicesType DEF Remembers
    <3> QED
      BY <3>1, <3>2
  <2> QED
    BY <2>1, <2>2, <2>3, ServicesType DEF Kept
<1>3. CASE step.action = "apply_config"
  <2> DEFINE config == Patched(m.config, step.arg)
             n == MockWrite(m, config)
  <2>1. step.arg \in Patches /\ DOMAIN step.arg \subseteq ConfigKeys
    BY <1>3 DEF Step, Refused
  <2>2. MockCall(m, step) = n
    BY <1>3, <2>1 DEF MockCall
  <2>3. /\ config \in Configs
        /\ config["feature_mode"] = IF "feature_mode" \in DOMAIN step.arg
                                    THEN step.arg["feature_mode"] ELSE m.config["feature_mode"]
    BY <1>0, <2>1, PatchedIs
  <2> HIDE DEF config
  <2>4. /\ n \in Mock /\ n.fault = m.fault /\ n.config = config
        /\ m.satisfied \subseteq n.satisfied /\ Remembers(n)
        /\ config["feature_mode"] # Known => n.satisfied = m.satisfied
    BY <2>3, WriteIs
  <2> HIDE DEF n
  <2>5. Fixing(m.fault, step) \subseteq n.satisfied
    <3>1. CASE Fixing(m.fault, step) = {}
      BY <3>1
    <3>2. CASE Fixing(m.fault, step) # {}
      <4>1. /\ Fixing(m.fault, step) = {RollbackApp} /\ m.fault \in ConfigFaults
            /\ "feature_mode" \in DOMAIN step.arg /\ step.arg["feature_mode"] = Known
        BY <1>0, <1>3, <3>2, WriteFixes
      <4> QED
        BY <2>3, <2>4, <4>1 DEF Remembers
    <3> QED
      BY <3>1, <3>2
  <2>6. Tame(step) /\ Kept(m) => Kept(n)
    BY <1>3, <2>3, <2>4 DEF Tame, Kept
  <2> QED
    BY <2>2, <2>4, <2>5, <2>6
<1>4. step.action \in {"restart_service", "rollback", "scale_service", "apply_config"}
  BY DEF Step
<1> QED
  BY <1>1, <1>2, <1>3, <1>4

\* A refused call is none.
LEMMA CallType ==
  ASSUME NEW m \in Mock, NEW step \in Step, ~Refused(step)
  PROVE  MockCall(m, step) \in Mock /\ MockCall(m, step).fault = m.fault
<1>1. \A config \in Configs : MockWrite(m, config) \in Mock /\ MockWrite(m, config).fault = m.fault
  <2> TAKE config \in Configs
  <2> DEFINE new == [m EXCEPT !.config = config]
  <2>1. new \in Mock /\ new.fault = m.fault
    BY DEF Mock
  <2>2. MockWrite(m, config) \in {m, Mark(new, "apply_config", "app", config)}
    BY DEF MockWrite
  <2> HIDE DEF new
  <2> QED
    BY <2>1, <2>2, MarkIs
<1>2. step.action = "apply_config" => Patched(m.config, step.arg) \in Configs
  BY PatchedIs DEF Step, Mock
<1>3. step.action \in {"restart_service", "rollback", "scale_service", "apply_config"}
  BY DEF Step
<1> QED
  BY <1>1, <1>2, <1>3, MarkIs, ServicesType DEF MockCall

-----------------------------------------------------------------------------
(* The inductive invariant of the tokens. *)

Jobs == [fault : FaultIds, kind : {"pipeline", "baseline", "raw"}]
Plans == [steps : Seq(Step), rollback : BOOLEAN]
Rows == [executed : BOOLEAN, success : BOOLEAN, resolved : BOOLEAN, escalated : BOOLEAN,
         residual_damage : BOOLEAN, schema_failed : BOOLEAN, outcome : Outcomes, tokens : Nat]
Stages == {"triage", "plan", "answer"}

\* Which stages a kind of run has, and in which world.
StageInv ==
  /\ at \in {"opened", "acting", "cleanup", "append", "unwinding"} \union Stages => jobs # <<>>
  /\ at \in {"triage", "plan"} => Job.kind # "baseline"
  /\ at = "answer" => Job.kind = "baseline"
  /\ mode = "mock" /\ at \in {"opened", "acting"} \union Stages => mock \in Mock /\ mock.fault = Job.fault

\* Where the tokens of the current scenario are: nowhere yet, since the start,
\* in its row, or with the exception.
SpendInv ==
  /\ at \in {"next", "opened", "done"} => reported = spent
  /\ at \in Stages \union {"acting"} => reported = start
  /\ at \in {"cleanup", "append"} => reported + row.tokens = spent

IInv == TypeOK /\ StageInv /\ SpendInv

LEMMA KindsAre ==
  /\ Len(Kinds) \in {2, 3}
  /\ \A k \in 1..Len(Kinds) : Kinds[k] \in {"pipeline", "baseline", "raw"}
<1>1. CASE Ablation
  BY <1>1 DEF Kinds
<1>2. CASE ~Ablation
  BY <1>2 DEF Kinds
<1> QED
  BY <1>1, <1>2

\* The position of a run is that of a fault, and that of a kind.
LEMMA Positions ==
  ASSUME NEW n \in Nat, NEW k \in {2, 3}, NEW i \in 1..(n * k)
  PROVE  ((i - 1) \div k) + 1 \in 1..n /\ ((i - 1) % k) + 1 \in 1..k
<1>1. CASE k = 2
  BY <1>1
<1>2. CASE k = 3
  BY <1>2
<1> QED
  BY <1>1, <1>2

LEMMA RunsType == Runs \in Seq(Jobs)
<1> DEFINE n == Len(Faults)
           k == Len(Kinds)
<1>1. n \in Nat /\ k \in {2, 3} /\ n * k \in Nat
  BY BenchmarkAssumption, KindsAre
<1>2. ASSUME NEW i \in 1..(n * k) PROVE Runs[i] \in Jobs
  <2>1. ((i - 1) \div k) + 1 \in 1..n /\ ((i - 1) % k) + 1 \in 1..k
    BY <1>1, <1>2, Positions
  <2>2. /\ Faults[((i - 1) \div k) + 1] \in FaultIds
        /\ Kinds[((i - 1) % k) + 1] \in {"pipeline", "baseline", "raw"}
    BY <1>1, <2>1, KindsAre, BenchmarkAssumption
  <2> QED
    BY <2>2 DEF Runs, Jobs
<1>3. Runs = [i \in 1..(n * k) |-> Runs[i]]
  BY DEF Runs
<1> HIDE DEF n, k
<1>4. Runs \in [1..(n * k) -> Jobs]
  BY <1>2, <1>3
<1> QED
  BY <1>1, <1>4

LEMMA NoneType == NoMetrics \in Rows /\ NoPlan \in Plans
BY DEF NoMetrics, Rows, Outcomes, NoPlan, Plans

LEMMA IInit == Init => IInv
<1> SUFFICES ASSUME Init PROVE IInv
  OBVIOUS
<1>1. BudgetTypeOK /\ spent = 0
  BY BudgetInitInv DEF Init, BudgetInv, BudgetInit
<1>2. /\ jobs = Runs /\ at = "next" /\ start = 0 /\ reported = 0 /\ row = NoMetrics /\ mode \in Modes
      /\ mock = NoMock /\ plan = NoPlan
  BY DEF Init
<1>3. jobs \in Seq(Jobs)
  BY <1>2, RunsType
<1>4. TypeOK
  BY <1>1, <1>2, <1>3, NoneType DEF TypeOK, Rows, Plans, Jobs
<1> QED
  BY <1>1, <1>2, <1>4 DEF IInv, StageInv, SpendInv, Stages

\* Tokens are only ever added.
LEMMA SpentGrows ==
  ASSUME BudgetTypeOK, [BudgetNext]_budgetVars
  PROVE  /\ spent \in Nat /\ spent' \in Nat /\ spent' >= spent
         /\ ~(\E n \in CallTokens, valid \in BOOLEAN : Reply(n, valid)) => spent' = spent
<1>0. spent \in Nat /\ CallTokens \subseteq Nat
  BY BudgetAssumption DEF BudgetTypeOK, CallTokens
<1>1. ASSUME NEW n \in CallTokens, NEW valid \in BOOLEAN, Reply(n, valid)
      PROVE  spent' = spent + n
  BY <1>1 DEF Reply, Record
<1>2. CASE \E n \in CallTokens, valid \in BOOLEAN : Reply(n, valid)
  BY <1>0, <1>1, <1>2
<1>3. CASE ~(\E n \in CallTokens, valid \in BOOLEAN : Reply(n, valid))
  BY <1>0, <1>3 DEF BudgetNext, Ask, Refuse, FailCall, StartTask, budgetVars
<1> QED
  BY <1>2, <1>3

LEMMA BudgetTypeNext ==
  ASSUME BudgetTypeOK, BudgetNext
  PROVE  BudgetTypeOK'
<1>1. CASE \E m \in Models : StartTask(m)
  BY <1>1, BudgetAssumption DEF StartTask, BudgetTypeOK, Task, TaskStates
<1>2. CASE Refuse \/ FailCall
  BY <1>2 DEF Refuse, FailCall, BudgetTypeOK, Task, TaskStates
<1>3. ASSUME NEW n \in CallTokens, NEW valid \in BOOLEAN, Reply(n, valid)
      PROVE  BudgetTypeOK'
  <2>1. n \in Nat /\ task \in Task /\ meter \in [Models -> Account] /\ spent \in Nat
    BY BudgetAssumption DEF CallTokens, BudgetTypeOK
  <2>2. task.model \in Models /\ meter[task.model] \in Account
    BY <2>1 DEF Task
  <2>3. Draw(meter[task.model], n) \in Account
    BY <2>1, <2>2, DrawConserves
  <2>4. meter' \in [Models -> Account] /\ spent' \in Nat
    <3>1. meter' = [meter EXCEPT ![task.model] = Draw(meter[task.model], n)] /\ spent' = spent + n
      BY <1>3 DEF Reply, Record
    <3>2. meter' \in [Models -> Account]
      BY <2>1, <2>3, <3>1
    <3> QED
      BY <2>1, <3>1, <3>2
  <2>5. task' \in Task
    <3> DEFINE ends == IF valid THEN "valid"
                       ELSE IF task.tokens + n >= TokenCap \/ task.attempts + 1 = MaxAttempts
                            THEN "exhausted" ELSE "asking"
    <3>1. task' = [at |-> ends, model |-> task.model, attempts |-> task.attempts + 1,
                   tokens |-> task.tokens + n]
      BY <1>3 DEF Reply, AfterReply
    <3>2. ends \in TaskStates
      BY DEF TaskStates
    <3> HIDE DEF ends
    <3> QED
      BY <2>1, <2>2, <3>1, <3>2 DEF Task
  <2> QED
    BY <2>4, <2>5 DEF BudgetTypeOK
<1> QED
  BY <1>1, <1>2, <1>3 DEF BudgetNext, Ask

\* A row that is measured.
LEMMA MeasuredIs ==
  ASSUME TypeOK, NEW verified \in BOOLEAN
  PROVE  /\ Measured(verified) \in Rows
         /\ Measured(verified).tokens = spent - start
         /\ Measured(verified).resolved = (row.success /\ verified)
         /\ Measured(verified).success = row.success
         /\ Measured(verified).escalated = row.escalated
<1> DEFINE resolved == row.success /\ verified
           damage == row.executed /\ ~resolved /\ ~plan.rollback
           class == Classify(row.executed, resolved, row.escalated)
           tokens == spent - start
<1>1. row \in Rows /\ plan.rollback \in BOOLEAN /\ tokens \in Nat
  BY DEF TypeOK, BudgetTypeOK, Rows
<1>2. resolved \in BOOLEAN /\ damage \in BOOLEAN /\ row.executed \in BOOLEAN /\ row.escalated \in BOOLEAN
  BY <1>1 DEF Rows
<1>3. class \in Outcomes
  BY <1>2 DEF Classify, Outcomes
<1>4. Measured(verified) = [row EXCEPT !.resolved = resolved, !.residual_damage = damage,
                                       !.outcome = class, !.tokens = tokens]
  BY DEF Measured
<1> HIDE DEF resolved, damage, class, tokens
<1> QED
  BY <1>1, <1>2, <1>3, <1>4, Zenon DEF Rows, resolved, tokens

\* The plan and the row that the gate, or the baseline's answer, start with.
LEMMA DecidedType ==
  ASSUME Gate \/ ApplyBaseline
  PROVE  plan' \in Plans /\ row' \in Rows
<1>1. CASE Gate
  <2>1. PICK llm \in PlannerPlans :
          LET proposal  == ProposalOf(llm)
              escalated == EscalationReasons(proposal) # {}
              approved  == escalated => proposal_fixes(Job.fault, proposal.steps)
          IN  /\ row' = [NoMetrics EXCEPT !.escalated = escalated,
                                          !.executed = approved, !.success = approved]
              /\ plan' = [steps |-> IF approved THEN proposal.steps ELSE <<>>,
                          rollback |-> approved /\ proposal.rollback # <<>>]
    BY <1>1, Zenon DEF Gate
  <2> DEFINE proposal == ProposalOf(llm)
             escalated == EscalationReasons(proposal) # {}
             approved == escalated => proposal_fixes(Job.fault, proposal.steps)
             back == approved /\ proposal.rollback # <<>>
             steps == IF approved THEN proposal.steps ELSE <<>>
  <2>2. escalated \in BOOLEAN /\ approved \in BOOLEAN /\ back \in BOOLEAN
    OBVIOUS
  <2>3. steps \in Seq(Step)
    BY ProposalSteps
  <2>4. /\ row' = [NoMetrics EXCEPT !.escalated = escalated, !.executed = approved,
                                    !.success = approved]
        /\ plan' = [steps |-> steps, rollback |-> back]
    BY <2>1
  <2> HIDE DEF proposal, escalated, approved, back, steps
  <2>5. row' \in Rows
    BY <2>2, <2>4, NoneType DEF Rows
  <2> QED
    BY <2>2, <2>3, <2>4, <2>5 DEF Plans
<1>2. CASE ApplyBaseline
  <2>1. PICK steps \in BaselinePlans :
          LET applied == steps # <<>>
          IN  /\ row' = [NoMetrics EXCEPT !.executed = applied, !.success = applied]
              /\ plan' = [steps |-> [i \in DOMAIN steps |-> Defaulted(ToStep(steps[i]))],
                          rollback |-> FALSE]
    BY <1>2, Zenon DEF ApplyBaseline
  <2> DEFINE applied == steps # <<>>
             mapped == [i \in DOMAIN steps |-> Defaulted(ToStep(steps[i]))]
  <2>2. applied \in BOOLEAN /\ mapped \in Seq(Step)
    BY BaselineSteps
  <2>3. /\ row' = [NoMetrics EXCEPT !.executed = applied, !.success = applied]
        /\ plan' = [steps |-> mapped, rollback |-> FALSE]
    BY <2>1
  <2> HIDE DEF applied, mapped
  <2>4. row' \in Rows
    BY <2>2, <2>3, NoneType DEF Rows
  <2> QED
    BY <2>2, <2>3, <2>4 DEF Plans
<1> QED
  BY <1>1, <1>2

LEMMA INext == IInv /\ [Next]_vars => IInv'
<1> SUFFICES ASSUME IInv, [Next]_vars PROVE IInv'
  OBVIOUS
<1>0. /\ TypeOK /\ StageInv /\ SpendInv
      /\ BudgetTypeOK /\ spent \in Nat /\ start \in Nat /\ start <= spent
      /\ reported \in Nat /\ reported <= spent
      /\ jobs \in Seq(Jobs) /\ row \in Rows /\ plan \in Plans
  BY DEF IInv, TypeOK, BudgetTypeOK, Jobs, Rows, Plans
\* A step that leaves the model alone, and does not report.
<1>1. ASSUME UNCHANGED <<budgetVars, mode, jobs, start, reported>>,
             mock' \in Mock \union {NoMock}, plan' \in Plans, row' \in Rows,
             at' \in {"opened", "acting", "cleanup", "unwinding", "append", "done", "aborted"}
      PROVE  TypeOK' /\ Job' = Job
  <2>1. BudgetTypeOK' /\ spent' = spent
    BY <1>0, <1>1 DEF budgetVars, BudgetTypeOK
  <2>2. Job' = Job
    BY <1>1 DEF Job
  <2> QED
    BY <1>0, <1>1, <2>1, <2>2 DEF TypeOK, Jobs, Plans, Rows
<1>2. CASE OpenWorld
  <2>1. /\ mock' \in Mock \union {NoMock}
        /\ mode = "mock" => mock' \in Mock /\ mock'.fault = Job.fault
    <3>1. Job.fault \in FaultIds
      <4>1. jobs # <<>>
        BY <1>2 DEF OpenWorld
      <4>2. Head(jobs) \in Jobs
        BY <1>0, <4>1, HeadTailProperties
      <4> QED
        BY <4>2 DEF Job, Jobs
    <3> QED
      BY <1>2, <3>1, NewMockType DEF OpenWorld
  <2>2. TypeOK' /\ spent' = spent /\ Job' = Job
    BY <1>0, <1>1, <1>2, <2>1 DEF OpenWorld, budgetVars
  <2> QED
    BY <1>0, <1>2, <2>1, <2>2 DEF OpenWorld, IInv, StageInv, SpendInv, Stages
<1>3. CASE FailToOpen \/ Report
  <2>1. TypeOK' /\ spent' = spent
    BY <1>0, <1>1, <1>3 DEF FailToOpen, Report, TypeOK, budgetVars
  <2> QED
    BY <1>0, <1>3, <2>1 DEF FailToOpen, Report, IInv, StageInv, SpendInv, Stages
<1>4. CASE FailGathering \/ FailClient \/ FailActing
  <2>1. TypeOK' /\ spent' = spent /\ at' = "unwinding" /\ jobs' # <<>>
    BY <1>0, <1>1, <1>4, NoneType
    DEF FailGathering, FailClient, FailActing, TypeOK, budgetVars, StageInv, Stages
  <2> QED
    BY <2>1 DEF IInv, StageInv, SpendInv, Stages
<1>5. CASE Cleanup
  <2>1. TypeOK' /\ spent' = spent
    BY <1>0, <1>1, <1>5 DEF Cleanup, TypeOK, budgetVars
  <2> QED
    BY <1>0, <1>5, <2>1 DEF Cleanup, IInv, StageInv, SpendInv, Stages
<1>6. CASE Gate \/ ApplyBaseline
  <2>1. plan' \in Plans /\ row' \in Rows
    BY <1>6, DecidedType
  <2>2. TypeOK' /\ spent' = spent /\ Job' = Job
    BY <1>0, <1>1, <1>6, <2>1 DEF Gate, ApplyBaseline, TypeOK, budgetVars
  <2> QED
    BY <1>0, <1>6, <2>2 DEF Gate, ApplyBaseline, IInv, StageInv, SpendInv, Stages
<1>7. CASE CallTool \/ ActOnStack
  <2>1. at = "acting" /\ at' = at /\ UNCHANGED <<budgetVars, mode, jobs, start, reported>>
    BY <1>7 DEF CallTool, ActOnStack
  <2>2. /\ plan' \in Plans /\ row' \in Rows /\ mock' \in Mock \union {NoMock}
        /\ mode = "mock" => mock' \in Mock /\ mock'.fault = Job.fault
    <3>0. mode = "mock" => mock \in Mock /\ mock.fault = Job.fault
      BY <1>0, <2>1 DEF StageInv
    <3>1. /\ plan.steps \in Seq(Step) /\ plan.rollback \in BOOLEAN
          /\ [plan EXCEPT !.steps = <<>>] \in Plans /\ mock \in Mock \union {NoMock}
      <4>1. <<>> \in Seq(Step)
        OBVIOUS
      <4> QED
        BY <1>0, <4>1 DEF Plans, TypeOK
    <3>2. CASE ActOnStack
      <4>1. PICK success \in BOOLEAN : row' = [row EXCEPT !.success = success]
        BY <3>2 DEF ActOnStack
      <4>2. row' \in Rows
        BY <1>0, <4>1 DEF Rows
      <4> QED
        BY <3>0, <3>1, <3>2, <4>2 DEF ActOnStack
    <3>3. CASE CallTool /\ row' = [row EXCEPT !.success = FALSE] /\ plan' = [plan EXCEPT !.steps = <<>>]
                        /\ UNCHANGED mock
      <4>1. row' \in Rows
        BY <1>0, <3>3 DEF Rows
      <4> QED
        BY <3>0, <3>1, <3>3, <4>1
    <3>4. CASE CallTool /\ ~Refused(Head(plan.steps)) /\ mock' = MockCall(mock, Head(plan.steps))
                        /\ plan' = [plan EXCEPT !.steps = Tail(@)] /\ UNCHANGED row
      <4>1. plan.steps # <<>> /\ Head(plan.steps) \in Step /\ Tail(plan.steps) \in Seq(Step)
        BY <3>1, <3>4, HeadTailProperties DEF CallTool
      <4>2. mock' \in Mock /\ mock'.fault = Job.fault
        <5>1. mock \in Mock /\ mock.fault = Job.fault
          BY <3>0, <3>4 DEF CallTool
        <5> QED
          BY <3>4, <4>1, <5>1, CallType
      <4> QED
        BY <1>0, <3>1, <3>4, <4>1, <4>2 DEF Plans
    <3> QED
      BY <1>7, <3>2, <3>3, <3>4 DEF CallTool
  <2>3. TypeOK' /\ spent' = spent /\ Job' = Job
    BY <1>0, <1>1, <2>1, <2>2 DEF TypeOK, budgetVars
  <2> QED
    BY <1>0, <2>1, <2>2, <2>3 DEF IInv, StageInv, SpendInv, Stages
<1>8. CASE Conclude
  <2>1. PICK verified \in BOOLEAN : row' = Measured(verified)
    <3>1. Verdicts \subseteq BOOLEAN
      BY DEF Verdicts, fixed, steps_fix
    <3> QED
      BY <1>8, <3>1 DEF Conclude
  <2>2. row' \in Rows /\ row'.tokens = spent - start
    BY <1>0, <2>1, MeasuredIs
  <2>3. /\ at = "acting" /\ at' = "cleanup" /\ plan' = NoPlan
        /\ UNCHANGED <<budgetVars, mode, jobs, start, mock, reported>>
    BY <1>8 DEF Conclude
  <2>4. TypeOK' /\ spent' = spent
    BY <1>0, <1>1, <2>2, <2>3, NoneType DEF TypeOK, budgetVars
  <2>5. reported' + row'.tokens = spent'
    BY <1>0, <2>2, <2>3, <2>4 DEF SpendInv
  <2> QED
    BY <1>0, <2>3, <2>4, <2>5 DEF IInv, StageInv, SpendInv, Stages
<1>9. CASE FailSchema
  <2>1. /\ at \in Stages /\ at' = "cleanup" /\ UNCHANGED <<budgetVars, mode, jobs, start, mock, plan, reported>>
        /\ row' = [NoMetrics EXCEPT !.schema_failed = TRUE, !.tokens = spent - start]
    BY <1>9 DEF FailSchema, Stages
  <2>2. spent - start \in Nat
    BY <1>0
  <2>3. row' \in Rows /\ row'.tokens = spent - start
    BY <2>1, <2>2 DEF NoMetrics, Rows, Outcomes
  <2>4. TypeOK' /\ spent' = spent
    BY <1>0, <1>1, <2>1, <2>3 DEF TypeOK, budgetVars
  <2>5. reported' + row'.tokens = spent'
    BY <1>0, <2>1, <2>3, <2>4 DEF SpendInv
  <2> QED
    BY <1>0, <2>1, <2>4, <2>5 DEF IInv, StageInv, SpendInv, Stages
<1>10. CASE StartScenario
  <2>1. /\ at = "opened" /\ start' = spent
        /\ at' = (IF Job.kind = "baseline" THEN "answer" ELSE "triage")
        /\ UNCHANGED <<mode, jobs, mock, plan, row, reported>>
    BY <1>10 DEF StartScenario
  <2>2. BudgetTypeOK' /\ spent' = spent
    <3>1. StartTask(ModelByRole["reasoning"])
      BY <1>10 DEF StartScenario
    <3> QED
      BY <1>0, <3>1, Roles, BudgetTypeNext DEF BudgetNext, StartTask
  <2>3. at' \in {"answer", "triage"} /\ (at' = "answer" <=> Job.kind = "baseline") /\ Job' = Job
    BY <2>1 DEF Job
  <2>4. TypeOK'
    BY <1>0, <2>1, <2>2, <2>3 DEF TypeOK
  <2> QED
    BY <1>0, <2>1, <2>2, <2>3, <2>4 DEF IInv, StageInv, SpendInv, Stages
<1>11. CASE StartPlanning
  <2>1. /\ at = "triage" /\ at' = "plan" /\ Job' = Job
        /\ UNCHANGED <<mode, jobs, start, mock, plan, row, reported>>
    BY <1>11 DEF StartPlanning, Job
  <2>2. BudgetTypeOK' /\ spent' = spent
    <3>1. StartTask(ModelByRole["planning"])
      BY <1>11 DEF StartPlanning
    <3> QED
      BY <1>0, <3>1, Roles, BudgetTypeNext DEF BudgetNext, StartTask
  <2>3. TypeOK'
    BY <1>0, <2>1, <2>2 DEF TypeOK
  <2> QED
    BY <1>0, <2>1, <2>2, <2>3 DEF IInv, StageInv, SpendInv, Stages
<1>12. CASE AskModel
  <2>1. /\ at \in Stages /\ at' = at /\ Job' = Job
        /\ UNCHANGED <<mode, jobs, start, mock, plan, row, reported>>
    BY <1>12 DEF AskModel, Stages, Job
  <2>2. spent' \in Nat /\ spent' >= spent
    BY <1>0, BudgetStep, SpentGrows
  <2>3. BudgetTypeOK'
    BY <1>0, <1>12, BudgetTypeNext DEF AskModel, BudgetNext
  <2>4. TypeOK'
    BY <1>0, <2>1, <2>2, <2>3 DEF TypeOK
  <2> QED
    BY <1>0, <2>1, <2>4 DEF IInv, StageInv, SpendInv, Stages
<1>13. CASE AppendRow
  <2>1. /\ at = "append" /\ reported' = reported + row.tokens /\ jobs' = Tail(jobs) /\ row' = NoMetrics
        /\ start' = 0 /\ at' = "next" /\ UNCHANGED <<budgetVars, mode, mock, plan>>
    BY <1>13 DEF AppendRow
  <2>2. reported' = spent /\ spent' = spent /\ jobs # <<>>
    BY <1>0, <2>1 DEF SpendInv, StageInv, budgetVars
  <2>3. jobs' \in Seq(Jobs)
    BY <1>0, <2>1, <2>2, HeadTailProperties
  <2>4. BudgetTypeOK'
    BY <1>0, <2>1 DEF budgetVars, BudgetTypeOK
  <2>5. TypeOK'
    BY <1>0, <2>1, <2>2, <2>3, <2>4, NoneType DEF TypeOK, Jobs, Rows
  <2> QED
    BY <1>0, <2>1, <2>2, <2>5 DEF IInv, StageInv, SpendInv, Stages
<1>14. CASE Ended \/ UNCHANGED vars
  <2>1. UNCHANGED vars
    BY <1>14 DEF Ended
  <2>2. TypeOK' /\ Job' = Job
    BY <1>0, <2>1 DEF vars, budgetVars, TypeOK, BudgetTypeOK, Job
  <2> QED
    BY <1>0, <2>1, <2>2 DEF vars, budgetVars, IInv, StageInv, SpendInv
<1> QED
  BY <1>2, <1>3, <1>4, <1>5, <1>6, <1>7, <1>8, <1>9, <1>10, <1>11, <1>12, <1>13, <1>14
  DEF Next, Advance

LEMMA Invariance == Spec => []IInv
BY IInit, INext, PTL DEF Spec

\* The components have their types; no more is reported than was spent.
THEOREM TypeCorrect == Spec => []TypeOK
<1>1. IInv => TypeOK
  BY DEF IInv
<1> QED
  BY <1>1, Invariance, PTL

-----------------------------------------------------------------------------
(* What a row of a mock world says of it. *)

FixedBy(f, steps) == UNION {Fixing(f, steps[i]) : i \in DOMAIN steps}

\* What was done, and what is still to be done, fixes the fault.
Covered == steps_fix(Job.fault, mock.satisfied \union FixedBy(Job.fault, plan.steps))

AllTame(steps) == \A i \in DOMAIN steps : Tame(steps[i])

\* While a mock world is acted upon: an escalated proposal that has not failed
\* fixes the fault; no step of a pipeline undoes it.
ActInv ==
  mode = "mock" =>
    /\ at \in {"opened"} \union Stages => mock = NewMock(Job.fault)
    /\ at = "acting" =>
         /\ Remembers(mock)
         /\ row.success => row.executed
         /\ row.escalated /\ row.success => Covered
         /\ Job.kind # "baseline" => Kept(mock) /\ AllTame(plan.steps)

RowInv == ActInv /\ OracleIsRight /\ FixIsFinal

LEMMA TailFixes ==
  ASSUME NEW f, NEW steps \in Seq(Step), steps # <<>>
  PROVE  FixedBy(f, steps) \subseteq Fixing(f, Head(steps)) \union FixedBy(f, Tail(steps))
<1> SUFFICES ASSUME NEW i \in DOMAIN steps
             PROVE  Fixing(f, steps[i]) \subseteq Fixing(f, Head(steps)) \union FixedBy(f, Tail(steps))
  BY DEF FixedBy
<1>1. CASE i = 1
  BY <1>1 DEF FixedBy
<1>2. CASE i # 1
  <2>1. i - 1 \in DOMAIN Tail(steps) /\ Tail(steps)[i - 1] = steps[i]
    BY <1>2
  <2> QED
    BY <2>1 DEF FixedBy
<1> QED
  BY <1>1, <1>2

LEMMA TailTame ==
  ASSUME NEW steps \in Seq(Step), steps # <<>>, AllTame(steps)
  PROVE  Tame(Head(steps)) /\ AllTame(Tail(steps))
<1>1. 1 \in DOMAIN steps /\ Head(steps) = steps[1]
  OBVIOUS
<1>2. \A i \in DOMAIN Tail(steps) : i + 1 \in DOMAIN steps /\ Tail(steps)[i] = steps[i + 1]
  OBVIOUS
<1> QED
  BY <1>1, <1>2 DEF AllTame

LEMMA NothingFixes == \A f : FixedBy(f, <<>>) = {} /\ AllTame(<<>>)
BY DEF FixedBy, AllTame

\* More steps fix what fewer do.
LEMMA MoreFixes ==
  ASSUME NEW f, NEW A, NEW B, A \subseteq B, steps_fix(f, A)
  PROVE  steps_fix(f, B)
BY DEF steps_fix

\* Grounded steps are tame.
LEMMA GroundedIsTame ==
  ASSUME NEW llm \in PlannerPlans
  PROVE  AllTame(ProposalOf(llm).steps)
<1> DEFINE grounded == [i \in DOMAIN llm.steps |-> GroundStep(llm.steps[i])]
           steps == [i \in DOMAIN grounded |-> ToStep(grounded[i])]
<1>1. llm.steps \in Seq(Step)
  BY BenchmarkAssumption DEF LLMPlan
<1>2. ASSUME NEW s \in Step PROVE Tame(ToStep(GroundStep(s)))
  <2>1. CASE s.action = "apply_config"
    BY <2>1 DEF Tame, ToStep, GroundStep, VALID_FEATURE_MODES, Step
  <2>2. CASE s.action # "apply_config"
    BY <2>2 DEF Tame, ToStep, GroundStep, Step
  <2> QED
    BY <2>1, <2>2
<1>3. \A i \in DOMAIN steps : Tame(steps[i])
  BY <1>1, <1>2, ElementOfSeq, LenProperties
<1>4. ProposalOf(llm).steps = IF llm.escalate \/ llm.steps = <<>> THEN <<>> ELSE steps
  BY DEF ProposalOf
<1> HIDE DEF grounded, steps
<1> QED
  BY <1>3, <1>4, NothingFixes DEF AllTame

LEMMA GateActs ==
  ASSUME IInv, ActInv, Gate, mode = "mock"
  PROVE  ActInv'
<1>1. PICK llm \in PlannerPlans :
        LET proposal  == ProposalOf(llm)
            escalated == EscalationReasons(proposal) # {}
            approved  == escalated => proposal_fixes(Job.fault, proposal.steps)
        IN  /\ row' = [NoMetrics EXCEPT !.escalated = escalated,
                                        !.executed = approved, !.success = approved]
            /\ plan' = [steps |-> IF approved THEN proposal.steps ELSE <<>>,
                        rollback |-> approved /\ proposal.rollback # <<>>]
  BY Zenon DEF Gate
<1> DEFINE steps == ProposalOf(llm).steps
           escalated == EscalationReasons(ProposalOf(llm)) # {}
           approved == escalated => proposal_fixes(Job.fault, steps)
           back == approved /\ ProposalOf(llm).rollback # <<>>
<1>2. /\ row' = [NoMetrics EXCEPT !.escalated = escalated, !.executed = approved, !.success = approved]
      /\ plan' = [steps |-> IF approved THEN steps ELSE <<>>, rollback |-> back]
  BY <1>1
<1>3. AllTame(steps)
  BY GroundedIsTame
<1>4. escalated /\ approved => steps_fix(Job.fault, FixedBy(Job.fault, steps))
  BY DEF proposal_fixes, FixedBy
<1> HIDE DEF steps, escalated, approved, back
<1>5. /\ row'.escalated = escalated /\ row'.executed = approved /\ row'.success = approved
      /\ approved => plan'.steps = steps
      /\ AllTame(plan'.steps)
  BY <1>2, <1>3, NothingFixes DEF NoMetrics
<1>6. at = "plan" /\ at' = "acting" /\ mode' = mode /\ mock' = mock /\ Job' = Job
  BY DEF Gate, Job
<1>7. mock = NewMock(Job.fault) /\ mock \in Mock /\ Job.fault \in FaultIds
  BY <1>6 DEF ActInv, IInv, StageInv, Stages, Mock
<1>8. row'.escalated /\ row'.success => Covered'
  <2> SUFFICES ASSUME escalated, approved PROVE Covered'
    BY <1>5
  <2>1. steps_fix(Job.fault, FixedBy(Job.fault, steps)) /\ plan'.steps = steps
    BY <1>4, <1>5
  <2>2. steps_fix(Job.fault, mock.satisfied \union FixedBy(Job.fault, steps))
    <3>1. FixedBy(Job.fault, steps) \subseteq mock.satisfied \union FixedBy(Job.fault, steps)
      OBVIOUS
    <3> QED
      BY <2>1, <3>1, MoreFixes
  <2> QED
    BY <1>6, <2>1, <2>2 DEF Covered
<1>9. Remembers(mock) /\ Kept(mock)
  BY <1>7, NewMockIs
<1> QED
  BY <1>5, <1>6, <1>8, <1>9 DEF ActInv, Stages

LEMMA BaselineActs ==
  ASSUME IInv, ActInv, ApplyBaseline, mode = "mock"
  PROVE  ActInv'
<1>1. PICK steps \in BaselinePlans :
        LET applied == steps # <<>>
        IN  row' = [NoMetrics EXCEPT !.executed = applied, !.success = applied]
  BY Zenon DEF ApplyBaseline
<1>2. ~row'.escalated /\ (row'.success => row'.executed)
  BY <1>1 DEF NoMetrics
<1>3. at = "answer" /\ at' = "acting" /\ mode' = mode /\ mock' = mock /\ Job' = Job
  BY DEF ApplyBaseline, Job
<1>4. mock = NewMock(Job.fault) /\ Job.kind = "baseline" /\ Job.fault \in FaultIds
  BY <1>3 DEF ActInv, IInv, StageInv, Stages, Mock
<1>5. Remembers(mock)
  BY <1>4, NewMockIs
<1> QED
  BY <1>2, <1>3, <1>4, <1>5 DEF ActInv, Stages

LEMMA CallActs ==
  ASSUME IInv, ActInv, CallTool
  PROVE  ActInv'
<1> DEFINE f == Job.fault
           step == Head(plan.steps)
<1>1. /\ at = "acting" /\ at' = at /\ mode = "mock" /\ mode' = mode /\ Job' = Job /\ plan.steps # <<>>
  BY DEF CallTool, Job
<1>2. /\ mock \in Mock /\ mock.fault = f /\ Remembers(mock) /\ (row.success => row.executed)
      /\ row.escalated /\ row.success => Covered
      /\ Job.kind # "baseline" => Kept(mock) /\ AllTame(plan.steps)
  BY <1>1 DEF ActInv, IInv, StageInv
<1>3. plan.steps \in Seq(Step) /\ step \in Step /\ row \in Rows /\ plan \in Plans
  BY <1>1, HeadTailProperties DEF IInv, TypeOK, Rows, Plans
<1>4. CASE row' = [row EXCEPT !.success = FALSE] /\ plan' = [plan EXCEPT !.steps = <<>>] /\ mock' = mock
  <2>1. ~row'.success /\ plan'.steps = <<>>
    BY <1>3, <1>4 DEF Rows, Plans
  <2> QED
    BY <1>1, <1>2, <1>4, <2>1, NothingFixes DEF ActInv, Stages
<1>5. CASE /\ ~Refused(step) /\ mock' = MockCall(mock, step)
           /\ plan' = [plan EXCEPT !.steps = Tail(@)] /\ row' = row
  <2>1. plan'.steps = Tail(plan.steps)
    BY <1>3, <1>5 DEF Plans
  <2>2. /\ mock' \in Mock /\ mock'.fault = f /\ mock.satisfied \subseteq mock'.satisfied
        /\ Remembers(mock') /\ Fixing(f, step) \subseteq mock'.satisfied
        /\ Tame(step) /\ Kept(mock) => Kept(mock')
    BY <1>2, <1>3, <1>5, CallIs
  <2>3. Covered => Covered'
    <3> DEFINE before == mock.satisfied \union FixedBy(f, plan.steps)
               after == mock'.satisfied \union FixedBy(f, Tail(plan.steps))
    <3>1. before \subseteq after
      <4>1. FixedBy(f, plan.steps) \subseteq Fixing(f, step) \union FixedBy(f, Tail(plan.steps))
        BY <1>1, <1>3, TailFixes
      <4> QED
        BY <2>2, <4>1
    <3>2. (Covered <=> steps_fix(f, before)) /\ (Covered' <=> steps_fix(f, after))
      BY <1>1, <2>1 DEF Covered
    <3> HIDE DEF before, after, f
    <3> QED
      BY <3>1, <3>2, MoreFixes
  <2>4. Job.kind # "baseline" => Kept(mock') /\ AllTame(plan'.steps)
    BY <1>1, <1>2, <1>3, <2>1, <2>2, TailTame
  <2> QED
    BY <1>1, <1>2, <1>5, <2>2, <2>3, <2>4 DEF ActInv, Stages
<1> QED
  BY <1>4, <1>5 DEF CallTool

\* The row of a mock world: the verdict is that it is fixed.
LEMMA ConcludeIsRight ==
  ASSUME IInv, ActInv, Conclude
  PROVE  OracleIsRight' /\ FixIsFinal'
<1>1. /\ at = "acting" /\ plan.steps = <<>> /\ mode' = mode /\ mock' = mock /\ Job' = Job
  BY DEF Conclude, Job
<1> SUFFICES ASSUME mode = "mock" PROVE OracleIsRight' /\ FixIsFinal'
  BY <1>1 DEF OracleIsRight, FixIsFinal
<1>2. PICK verified \in {FALSE, fixed(mock)} :
        /\ row' = Measured(verified) /\ (row.executed => verified = fixed(mock))
  BY DEF Conclude, Verdicts
<1>3. verified \in BOOLEAN /\ (verified => fixed(mock))
  BY <1>2 DEF fixed, steps_fix
<1>4. /\ row'.resolved = (row.success /\ verified) /\ row'.success = row.success
      /\ row'.escalated = row.escalated
  BY <1>2, <1>3, MeasuredIs DEF IInv
<1>5. /\ mock \in Mock /\ mock.fault = Job.fault /\ (row.success => row.executed)
      /\ row.escalated /\ row.success => Covered
      /\ Job.kind # "baseline" => Kept(mock)
  BY <1>1 DEF ActInv, IInv, StageInv
<1>6. row \in Rows
  BY DEF IInv, TypeOK, Rows
<1>7. OracleIsRight'
  <2> SUFFICES ASSUME row.escalated, row.success PROVE row'.resolved
    BY <1>4, <1>6 DEF OracleIsRight, Rows
  <2>1. steps_fix(Job.fault, mock.satisfied)
    <3>1. mock.satisfied \union FixedBy(Job.fault, plan.steps) = mock.satisfied
      BY <1>1, NothingFixes
    <3> QED
      BY <1>5, <3>1 DEF Covered
  <2>2. verified
    BY <1>2, <1>5, <2>1 DEF fixed
  <2> QED
    BY <1>4, <2>2
<1>8. FixIsFinal'
  <2> SUFFICES ASSUME Job.kind # "baseline", row'.resolved
               PROVE  mock.config["feature_mode"] = Known
    BY <1>1 DEF FixIsFinal, VALID_FEATURE_MODES
  <2>1. fixed(mock)
    BY <1>3, <1>4, <1>6 DEF Rows
  <2>2. mock.fault \in ConfigFaults => RollbackApp \in mock.satisfied
    BY <2>1 DEF fixed, steps_fix, REQUIRED_FIX_STEPS, ConfigFaults, PoolFaults
  <2> QED
    BY <1>5, <2>2 DEF Kept
<1> QED
  BY <1>7, <1>8

LEMMA RowInit == Init => RowInv
BY DEF Init, RowInv, ActInv, OracleIsRight, FixIsFinal, Stages

LEMMA RowNext == IInv /\ RowInv /\ [Next]_vars => RowInv'
<1> SUFFICES ASSUME IInv, RowInv, [Next]_vars PROVE RowInv'
  OBVIOUS
<1>0. ActInv /\ OracleIsRight /\ FixIsFinal
  BY DEF RowInv
<1>1. CASE mode # "mock"
  <2>1. mode' = mode
    BY DEF Next, Advance, OpenWorld, FailToOpen, StartScenario, FailGathering, AskModel, StartPlanning,
           FailSchema, FailClient, Gate, ApplyBaseline, CallTool, ActOnStack, Conclude, FailActing,
           Cleanup, AppendRow, Report, Ended, vars
  <2> QED
    BY <1>1, <2>1 DEF RowInv, ActInv, OracleIsRight, FixIsFinal
<1> SUFFICES ASSUME mode = "mock" PROVE RowInv'
  BY <1>1
<1>2. CASE OpenWorld
  BY <1>2 DEF OpenWorld, RowInv, ActInv, OracleIsRight, FixIsFinal, Stages, Job
<1>3. CASE StartScenario
  BY <1>0, <1>3 DEF StartScenario, RowInv, ActInv, OracleIsRight, FixIsFinal, Stages, Job
<1>4. CASE StartPlanning \/ AskModel
  BY <1>0, <1>4 DEF StartPlanning, AskModel, RowInv, ActInv, OracleIsRight, FixIsFinal, Stages, Job
<1>5. CASE FailSchema
  <2>1. at' = "cleanup" /\ ~row'.escalated /\ ~row'.resolved
    BY <1>5 DEF FailSchema, NoMetrics
  <2> QED
    BY <2>1 DEF RowInv, ActInv, OracleIsRight, FixIsFinal, Stages
<1>6. CASE Gate \/ ApplyBaseline
  <2>1. ActInv' /\ at' = "acting"
    BY <1>0, <1>6, GateActs, BaselineActs DEF Gate, ApplyBaseline
  <2> QED
    BY <2>1 DEF RowInv, OracleIsRight, FixIsFinal
<1>7. CASE CallTool
  <2>1. ActInv' /\ at' = "acting"
    BY <1>0, <1>7, CallActs DEF CallTool
  <2> QED
    BY <2>1 DEF RowInv, OracleIsRight, FixIsFinal
<1>8. CASE Conclude
  <2>1. OracleIsRight' /\ FixIsFinal' /\ at' = "cleanup"
    BY <1>0, <1>8, ConcludeIsRight DEF Conclude
  <2> QED
    BY <2>1 DEF RowInv, ActInv, Stages
<1>9. CASE FailToOpen \/ FailGathering \/ FailClient \/ FailActing \/ Cleanup \/ AppendRow \/ Report
  <2>1. at' \in {"aborted", "unwinding", "append", "next", "done"}
    BY <1>9 DEF FailToOpen, FailGathering, FailClient, FailActing, Cleanup, AppendRow, Report
  <2> QED
    BY <2>1 DEF RowInv, ActInv, OracleIsRight, FixIsFinal, Stages
<1>10. CASE ActOnStack
  BY <1>10 DEF ActOnStack
<1>11. CASE Ended \/ UNCHANGED vars
  BY <1>0, <1>11 DEF Ended, vars, budgetVars, RowInv, ActInv, OracleIsRight, FixIsFinal, Covered, Job
<1> QED
  BY <1>2, <1>3, <1>4, <1>5, <1>6, <1>7, <1>8, <1>9, <1>10, <1>11 DEF Next, Advance

LEMMA RowsHold == Spec => []RowInv
BY RowInit, RowNext, Invariance, PTL DEF Spec

\* Of any fault, any proposal that the ground truth approves (scoring.py,
\* GroundTruthApprover), and any of the plans it may come from: if the tools accept
\* its calls, the mock (mockenv.py) shows that it fixes the fault.
THEOREM OracleJudgesTheFix == Spec => []OracleIsRight
<1>1. RowInv => OracleIsRight
  BY DEF RowInv
<1> QED
  BY <1>1, RowsHold, PTL

\* A pipeline's row that says resolved is of a world whose mode is a valid one,
\* whatever the planner names: the mock's memory of a rollback is then true of its
\* config, because of the grounding (planner/remediation.py).
THEOREM PipelineFixesAreFinal == Spec => []FixIsFinal
<1>1. RowInv => FixIsFinal
  BY DEF RowInv
<1> QED
  BY <1>1, RowsHold, PTL

-----------------------------------------------------------------------------
(* Sums over a finite set.  An induction over the sizes of its subsets is  *)
(* an argument about the smallest one for which the claim fails.           *)

LEMMA SmallestOf ==
  ASSUME NEW T \in SUBSET Nat, T # {}
  PROVE  \E n \in T : \A k \in T : n <= k
<1>1. PICK x \in T : \A y \in T : ~(<<y, x>> \in OpToRel(<, Nat))
  BY NatLessThanWellFounded, WFMin
<1>2. OpToRel(<, Nat) = {ss \in Nat \X Nat : ss[1] < ss[2]}
  BY DEF OpToRel
<1>3. ASSUME NEW y \in T PROVE x <= y
  <2>1. ~(<<y, x>> \in {ss \in Nat \X Nat : ss[1] < ss[2]})
    BY <1>1, <1>2, Zenon
  <2>2. <<y, x>> \in Nat \X Nat
    OBVIOUS
  <2> QED
    BY <2>1, <2>2
<1> QED
  BY <1>3

Some(s) == CHOOSE x \in s : TRUE
Rest(s) == s \ {Some(s)}

\* h gives the sum of g over each subset of S, one element at a time.
Sums(g, S, h) == h = [s \in SUBSET S |-> IF s = {} THEN 0 ELSE g[Some(s)] + h[Rest(s)]]

LEMMA RestIsSmaller ==
  ASSUME NEW S, IsFiniteSet(S), NEW s \in SUBSET S, s # {}
  PROVE  /\ Some(s) \in s /\ Rest(s) \in SUBSET S
         /\ IsFiniteSet(s) /\ Cardinality(s) \in Nat /\ Cardinality(Rest(s)) \in Nat
         /\ Cardinality(Rest(s)) = Cardinality(s) - 1
<1>1. Some(s) \in s
  BY DEF Some
<1>2. IsFiniteSet(s) /\ Cardinality(s) \in Nat
  BY FS_Subset, FS_CardinalityType
<1>3. IsFiniteSet(Rest(s)) /\ Cardinality(Rest(s)) = Cardinality(s) - 1
  BY <1>1, <1>2, FS_RemoveElement DEF Rest
<1>4. Cardinality(Rest(s)) \in Nat
  BY <1>3, FS_CardinalityType
<1> QED
  BY <1>1, <1>2, <1>3, <1>4 DEF Rest

LEMMA SumsExist ==
  ASSUME NEW S, IsFiniteSet(S), NEW g
  PROVE  \E h : Sums(g, S, h)
<1> DEFINE Small(n) == {s \in SUBSET S : Cardinality(s) <= n}
           Body(h, s) == IF s = {} THEN 0 ELSE g[Some(s)] + h[Rest(s)]
           Part(n, h) == h = [s \in Small(n) |-> Body(h, s)]
           Missing == {n \in Nat : ~(\E h : Part(n, h))}
<1>1. \A s \in SUBSET S : Cardinality(s) \in Nat /\ (Cardinality(s) = 0 <=> s = {})
  BY FS_Subset, FS_CardinalityType, FS_EmptySet
<1>2. Missing = {}
  <2> SUFFICES ASSUME Missing # {} PROVE FALSE
    OBVIOUS
  <2>1. PICK n \in Missing : \A k \in Missing : n <= k
    <3>1. Missing \in SUBSET Nat
      OBVIOUS
    <3> HIDE DEF Missing
    <3> QED
      BY <3>1, SmallestOf
  <2>2. n \in Nat /\ ~(\E h : Part(n, h))
    OBVIOUS
  <2>3. CASE n = 0
    <3> DEFINE h == [s \in Small(0) |-> 0]
    <3>1. \A s \in Small(0) : s = {}
      BY <1>1
    <3>2. \A s \in Small(0) : Body(h, s) = 0
      BY <3>1
    <3>3. [s \in Small(0) |-> Body(h, s)] = [s \in Small(0) |-> 0]
      BY <3>2
    <3>4. Part(0, h)
      BY <3>3
    <3> QED
      BY <2>2, <2>3, <3>4
  <2>4. CASE n # 0
    <3>1. n - 1 \in Nat /\ n - 1 \notin Missing
      <4>1. n - 1 \in Nat /\ ~(n <= n - 1)
        BY <2>2, <2>4
      <4> HIDE DEF Missing
      <4> QED
        BY <2>1, <4>1
    <3>2. PICK h0 : Part(n - 1, h0)
      BY <3>1
    <3> DEFINE h == [s \in Small(n) |-> Body(h0, s)]
    <3>3. \A s \in Small(n - 1) : s \in Small(n) /\ h0[s] = Body(h0, s)
      BY <1>1, <2>2, <3>2
    <3>4. ASSUME NEW s \in Small(n) PROVE Body(h0, s) = Body(h, s)
      <4>1. CASE s = {}
        BY <4>1
      <4>2. CASE s # {}
        <5>1. Rest(s) \in Small(n - 1)
          BY <2>2, <4>2, RestIsSmaller
        <5>2. h[Rest(s)] = h0[Rest(s)]
          BY <3>3, <5>1
        <5> QED
          BY <4>2, <5>2
      <4> QED
        BY <4>1, <4>2
    <3>5. [s \in Small(n) |-> Body(h0, s)] = [s \in Small(n) |-> Body(h, s)]
      BY <3>4
    <3>6. Part(n, h)
      BY <3>5
    <3> QED
      BY <2>2, <3>6
  <2> QED
    BY <2>3, <2>4
<1>3. Cardinality(S) \in Nat
  BY FS_CardinalityType
<1>4. PICK h : Part(Cardinality(S), h)
  BY <1>2, <1>3
<1>5. Small(Cardinality(S)) = SUBSET S
  BY FS_Subset
<1>6. Sums(g, S, h)
  BY <1>4, <1>5 DEF Sums
<1> QED
  BY <1>6

\* When one term grows by k, so does the sum.
LEMMA SumsMove ==
  ASSUME NEW S, IsFiniteSet(S), NEW g \in [S -> Int], NEW g2 \in [S -> Int],
         NEW h, NEW h2, Sums(g, S, h), Sums(g2, S, h2),
         NEW m \in S, NEW k \in Int, g2[m] = g[m] + k, \A x \in S \ {m} : g2[x] = g[x]
  PROVE  h[S] \in Int /\ h2[S] = h[S] + k
<1> DEFINE Right(s) == h[s] \in Int /\ h2[s] = h[s] + (IF m \in s THEN k ELSE 0)
           Wrong == {Cardinality(s) : s \in {s \in SUBSET S : ~Right(s)}}
<1>1. \A s \in SUBSET S : Cardinality(s) \in Nat
  BY FS_Subset, FS_CardinalityType
<1>2. /\ \A s \in SUBSET S : h[s] = IF s = {} THEN 0 ELSE g[Some(s)] + h[Rest(s)]
      /\ \A s \in SUBSET S : h2[s] = IF s = {} THEN 0 ELSE g2[Some(s)] + h2[Rest(s)]
  BY DEF Sums
<1>3. Wrong = {}
  <2> SUFFICES ASSUME Wrong # {} PROVE FALSE
    OBVIOUS
  <2>1. PICK n \in Wrong : \A i \in Wrong : n <= i
    <3>1. Wrong \in SUBSET Nat
      BY <1>1
    <3> HIDE DEF Wrong
    <3> QED
      BY <3>1, SmallestOf
  <2>2. PICK s \in SUBSET S : ~Right(s) /\ n = Cardinality(s)
    OBVIOUS
  <2>3. CASE s = {}
    <3>1. h[s] = 0 /\ h2[s] = 0 /\ m \notin s
      BY <1>2, <2>3
    <3> QED
      BY <2>2, <3>1
  <2>4. CASE s # {}
    <3>1. /\ Some(s) \in s /\ Rest(s) \in SUBSET S /\ Cardinality(s) \in Nat
          /\ Cardinality(Rest(s)) = Cardinality(s) - 1
      BY <2>4, RestIsSmaller
    <3>2. Right(Rest(s))
      <4> SUFFICES ASSUME ~Right(Rest(s)) PROVE FALSE
        OBVIOUS
      <4>1. Cardinality(Rest(s)) \in Wrong
        BY <3>1
      <4>2. Cardinality(s) <= Cardinality(Rest(s))
        BY <2>1, <2>2, <4>1
      <4> QED
        BY <3>1, <4>2
    <3>3. /\ h[s] = g[Some(s)] + h[Rest(s)] /\ h2[s] = g2[Some(s)] + h2[Rest(s)]
          /\ g[Some(s)] \in Int /\ g2[Some(s)] \in Int
      BY <1>2, <2>4, <3>1
    <3>4. CASE Some(s) = m
      <4>1. m \in s /\ m \notin Rest(s)
        BY <3>1, <3>4 DEF Rest
      <4> QED
        BY <2>2, <3>2, <3>3, <3>4, <4>1
    <3>5. CASE Some(s) # m
      <4>1. (m \in s <=> m \in Rest(s)) /\ g2[Some(s)] = g[Some(s)]
        BY <3>1, <3>5 DEF Rest
      <4> QED
        BY <2>2, <3>2, <3>3, <4>1
    <3> QED
      BY <3>4, <3>5
  <2> QED
    BY <2>3, <2>4
<1>4. Right(S)
  BY <1>3
<1> QED
  BY <1>4

\* A sum of zeros.
LEMMA SumsOfNothing ==
  ASSUME NEW S, IsFiniteSet(S), NEW g, NEW h, Sums(g, S, h), \A x \in S : g[x] = 0
  PROVE  h[S] = 0
<1> DEFINE Wrong == {Cardinality(s) : s \in {s \in SUBSET S : h[s] # 0}}
<1>1. \A s \in SUBSET S : Cardinality(s) \in Nat
  BY FS_Subset, FS_CardinalityType
<1>2. \A s \in SUBSET S : h[s] = IF s = {} THEN 0 ELSE g[Some(s)] + h[Rest(s)]
  BY DEF Sums
<1>3. Wrong = {}
  <2> SUFFICES ASSUME Wrong # {} PROVE FALSE
    OBVIOUS
  <2>1. PICK n \in Wrong : \A i \in Wrong : n <= i
    <3>1. Wrong \in SUBSET Nat
      BY <1>1
    <3> HIDE DEF Wrong
    <3> QED
      BY <3>1, SmallestOf
  <2>2. PICK s \in SUBSET S : h[s] # 0 /\ n = Cardinality(s)
    OBVIOUS
  <2>3. s # {}
    BY <1>2, <2>2
  <2>4. /\ Some(s) \in s /\ Rest(s) \in SUBSET S /\ Cardinality(s) \in Nat
        /\ Cardinality(Rest(s)) = Cardinality(s) - 1
    BY <2>3, RestIsSmaller
  <2>5. h[Rest(s)] # 0
    BY <1>2, <2>2, <2>3, <2>4
  <2>6. Cardinality(Rest(s)) \in Wrong
    BY <2>4, <2>5
  <2>7. Cardinality(s) <= Cardinality(Rest(s))
    BY <2>1, <2>2, <2>6
  <2> QED
    BY <2>4, <2>7
<1> QED
  BY <1>3

-----------------------------------------------------------------------------
(* The meter's sum. *)

Drawn == [m \in Models |-> meter[m].free + meter[m].voucher]

MeteredIsTheSum == \E h : Sums(Drawn, Models, h) /\ Metered = h[Models]

LEMMA MeterSums == MeteredIsTheSum
<1> DEFINE Term(s) == meter[CHOOSE x \in s : TRUE].free + meter[CHOOSE x \in s : TRUE].voucher
           Rec(h) == h = [s \in SUBSET Models |->
                            IF s = {} THEN 0 ELSE Term(s) + h[s \ {CHOOSE x \in s : TRUE}]]
           it == CHOOSE h : Rec(h)
<1>1. Metered = it[Models]
  BY DEF Metered, MapThenSumSet, MapThenFoldSet
<1>2. IsFiniteSet(Models)
  BY BenchmarkAssumption
<1>3. PICK h : Sums(Drawn, Models, h)
  BY <1>2, SumsExist
<1>4. \A s \in SUBSET Models : s # {} => Drawn[Some(s)] = Term(s)
  BY <1>2, RestIsSmaller DEF Drawn, Some
<1> HIDE DEF Term
<1>5. ASSUME NEW f PROVE Sums(Drawn, Models, f) <=> Rec(f)
  <2>1. \A s \in SUBSET Models :
          (IF s = {} THEN 0 ELSE Drawn[Some(s)] + f[Rest(s)])
            = (IF s = {} THEN 0 ELSE Term(s) + f[s \ {CHOOSE x \in s : TRUE}])
    BY <1>4 DEF Rest, Some
  <2> QED
    BY <2>1 DEF Sums
<1>6. Rec(h)
  BY <1>3, <1>5
<1> HIDE DEF Rec
<1>7. Rec(it)
  BY <1>6
<1> HIDE DEF it
<1>8. Sums(Drawn, Models, it)
  BY <1>5, <1>7
<1> QED
  BY <1>1, <1>8 DEF MeteredIsTheSum

LEMMA MeterSumsNext == MeteredIsTheSum'
BY MeterSums, PTL

LEMMA DrawAdds ==
  ASSUME NEW account \in Account, NEW n \in Nat
  PROVE  LET after == Draw(account, n)
         IN  after.free + after.voucher = account.free + account.voucher + n
BY DEF Draw, Account, Lesser

MeterInv == BudgetTypeOK /\ Metered = spent

LEMMA MeterInit == BudgetInit => MeterInv
<1> SUFFICES ASSUME BudgetInit PROVE MeterInv
  OBVIOUS
<1>1. BudgetTypeOK /\ spent = 0
  BY BudgetInitInv DEF BudgetInv, BudgetInit
<1>2. ASSUME NEW m \in Models PROVE Drawn[m] = 0
  <2>1. meter[m] = [remaining |-> FreeTier[m], free |-> 0, voucher |-> 0]
    BY DEF BudgetInit
  <2>2. meter[m].free = 0 /\ meter[m].voucher = 0
    BY <2>1
  <2> QED
    BY <2>2 DEF Drawn
<1>3. PICK h : Sums(Drawn, Models, h) /\ Metered = h[Models]
  BY MeterSums DEF MeteredIsTheSum
<1>4. h[Models] = 0
  BY <1>2, <1>3, BenchmarkAssumption, SumsOfNothing
<1> QED
  BY <1>1, <1>3, <1>4 DEF MeterInv

LEMMA MeterNext == BudgetInv /\ MeterInv /\ [BudgetNext]_budgetVars => MeterInv'
<1> SUFFICES ASSUME BudgetInv, MeterInv, [BudgetNext]_budgetVars PROVE MeterInv'
  OBVIOUS
<1>1. BudgetTypeOK'
  BY BudgetNextInv DEF BudgetInv
<1>2. CASE UNCHANGED <<meter, spent>>
  <2>1. Metered' = Metered
    BY <1>2 DEF Metered, MapThenSumSet, MapThenFoldSet
  <2> QED
    BY <1>1, <1>2, <2>1 DEF MeterInv
<1>3. ASSUME NEW n \in CallTokens, NEW valid \in BOOLEAN, Reply(n, valid)
      PROVE  MeterInv'
  <2>1. /\ n \in Nat /\ n \in Int /\ meter \in [Models -> Account] /\ task.model \in Models
        /\ spent \in Nat /\ Metered = spent /\ IsFiniteSet(Models)
    BY BudgetAssumption, BenchmarkAssumption DEF CallTokens, MeterInv, BudgetTypeOK, Task
  <2>2. meter' = [meter EXCEPT ![task.model] = Draw(meter[task.model], n)] /\ spent' = spent + n
    BY <1>3 DEF Reply, Record
  <2>3. meter' \in [Models -> Account]
    BY <1>1 DEF BudgetTypeOK
  <2>4. Drawn \in [Models -> Int] /\ Drawn' \in [Models -> Int]
    BY <2>1, <2>3 DEF Drawn, Account
  <2>5. \A x \in Models \ {task.model} : Drawn'[x] = Drawn[x]
    BY <2>1, <2>2 DEF Drawn
  <2>6. Drawn'[task.model] = Drawn[task.model] + n
    <3> DEFINE account == meter[task.model]
    <3>1. account \in Account
      BY <2>1
    <3>2. Draw(account, n).free + Draw(account, n).voucher = account.free + account.voucher + n
      BY <2>1, <3>1, DrawAdds
    <3>3. meter'[task.model] = Draw(account, n)
      BY <2>1, <2>2
    <3> QED
      BY <2>1, <3>2, <3>3 DEF Drawn
  <2>7. PICK h : Sums(Drawn, Models, h) /\ Metered = h[Models]
    BY MeterSums DEF MeteredIsTheSum
  <2>8. PICK h2 : Sums(Drawn', Models, h2) /\ Metered' = h2[Models]
    BY MeterSumsNext DEF MeteredIsTheSum
  <2>9. h2[Models] = h[Models] + n
    BY <2>1, <2>4, <2>5, <2>6, <2>7, <2>8, SumsMove
  <2> QED
    BY <1>1, <2>1, <2>2, <2>7, <2>8, <2>9 DEF MeterInv
<1> QED
  BY <1>2, <1>3 DEF BudgetNext, Ask, Refuse, FailCall, StartTask, budgetVars

LEMMA MeterHolds == Spec => []MeterInv
<1>1. BudgetSpec => []MeterInv
  BY MeterInit, MeterNext, BudgetInvariant, PTL DEF BudgetSpec
<1> QED
  BY <1>1, ClientIsAClient, PTL

\* Between scenarios and in the report, the rows' tokens and all models' metered
\* tokens are what the client spent (benchmark/runner.py, llm/cost.py): whatever
\* fails, no scenario pays for another and no model's tokens are forgotten.
THEOREM SpendingIsAttributed == Spec => []SpendIsAttributed
<1>1. IInv /\ MeterInv => SpendIsAttributed
  BY DEF IInv, SpendInv, MeterInv, SpendIsAttributed
<1> QED
  BY <1>1, Invariance, MeterHolds, PTL

==============================================================================
