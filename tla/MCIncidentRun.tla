---------------------------- MODULE MCIncidentRun ----------------------------
(***************************************************************************)
(* Instances of IncidentRun for TLC: four services of the compose file,    *)
(* one known-good and one other value per config key, plans of at most two *)
(* steps.                                                                  *)
(***************************************************************************)
EXTENDS IncidentRun, SequencesExt

CONSTANT Made       \* a value that the planner makes up, or a fault rolls out

MCDependsOn == [s \in Services |-> IF s = "queue" THEN {} ELSE {"queue"}]

St(action, target, arg) == [action |-> action, target |-> target, arg |-> arg]

RestartApp == St("restart_service", "app", NoArg)
RestartWorker == St("restart_service", "worker", NoArg)
ScaleWorker(n) == St("scale_service", "worker", n)
ApplyPatch(patch) == St("apply_config", "worker", patch)
Apply_(mode) == ApplyPatch([feature_mode |-> mode])
RollBack == St("rollback", "app", NoArg)

\* A valid mode beside a made-up url, a made-up timeout alone, and a key that the
\* schema refuses.
Redirect == ApplyPatch([feature_mode |-> Known, downstream_url |-> Made])
Hurry == ApplyPatch([downstream_timeout_s |-> Made])
Refused == ApplyPatch([feature_mode |-> Known, other |-> Made])

Steps == {RestartApp, RestartWorker, ScaleWorker(0), ScaleWorker(1), ScaleWorker(2),
          ScaleWorker(4), ScaleWorker(NoArg), Apply_(Made), Apply_(Known), Redirect,
          Hurry, Refused, RollBack}

RollbackPlans == {<<>>, <<RollBack>>, <<Apply_(Made)>>, <<ScaleWorker(0)>>,
                  <<RollBack, ScaleWorker(1)>>}

LLM(steps, rollback, risk, confidence, escalate) ==
  [steps |-> steps, rollback |-> rollback, risk |-> risk,
   confidence |-> confidence, escalate |-> escalate]

\* Plans of two steps at the thresholds; the others differ in the gate's answer
\* only, and are shorter.
MCPlans ==
  {LLM(s, r, 40, 75, FALSE) : s \in BoundedSeq(Steps, 2), r \in RollbackPlans}
    \union
  {LLM(s, r, g[1], g[2], g[3]) :
     s \in BoundedSeq(Steps, 1), r \in RollbackPlans,
     g \in {<<41, 75, FALSE>>, <<40, 74, FALSE>>, <<40, 75, TRUE>>}}

MCEditedPlans == {<<>>, <<Apply_(Made)>>, <<RestartWorker, RollBack>>}

\* A bad rollout, a worker scaled to zero, or a fault outside Stack.
MCInitialStacks ==
  LET rolledOut == [Canonical EXCEPT !["feature_mode"] = Made]
  IN  {[file |-> c, loaded |-> c, up |-> Services] : c \in {Canonical, rolledOut}} \union
      {[file |-> Canonical, loaded |-> Canonical, up |-> Services \ {"worker"}]}

=============================================================================
