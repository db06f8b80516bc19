----------------------------- MODULE MockSandbox -----------------------------
(***************************************************************************)
(* The benchmark's offline stand-in for the stack: it remembers which of   *)
(* the fixing steps it has seen, and shows the fault's synthetic capture   *)
(* until they cover one alternative of the ground truth.                   *)
(***************************************************************************)
EXTENDS Sandbox

FaultIds == {"db_pool_exhaustion", "bad_config_rollout", "downstream_timeout",
             "queue_consumer_stall", "expired_credential",
             "config_rollout_worker_wedge", "db_outage_ambiguous",
             "worker_scaled_to_zero"}

PoolFaults == {"db_pool_exhaustion", "db_outage_ambiguous"}
ConfigFaults == {"bad_config_rollout", "config_rollout_worker_wedge"}

Mock == [fault : FaultIds, config : Configs,
         satisfied : SUBSET ({"restart_service", "scale_service", "rollback"} \X Services)]

RollbackApp == <<"rollback", "app">>

\* Per fault its alternatives, each a set of steps that must all be applied.
REQUIRED_FIX_STEPS(fault) ==
  CASE fault \in PoolFaults -> {{<<"restart_service", "db">>}}
    [] fault = "bad_config_rollout" -> {{RollbackApp}}
    [] fault = "downstream_timeout" -> {{<<"restart_service", "downstream">>}}
    [] fault = "queue_consumer_stall" -> {{<<"restart_service", "worker">>}}
    [] fault = "expired_credential" -> {}
    [] fault = "config_rollout_worker_wedge" ->
         {{RollbackApp, <<"restart_service", "worker">>}}
    [] fault = "worker_scaled_to_zero" -> {{<<"scale_service", "worker">>}}

\* The fixing steps that a call counts as: at most one.
FixingSteps(fault, action, target, arg) ==
  LET candidate == IF action = "apply_config"
                   THEN {s \in {RollbackApp} : "feature_mode" \in DOMAIN arg /\ arg["feature_mode"] = Known}
                   ELSE IF action = "scale_service"
                        THEN {<<action, target>> : n \in {arg} \ {0, NoArg}}
                   ELSE {<<action, target>>}
  IN  candidate \intersect UNION REQUIRED_FIX_STEPS(fault)

\* Seeded fault: any one step of an alternative is enough.
AnyStepFixes(fault, applied) ==
  \E alt \in REQUIRED_FIX_STEPS(fault) : alt \intersect applied # {}

steps_fix(fault, applied) == \E alt \in REQUIRED_FIX_STEPS(fault) : alt \subseteq applied

Fixing(fault, step) == FixingSteps(fault, step.action, step.target, step.arg)

\* Seeded fault: a proposal fixes what one of its steps helps against.
StepsHelp(fault, steps) == \E i \in DOMAIN steps : Fixing(fault, steps[i]) # {}

\* The steps of a proposal, applied together.
proposal_fixes(fault, steps) ==
  steps_fix(fault, UNION {Fixing(fault, steps[i]) : i \in DOMAIN steps})

-----------------------------------------------------------------------------

NewMock(fault) ==
  [fault |-> fault, satisfied |-> {},
   config |-> IF fault \in ConfigFaults THEN BadConfig ELSE Canonical]

fixed(m) == steps_fix(m.fault, m.satisfied)

Mark(m, action, target, arg) ==
  [m EXCEPT !.satisfied = @ \union FixingSteps(m.fault, action, target, arg)]

\* The config tools write only what differs; what counts is the mode of the whole
\* config that they write.  Every other call just counts.
MockWrite(m, config) ==
  IF config = m.config THEN m
  ELSE Mark([m EXCEPT !.config = config], "apply_config", "app", config)

MockCall(m, step) ==
  CASE step.action \in {"restart_service", "scale_service"} ->
         Mark(m, step.action, step.target, step.arg)
    [] step.action = "apply_config" ->
         IF DOMAIN step.arg \subseteq ConfigKeys THEN MockWrite(m, Patched(m.config, step.arg)) ELSE m
    [] step.action = "rollback" -> MockWrite(m, Canonical)

-----------------------------------------------------------------------------

Snapshot(healthz, work, metrics) == [healthz |-> healthz, work |-> work, metrics |-> metrics]

\* The i-th snapshot of the capture, its trend continued past its end.
SyntheticSnap(fault, i) ==
  CASE fault \in PoolFaults \union {"expired_credential"} ->
         Snapshot({"db"}, "db_error", NoAnswer)
    [] fault = "bad_config_rollout" -> Snapshot({}, "feature_mode", NoAnswer)
    [] fault = "downstream_timeout" -> Snapshot({}, "downstream_timeout", NoAnswer)
    [] fault = "queue_consumer_stall" ->
         Snapshot({}, "done", [depth |-> 2 + 3 * i, done |-> 37])
    [] fault = "config_rollout_worker_wedge" ->
         Snapshot({}, "feature_mode", [depth |-> 12, done |-> 37])
    [] fault = "worker_scaled_to_zero" ->
         Snapshot({}, "done", [depth |-> 3 + 4 * i, done |-> 52])

\* Fixed it is healthy; rolled back, the wedge still keeps its backlog.
MockProbe(m, i) ==
  IF fixed(m) THEN Snapshot({}, "done", [depth |-> 0, done |-> 0])
  ELSE IF m.fault = "config_rollout_worker_wedge" /\ RollbackApp \in m.satisfied
  THEN Snapshot({}, "done", [depth |-> 12, done |-> 37])
  ELSE SyntheticSnap(m.fault, i)

=============================================================================
