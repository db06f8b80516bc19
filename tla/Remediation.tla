---------------------------- MODULE Remediation ----------------------------
(***************************************************************************)
(* The planner's pure part: grounding of the model's plan, its conversion  *)
(* to a proposal, the server-side destructive classification, and the      *)
(* reasons for which the HITL gate escalates a proposal.                   *)
(*                                                                         *)
(* Risk and confidence are percentages.  An app config is a function from  *)
(* its keys, and of a value it only matters whether it is the key's value  *)
(* in config.default.json.                                                 *)
(***************************************************************************)
EXTENDS Naturals, Sequences

CONSTANTS
  Services,             \* the compose services of the sandbox
  Values,               \* config values that a plan or a fault can name
  Known,                \* a key's value in config.default.json
  Replicas,             \* replica counts that a scale step can name
  NoArg,                \* the params of a step whose tool takes none, or that has none
  ConfidenceThreshold,
  RiskThreshold,
  RiskFloor

ASSUME VocabularyAssumption ==
  /\ "app" \in Services
  /\ Known \in Values
  /\ NoArg \notin Replicas \union 0..3
  /\ Replicas \subseteq Nat

ASSUME ThresholdAssumption ==
  /\ ConfidenceThreshold \in 0..100
  /\ RiskThreshold \in 0..100
  /\ RiskFloor \in (RiskThreshold + 1)..100

ConfigKeys == {"feature_mode", "downstream_url", "downstream_timeout_s"}

Configs == [ConfigKeys -> Values]

Canonical == [key \in ConfigKeys |-> Known]

\* The keys that a plan names; "other" is one that the schema forbids.
Patches == UNION {[keys -> Values] : keys \in SUBSET (ConfigKeys \union {"other"})}

\* A step names an action of the closed vocabulary, a service, and the one
\* param the action reads.
Step ==
       [action : {"restart_service", "rollback"}, target : Services, arg : {NoArg}]
  \union [action : {"scale_service"}, target : Services, arg : Replicas \union {NoArg}]
  \union [action : {"apply_config"}, target : Services, arg : Patches]

\* The planner's structured output (schema _LLMPlan).
LLMPlan == [steps : Seq(Step), rollback : Seq(Step), risk : 0..100,
            confidence : 0..100, escalate : BOOLEAN]

Proposal == [steps : Seq(Step), rollback : Seq(Step), risk : 0..100,
             confidence : 0..100, escalate : BOOLEAN,
             requires_approval : BOOLEAN]

-----------------------------------------------------------------------------

DESTRUCTIVE_ACTIONS == {"scale_service", "apply_config"}

VALID_FEATURE_MODES == {Known}

IsDestructive(s) == s.action \in DESTRUCTIVE_ACTIONS

\* Seeded fault: the planner's config values are passed through.
UngroundedStep(s) == s

\* An apply_config naming a mode that the app rejects becomes a rollback; the
\* other keys of a patch are not looked at.
GroundStep(s) ==
  IF /\ s.action = "apply_config"
     /\ "feature_mode" \in DOMAIN s.arg
     /\ s.arg["feature_mode"] \notin VALID_FEATURE_MODES
  THEN [action |-> "rollback", target |-> "app", arg |-> NoArg]
  ELSE s

\* Config actions have a fixed target, whatever the model named.
ToStep(s) ==
  IF s.action \in {"apply_config", "rollback"} THEN [s EXCEPT !.target = "app"] ELSE s

DestructiveSteps(steps) == {i \in DOMAIN steps : IsDestructive(steps[i])}

\* Only the main steps are grounded; only they raise the risk.
ProposalOf(plan) ==
  LET grounded == [i \in DOMAIN plan.steps |-> GroundStep(plan.steps[i])]
      declined == plan.escalate \/ plan.steps = <<>>
      risky    == DestructiveSteps(grounded) # {} /\ plan.risk < RiskFloor
  IN  [steps |-> IF declined THEN <<>>
                 ELSE [i \in DOMAIN grounded |-> ToStep(grounded[i])],
       rollback |-> [i \in DOMAIN plan.rollback |-> ToStep(plan.rollback[i])],
       risk |-> IF risky THEN RiskFloor ELSE plan.risk,
       confidence |-> plan.confidence,
       escalate |-> declined,
       requires_approval |-> TRUE]

-----------------------------------------------------------------------------

\* Seeded fault: the gate does not look at the confidence in the remediation.
ReasonsButConfidence(p) ==
     {r \in {"declined"}    : p.escalate}
  \union {r \in {"destructive"} : DestructiveSteps(p.steps) # {}}
  \union {r \in {"risk"}        : p.risk > RiskThreshold}

EscalationReasons(p) ==
     {r \in {"declined"}    : p.escalate}
  \union {r \in {"destructive"} : DestructiveSteps(p.steps) # {}}
  \union {r \in {"confidence"}  : p.confidence < ConfidenceThreshold}
  \union {r \in {"risk"}        : p.risk > RiskThreshold}

=============================================================================
