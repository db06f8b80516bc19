-------------------------- MODULE SupervisedAction --------------------------
(***************************************************************************)
(* What an operator is promised by one agent run, whatever happens inside  *)
(* it.  The agent first only observes.  It touches the world only once it  *)
(* has consent, given before the first touch and never withdrawn.  It ends *)
(* by making one claim, which it never changes; if it claims the incident  *)
(* resolved, the world is then sound and the agent leaves it alone.        *)
(***************************************************************************)
CONSTANTS
  Worlds,   \* what the world can be
  Sound     \* the worlds that can be healthy

VARIABLES mode, consent, world, claim

vars == <<mode, consent, world, claim>>

Init ==
  /\ mode = "deciding"
  /\ consent = FALSE
  /\ world \in Worlds
  /\ claim = "open"

\* Consent is given, by policy or by a human.
Consent ==
  /\ mode = "deciding"
  /\ mode' = "acting"
  /\ consent' = TRUE
  /\ UNCHANGED <<world, claim>>

\* No diagnosis, no plan, or a human's refusal.
Decline ==
  /\ mode = "deciding"
  /\ mode' = "closed"
  /\ claim' = "unresolved"
  /\ UNCHANGED <<consent, world>>

Touch ==
  /\ mode \in {"acting", "undoing"}
  /\ consent
  /\ world' \in Worlds
  /\ UNCHANGED <<consent, claim>>
  /\ mode' \in IF mode = "undoing" THEN {"undoing", "closed"} ELSE {mode}

ClaimResolved ==
  /\ mode = "acting"
  /\ world \in Sound
  /\ mode' = "closed"
  /\ claim' = "resolved"
  /\ UNCHANGED <<consent, world>>

GiveUp ==
  /\ mode = "acting"
  /\ mode' \in {"undoing", "closed"}
  /\ claim' = "unresolved"
  /\ UNCHANGED <<consent, world>>

Next == Consent \/ Decline \/ Touch \/ ClaimResolved \/ GiveUp

Spec == Init /\ [][Next]_vars

=============================================================================
