------------------------------ MODULE RunManager ------------------------------
(***************************************************************************)
(* One run behind the web API: the worker thread that drives the pipeline  *)
(* and publishes to a RunState, the operators who answer its gate, and     *)
(* the event streams.                                                      *)
(*                                                                         *)
(* A step is what one thread does between two points where another can get *)
(* in: a block under the lock, or one attribute access outside of it.  The *)
(* pipeline's stages are atomic here; IncidentRun has their inside.  What  *)
(* they do to the mock world is any change, and the verifier passes only a *)
(* sound world.                                                            *)
(***************************************************************************)
EXTENDS Naturals, Sequences

CONSTANTS
  Operators,    \* those who post decisions
  Streams,      \* event-stream connections
  Worlds,       \* what the mock world can be
  Sound         \* the worlds that can be healthy

ASSUME WorldsAssumption == Sound \subseteq Worlds

VARIABLES
  pc,         \* where the worker is in _drive
  run,        \* the observable attributes of RunState
  decision,   \* _decision, with the operator it came from
  signalled,  \* _decision_event
  local,      \* the worker's locals
  world,      \* the mock world
  origin,     \* history: the world before the run
  operator,   \* each operator's request
  stream      \* each stream: last_rev, last snapshot sent, state

workerVars == <<pc, local, world>>
slotVars == <<decision, signalled>>
clientVars == <<operator, stream>>
vars == <<workerVars, run, slotVars, origin, clientVars>>

TERMINAL == {"resolved", "rolled_back", "rejected", "failed"}

Actions == {"approve", "edit", "reject"}

NoDecision == [by |-> "nobody", action |-> "none"]

Decisions == [by : Operators, action : Actions] \union {NoDecision}

Observable(r) == [r EXCEPT !.revision = 0]

Init ==
  /\ pc = "ingest"
  /\ run = [status |-> "running", approval |-> FALSE, escalated |-> FALSE,
            resolved |-> FALSE, rolled_back |-> FALSE, top |-> "none",
            events |-> <<>>, revision |-> 0]
  /\ decision = NoDecision
  /\ signalled = FALSE
  /\ local = [escalates |-> FALSE, rollback_plan |-> FALSE, decision |-> NoDecision,
              executed |-> FALSE, resolved |-> FALSE]
  /\ world \in Worlds
  /\ origin = world
  /\ operator = [o \in Operators |-> [at |-> "idle", action |-> "none"]]
  /\ stream = [s \in Streams |-> [at |-> "absent", sent |-> Observable(run), last_rev |-> 0]]

-----------------------------------------------------------------------------
(* The worker's publications. *)

Publish(r) == run' = [r EXCEPT !.revision = @ + 1]

\* Seeded fault: whatever the operator said, the worker goes on.
ApprovedRegardless == TRUE

Approved == local.escalates => local.decision.action # "reject"

\* Each emit of _drive and of the approver: the stage it tells of, and where
\* the worker goes on.
Emission ==
  [ingest      |-> <<"ingest", "triage">>,
   diagnosed   |-> <<"triage", "plan">>,
   planned     |-> <<"remediation", "gate">>,
   auto        |-> <<"gate", "execute">>,
   asked       |-> <<"gate", "wait">>,
   answered    |-> <<"gate", IF Approved THEN "execute" ELSE "declined">>,
   declined    |-> <<"outcome", "rejected">>,
   executed    |-> <<"execution", "verify">>,
   verified    |-> <<"verification", "judge">>,
   reverted    |-> <<"rollback", "conclude">>,
   succeeded   |-> <<"outcome", "resolved">>,
   no_triage   |-> <<"triage", "failed">>,
   no_plan     |-> <<"remediation", "failed">>,
   crashed     |-> <<"outcome", "failed">>]

Emit ==
  /\ pc \in DOMAIN Emission
  /\ Publish([run EXCEPT !.events = Append(@, Emission[pc][1])])
  /\ pc' = Emission[pc][2]
  /\ UNCHANGED <<local, world, slotVars, origin, clientVars>>

\* set_status, with which _drive and _worker end.
SetStatus ==
  /\ pc \in TERMINAL
  /\ Publish([run EXCEPT !.status = pc])
  /\ pc' = "end"
  /\ UNCHANGED <<local, world, slotVars, origin, clientVars>>

-----------------------------------------------------------------------------
(* The worker's stages. *)

\* Any stage can raise; _worker turns that into a failed run.
Raise == pc' = "crashed" /\ UNCHANGED <<local, world>>

RunTriage ==
  /\ pc = "triage"
  /\ \/ pc' \in {"cause", "no_triage"} /\ UNCHANGED <<local, world>>
     \/ Raise
  /\ UNCHANGED <<run, slotVars, origin, clientVars>>

\* run.top_cause and run.top_confidence, outside the lock.
NoteTop ==
  /\ pc \in {"cause", "confidence"}
  /\ run' = [run EXCEPT !.top = pc]
  /\ pc' = IF pc = "cause" THEN "confidence" ELSE "diagnosed"
  /\ UNCHANGED <<local, world, slotVars, origin, clientVars>>

PlanRemediation ==
  /\ pc = "plan"
  /\ \/ /\ \E escalates, rollback_plan \in BOOLEAN :
             local' = [local EXCEPT !.escalates = escalates, !.rollback_plan = rollback_plan]
        /\ pc' = "planned"
        /\ UNCHANGED world
     \/ pc' = "no_plan" /\ UNCHANGED <<local, world>>
     \/ Raise
  /\ UNCHANGED <<run, slotVars, origin, clientVars>>

AutoApprove ==
  /\ pc = "gate"
  /\ ~local.escalates
  /\ pc' = "auto"
  /\ UNCHANGED <<local, world, run, slotVars, origin, clientVars>>

OpenGate ==
  /\ pc = "gate"
  /\ local.escalates
  /\ Publish([run EXCEPT !.approval = TRUE, !.status = "awaiting_approval", !.escalated = TRUE])
  /\ pc' = "asked"
  /\ UNCHANGED <<local, world, slotVars, origin, clientVars>>

\* Seeded fault: the event is cleared before the wait.
ClearAndWait ==
  /\ pc \in {"wait", "waiting"}
  /\ signalled' = (signalled /\ pc = "waiting")
  /\ IF signalled' THEN pc' = "close" /\ local' = [local EXCEPT !.decision = decision]
     ELSE pc' = "waiting" /\ UNCHANGED local
  /\ UNCHANGED <<world, run, decision, origin, clientVars>>

\* Seeded fault: the wait times out, and silence is approval.
WaitOrApprove ==
  /\ pc = "wait"
  /\ local' = [local EXCEPT !.decision =
                IF signalled THEN decision ELSE [by |-> "nobody", action |-> "approve"]]
  /\ pc' = "close"
  /\ UNCHANGED <<world, run, slotVars, origin, clientVars>>

WaitForDecision ==
  /\ pc = "wait"
  /\ signalled
  /\ local' = [local EXCEPT !.decision = decision]
  /\ pc' = "close"
  /\ UNCHANGED <<world, run, slotVars, origin, clientVars>>

CloseGate ==
  /\ pc = "close"
  /\ Publish([run EXCEPT !.approval = FALSE, !.status = "running"])
  /\ pc' = "answered"
  /\ UNCHANGED <<local, world, slotVars, origin, clientVars>>

\* execute() may change the world before it returns or raises.
Execute ==
  /\ pc = "execute"
  /\ world' \in Worlds
  /\ \/ pc' = "executed" /\ \E ok \in BOOLEAN : local' = [local EXCEPT !.executed = ok]
     \/ pc' = "crashed" /\ UNCHANGED local
  /\ UNCHANGED <<run, slotVars, origin, clientVars>>

\* Seeded fault: the verifier's word is enough.
VerifyAlone ==
  /\ pc = "verify"
  /\ \/ /\ \E passed \in (IF world \in Sound THEN BOOLEAN ELSE {FALSE}) :
             local' = [local EXCEPT !.resolved = passed \/ local.executed]
        /\ pc' = "verified"
        /\ UNCHANGED world
     \/ Raise
  /\ UNCHANGED <<run, slotVars, origin, clientVars>>

Verify ==
  /\ pc = "verify"
  /\ \/ /\ \E passed \in (IF world \in Sound THEN BOOLEAN ELSE {FALSE}) :
             local' = [local EXCEPT !.resolved = local.executed /\ passed]
        /\ pc' = "verified"
        /\ UNCHANGED world
     \/ Raise
  /\ UNCHANGED <<run, slotVars, origin, clientVars>>

Judge ==
  /\ pc = "judge"
  /\ pc' = IF ~local.resolved /\ local.rollback_plan THEN "rollback" ELSE "conclude"
  /\ UNCHANGED <<local, world, run, slotVars, origin, clientVars>>

Rollback ==
  /\ pc = "rollback"
  /\ world' \in Worlds
  /\ pc' \in {"note_rollback", "crashed"}
  /\ UNCHANGED <<local, run, slotVars, origin, clientVars>>

\* run.rolled_back, outside the lock, whatever the rollback's success.
NoteRollback ==
  /\ pc = "note_rollback"
  /\ run' = [run EXCEPT !.rolled_back = TRUE]
  /\ pc' = "reverted"
  /\ UNCHANGED <<local, world, slotVars, origin, clientVars>>

\* Seeded fault: success is published before its outcome is told.
ConcludeEarly ==
  /\ pc = "conclude"
  /\ run' = [run EXCEPT !.resolved = local.resolved,
                        !.status = IF local.resolved THEN "resolved" ELSE @]
  /\ pc' = IF local.resolved THEN "succeeded" ELSE "rolled_back"
  /\ UNCHANGED <<local, world, slotVars, origin, clientVars>>

\* run.resolved, outside the lock.
Conclude ==
  /\ pc = "conclude"
  /\ run' = [run EXCEPT !.resolved = local.resolved]
  /\ pc' = IF local.resolved THEN "succeeded" ELSE "rolled_back"
  /\ UNCHANGED <<local, world, slotVars, origin, clientVars>>

-----------------------------------------------------------------------------
(* The clients. *)

\* POST decision: the check, outside the lock.  _pending_proposal is set
\* together with the status it goes with, and never cleared.
CheckDecision(o) ==
  /\ operator[o].at \in {"idle", "refused"}
  /\ \E action \in Actions :
       operator' = [operator EXCEPT ![o] =
         IF run.status = "awaiting_approval" THEN [at |-> "checked", action |-> action]
         ELSE [at |-> "refused", action |-> "none"]]
  /\ UNCHANGED <<workerVars, run, slotVars, origin, stream>>

\* Seeded fault: the submission itself sets the run going again.
StoreAndReopen(o) ==
  /\ operator[o].at = "checked"
  /\ decision' = [by |-> o, action |-> operator[o].action]
  /\ operator' = [operator EXCEPT ![o].at = "stored"]
  /\ Publish([run EXCEPT !.status = "running", !.approval = FALSE])
  /\ UNCHANGED <<workerVars, signalled, origin, stream>>

\* Seeded fault: the action is lost on the way.
StoreNothing(o) ==
  /\ operator[o].at = "checked"
  /\ decision' = [by |-> o, action |-> "none"]
  /\ operator' = [operator EXCEPT ![o].at = "stored"]
  /\ UNCHANGED <<workerVars, run, signalled, origin, stream>>

\* submit_decision, first half: the slot is overwritten.
StoreDecision(o) ==
  /\ operator[o].at = "checked"
  /\ decision' = [by |-> o, action |-> operator[o].action]
  /\ operator' = [operator EXCEPT ![o].at = "stored"]
  /\ UNCHANGED <<workerVars, run, signalled, origin, stream>>

\* Second half: the event is set, and the request answered with 200.
SignalDecision(o) ==
  /\ operator[o].at = "stored"
  /\ signalled' = TRUE
  /\ operator' = [operator EXCEPT ![o].at = "accepted"]
  /\ UNCHANGED <<workerVars, run, decision, origin, stream>>

\* Seeded fault: a new stream waits for the next change.
PollFromNow(s) ==
  /\ stream[s].at \in {"absent", "open"}
  /\ stream' = [stream EXCEPT ![s] =
       IF @.at = "open" /\ @.last_rev = run.revision THEN @
       ELSE [at |-> IF @.at = "open" /\ run.status \in TERMINAL THEN "done" ELSE "open",
             sent |-> Observable(run), last_rev |-> run.revision]]
  /\ UNCHANGED <<workerVars, run, slotVars, origin, operator>>

\* One round of the stream's loop: a snapshot under the lock, sent if the
\* revision has moved.  The first one is always sent (last_rev is -1).
Poll(s) ==
  /\ stream[s].at \in {"absent", "open"}
  /\ stream' = [stream EXCEPT ![s] =
       IF @.at = "open" /\ @.last_rev = run.revision THEN @
       ELSE [at |-> IF run.status \in TERMINAL THEN "done" ELSE "open",
             sent |-> Observable(run), last_rev |-> run.revision]]
  /\ UNCHANGED <<workerVars, run, slotVars, origin, operator>>

\* The client goes away.
Disconnect(s) ==
  /\ stream[s].at = "open"
  /\ stream' = [stream EXCEPT ![s].at = "gone"]
  /\ UNCHANGED <<workerVars, run, slotVars, origin, operator>>

Ended ==
  /\ pc = "end"
  /\ UNCHANGED vars

-----------------------------------------------------------------------------

Worker ==
  \/ Emit \/ SetStatus \/ RunTriage \/ NoteTop \/ PlanRemediation
  \/ AutoApprove \/ OpenGate \/ WaitForDecision \/ CloseGate
  \/ Execute \/ Verify \/ Judge \/ Rollback \/ NoteRollback \/ Conclude

Clients ==
  \/ \E o \in Operators : CheckDecision(o) \/ StoreDecision(o) \/ SignalDecision(o)
  \/ \E s \in Streams : Poll(s) \/ Disconnect(s)

Next == Worker \/ Clients \/ Ended

Spec == Init /\ [][Next]_vars

\* The threads are scheduled: the worker's, a request's once its check has
\* passed, and the event loop's.  No operator need ever come.
FairSpec ==
  /\ Spec
  /\ WF_vars(Worker)
  /\ \A o \in Operators : WF_vars(StoreDecision(o) \/ SignalDecision(o))
  /\ \A s \in Streams : WF_vars(stream[s].at = "open" /\ Poll(s))

-----------------------------------------------------------------------------

Stages == {"ingest", "triage", "remediation", "gate", "execution", "verification",
           "rollback", "outcome"}

ObservableState ==
  [status : {"running", "awaiting_approval"} \union TERMINAL,
   approval : BOOLEAN, escalated : BOOLEAN, resolved : BOOLEAN, rolled_back : BOOLEAN,
   top : {"none", "cause", "confidence"}, events : Seq(Stages), revision : Nat]

TypeOK ==
  /\ pc \in DOMAIN Emission \union TERMINAL \union
       {"triage", "cause", "confidence", "plan", "gate", "wait", "close", "execute",
        "verify", "judge", "rollback", "note_rollback", "conclude", "end"}
  /\ run \in ObservableState
  /\ decision \in Decisions
  /\ signalled \in BOOLEAN
  /\ local \in [escalates : BOOLEAN, rollback_plan : BOOLEAN, decision : Decisions,
                executed : BOOLEAN, resolved : BOOLEAN]
  /\ world \in Worlds
  /\ origin \in Worlds
  /\ operator \in [Operators -> [at : {"idle", "refused", "checked", "stored", "accepted"},
                                 action : Actions \union {"none"}]]
  /\ stream \in [Streams -> [at : {"absent", "open", "done", "gone"},
                             sent : ObservableState, last_rev : Nat]]

Told(stage) == \E i \in DOMAIN run.events : run.events[i] = stage

\* A stream that has been told "done" has been sent the whole run: whatever
\* interleaving of worker, requests and polls, nothing is published after the
\* terminal status that the last snapshot does not show.
DoneIsComplete == \A s \in Streams : stream[s].at = "done" => stream[s].sent = Observable(run)

\* A run that escalated and goes on past its gate does what one operator said,
\* after that operator saw the run awaiting a decision; a rejected run is one
\* that an operator rejected, and its world is as it was.
HumanDecides ==
  /\ (run.escalated /\ pc \notin {"asked", "wait"}) =>
       \E o \in Operators : /\ operator[o].at \in {"stored", "accepted"}
                            /\ local.decision = [by |-> o, action |-> operator[o].action]
  /\ (run.escalated /\ (Told("execution") \/ world # origin)) => local.decision.action # "reject"
  /\ run.status = "rejected" => local.decision.action = "reject" /\ world = origin

\* The status is what the trace tells: a run without error that touched its
\* world says so, and success is claimed of a sound world, after a
\* verification and with no rollback.
StatusMatchesTrace ==
  /\ run.status = "resolved" =>
       /\ run.resolved /\ ~run.rolled_back /\ world \in Sound
       /\ run.events = <<"ingest", "triage", "remediation", "gate">>
                       \o (IF run.escalated THEN <<"gate">> ELSE <<>>)
                       \o <<"execution", "verification", "outcome">>
  /\ run.status \in TERMINAL \ {"resolved"} => ~run.resolved
  /\ (run.status \in TERMINAL \ {"failed"} /\ world # origin) => Told("execution")

\* Once the status is terminal nothing observable changes: no late decision
\* and no stage can alter a finished run.
TerminalIsFinal == [][run.status \in TERMINAL => run' = run]_vars

\* A run ends unless it awaits a decision that no operator has had accepted:
\* one posted before the worker waits, or two at once, are not lost.
RunEnds ==
  \/ <>(run.status \in TERMINAL)
  \/ <>[](run.status = "awaiting_approval" /\ \A o \in Operators : operator[o].at # "accepted")

\* A connected stream is told of the end of the run.
StreamEnds ==
  \A s \in Streams :
    (stream[s].at = "open" /\ run.status \in TERMINAL) ~> stream[s].at \in {"done", "gone"}

-----------------------------------------------------------------------------
(***************************************************************************)
(* The API's run as an implementation of SupervisedAction: _drive repeats  *)
(* run_incident, and makes the same promise by what it publishes.          *)
(***************************************************************************)

Consented ==
  IF local.escalates THEN local.decision.action \in {"approve", "edit"}
  ELSE pc = "auto" \/ Told("gate")

Undoing ==
  Told("verification") /\ pc # "judge" /\ ~local.resolved /\ local.rollback_plan

Mode ==
  CASE run.status \in TERMINAL -> "closed"
    [] run.status \notin TERMINAL /\ Undoing -> "undoing"
    [] run.status \notin TERMINAL /\ ~Undoing /\ Consented -> "acting"
    [] run.status \notin TERMINAL /\ ~Undoing /\ ~Consented -> "deciding"

Claim ==
  CASE Mode \in {"deciding", "acting"} -> "open"
    [] Mode \in {"undoing", "closed"} ->
         IF run.status = "resolved" THEN "resolved" ELSE "unresolved"

Promise == INSTANCE SupervisedAction WITH
  mode <- Mode, consent <- Consented, claim <- Claim

\* The published run is a behaviour of the abstract contract: the world is
\* touched only under consent, and one true claim is made.
KeepsThePromise == Promise!Spec

-----------------------------------------------------------------------------
(***************************************************************************)
(* What the repository says of itself and the code does not do.            *)
(***************************************************************************)

\* app.py refuses a decision when the "run is not awaiting a decision": one
\* that is taken is taken from a run that awaits it.
NotAwaitingIsRefused ==
  [][\A o \in Operators :
       operator[o].at = "checked" /\ operator'[o].at = "stored" =>
         run.status = "awaiting_approval"]_vars

=============================================================================
