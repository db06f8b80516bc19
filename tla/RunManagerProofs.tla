--------------------------- MODULE RunManagerProofs ---------------------------
(***************************************************************************)
(* Proofs about RunManager, for any operators, streams and worlds: what is *)
(* published at the end is final, complete, true, and what a human said.   *)
(***************************************************************************)
EXTENDS RunManager, TLAPS

-----------------------------------------------------------------------------
(* The inductive invariant. *)

BeforeGate == {"ingest", "triage", "cause", "confidence", "diagnosed", "plan", "planned", "gate"}

Asking == {"asked", "wait", "close"}

BeforeExecution == BeforeGate \union Asking \union {"auto", "answered", "execute", "declined", "rejected"}

Executed == {"verify", "verified", "judge", "rollback", "note_rollback", "reverted", "conclude",
             "succeeded", "resolved", "rolled_back"}

\* The published status goes with the place of the worker.
StatusInv ==
  /\ run.status \in TERMINAL <=> pc = "end"
  /\ run.status = "awaiting_approval" <=> pc \in Asking

\* Someone's decision is in the slot before anyone can signal it, and stays the
\* one that operator was told of.
SlotInv ==
  /\ \A o \in Operators : operator[o].at \in {"checked", "stored", "accepted"} =>
       operator[o].action \in Actions
  /\ (\E o \in Operators : operator[o].at \in {"stored", "accepted"}) =>
       \E o \in Operators : /\ operator[o].at \in {"stored", "accepted"}
                            /\ decision = [by |-> o, action |-> operator[o].action]
  /\ signalled => \E o \in Operators : operator[o].at = "accepted"

\* The worker has a decision once it has waited for one, and an operator stands
\* for it; a rejection leads nowhere but to the end, with nothing touched.
DecisionInv ==
  /\ pc \in BeforeGate \union {"auto"} => ~run.escalated
  /\ pc \in BeforeGate \union {"auto", "asked", "wait"} => local.decision = NoDecision
  /\ pc \in Asking \union {"answered", "declined", "rejected"} => local.escalates
  /\ pc \in Asking \union {"answered", "declined", "rejected"} => run.escalated
  /\ (run.escalated /\ pc \notin {"asked", "wait"}) =>
       \E o \in Operators : /\ operator[o].at \in {"stored", "accepted"}
                            /\ local.decision = [by |-> o, action |-> operator[o].action]
  /\ pc \in BeforeExecution => world = origin
  /\ local.decision.action = "reject" =>
       /\ pc \in {"close", "answered", "declined", "rejected", "end"}
       /\ world = origin /\ ~Told("execution")
  /\ pc \in {"declined", "rejected"} \/ run.status = "rejected" =>
       local.decision.action = "reject"

\* The trace, as the worker has told it so far.
Planned == Append(Append(Append(<<>>, "ingest"), "triage"), "remediation")

Gated(escalated) ==
  IF escalated THEN Append(Append(Planned, "gate"), "gate") ELSE Append(Planned, "gate")

Verified(escalated) == Append(Append(Gated(escalated), "execution"), "verification")

TraceInv ==
  /\ pc = "ingest" => run.events = <<>>
  /\ pc \in {"triage", "cause", "confidence", "diagnosed"} => run.events = Append(<<>>, "ingest")
  /\ pc \in {"plan", "planned"} => run.events = Append(Append(<<>>, "ingest"), "triage")
  /\ pc \in {"gate", "auto", "asked"} => run.events = Planned
  /\ pc \in {"wait", "close", "answered"} => run.events = Append(Planned, "gate")
  /\ pc \in {"execute", "executed", "declined"} => run.events = Gated(run.escalated)
  /\ pc \in {"verify", "verified"} => run.events = Append(Gated(run.escalated), "execution")
  /\ pc = "judge" => run.events = Verified(run.escalated)
  /\ local.resolved /\ pc \in {"conclude", "succeeded"} => run.events = Verified(run.escalated)
  /\ pc = "resolved" \/ run.status = "resolved" =>
       run.events = Append(Verified(run.escalated), "outcome")
  /\ pc \in Executed \/ run.status \in {"resolved", "rolled_back"} => Told("execution")

\* Success is the worker's before it is published, of a sound world that was
\* not rolled back.
SuccessInv ==
  /\ local.resolved =>
       /\ pc \in {"verified", "judge", "conclude", "succeeded", "resolved", "end"}
       /\ world \in Sound /\ ~run.rolled_back
  /\ pc \in {"succeeded", "resolved"} \/ run.status = "resolved" => local.resolved /\ run.resolved
  /\ run.rolled_back => pc \in {"reverted", "conclude", "rolled_back", "end"}
  /\ run.resolved => /\ local.resolved /\ pc \in {"succeeded", "resolved", "end"}
                     /\ pc = "end" => run.status = "resolved"

\* A stream that is done has been sent the terminal snapshot.
StreamInv ==
  \A s \in Streams : stream[s].at = "done" =>
    run.status \in TERMINAL /\ stream[s].sent = Observable(run)

IInv ==
  TypeOK /\ StatusInv /\ SlotInv /\ DecisionInv /\ TraceInv /\ SuccessInv /\ StreamInv

-----------------------------------------------------------------------------
(* The trace. *)

Has(events, stage) == \E i \in DOMAIN events : events[i] = stage

LEMMA AppendHas ==
  ASSUME NEW events \in Seq(Stages), NEW s \in Stages, NEW stage
  PROVE  /\ Append(events, s) \in Seq(Stages)
         /\ Has(Append(events, s), stage) <=> Has(events, stage) \/ s = stage
<1> DEFINE more == Append(events, s)
<1>1. /\ more \in Seq(Stages) /\ DOMAIN events = 1..Len(events) /\ Len(events) \in Nat
      /\ DOMAIN more = 1..(Len(events) + 1)
      /\ \A i \in 1..Len(events) : more[i] = events[i]
      /\ more[Len(events) + 1] = s
  OBVIOUS
<1> HIDE DEF more
<1>2. Has(more, stage) <=> Has(events, stage) \/ s = stage
  BY <1>1 DEF Has
<1> QED
  BY <1>1, <1>2 DEF more

LEMMA TraceTypes ==
  /\ <<>> \in Seq(Stages) /\ Append(<<>>, "ingest") \in Seq(Stages)
  /\ Append(Append(<<>>, "ingest"), "triage") \in Seq(Stages)
  /\ Planned \in Seq(Stages) /\ Append(Planned, "gate") \in Seq(Stages)
  /\ \A e \in BOOLEAN : /\ Gated(e) \in Seq(Stages)
                        /\ Append(Gated(e), "execution") \in Seq(Stages)
                        /\ Verified(e) \in Seq(Stages)
<1>1. <<>> \in Seq(Stages) /\ Append(<<>>, "ingest") \in Seq(Stages)
  BY DEF Stages
<1>2. Append(Append(<<>>, "ingest"), "triage") \in Seq(Stages)
  BY <1>1, AppendHas DEF Stages
<1>3. Planned \in Seq(Stages) /\ Append(Planned, "gate") \in Seq(Stages)
  BY <1>2, AppendHas DEF Stages, Planned
<1>4. \A e \in BOOLEAN : Gated(e) \in Seq(Stages)
  BY <1>3, AppendHas DEF Stages, Gated
<1>5. \A e \in BOOLEAN : Append(Gated(e), "execution") \in Seq(Stages)
  BY <1>4, AppendHas DEF Stages
<1> QED
  BY <1>1, <1>2, <1>3, <1>4, <1>5, AppendHas DEF Stages, Verified

\* Where each emission leads.
Step(from, stage, to) == pc = from /\ pc' = to /\ run'.events = Append(run.events, stage)

LEMMA EmitSteps ==
  ASSUME Emit
  PROVE  \/ Step("ingest", "ingest", "triage")
         \/ Step("diagnosed", "triage", "plan")
         \/ Step("planned", "remediation", "gate")
         \/ Step("auto", "gate", "execute")
         \/ Step("asked", "gate", "wait")
         \/ Step("answered", "gate", IF Approved THEN "execute" ELSE "declined")
         \/ Step("declined", "outcome", "rejected")
         \/ Step("executed", "execution", "verify")
         \/ Step("verified", "verification", "judge")
         \/ Step("reverted", "rollback", "conclude")
         \/ Step("succeeded", "outcome", "resolved")
         \/ Step("no_triage", "triage", "failed")
         \/ Step("no_plan", "remediation", "failed")
         \/ Step("crashed", "outcome", "failed")
<1>1. run'.events = Append(run.events, Emission[pc][1]) /\ pc' = Emission[pc][2]
  BY DEF Emit, Publish
<1>2. pc \in {"ingest", "diagnosed", "planned", "auto", "asked", "answered", "declined",
              "executed", "verified", "reverted", "succeeded", "no_triage", "no_plan", "crashed"}
  BY DEF Emit, Emission
<1>3. CASE pc = "ingest"
  BY <1>1, <1>3 DEF Emission, Step
<1>4. CASE pc = "diagnosed"
  BY <1>1, <1>4 DEF Emission, Step
<1>5. CASE pc = "planned"
  BY <1>1, <1>5 DEF Emission, Step
<1>6. CASE pc = "auto"
  BY <1>1, <1>6 DEF Emission, Step
<1>7. CASE pc = "asked"
  BY <1>1, <1>7 DEF Emission, Step
<1>8. CASE pc = "answered"
  BY <1>1, <1>8 DEF Emission, Step
<1>9. CASE pc = "declined"
  BY <1>1, <1>9 DEF Emission, Step
<1>10. CASE pc = "executed"
  BY <1>1, <1>10 DEF Emission, Step
<1>11. CASE pc = "verified"
  BY <1>1, <1>11 DEF Emission, Step
<1>12. CASE pc = "reverted"
  BY <1>1, <1>12 DEF Emission, Step
<1>13. CASE pc = "succeeded"
  BY <1>1, <1>13 DEF Emission, Step
<1>14. CASE pc = "no_triage"
  BY <1>1, <1>14 DEF Emission, Step
<1>15. CASE pc = "no_plan"
  BY <1>1, <1>15 DEF Emission, Step
<1>16. CASE pc = "crashed"
  BY <1>1, <1>16 DEF Emission, Step
<1> QED
  BY <1>2, <1>3, <1>4, <1>5, <1>6, <1>7, <1>8, <1>9, <1>10, <1>11, <1>12, <1>13, <1>14, <1>15, <1>16

-----------------------------------------------------------------------------
(* What each step of the worker publishes. *)

\* The published run has its type, and these values where the proofs look.
Published(status, escalated, resolved, rolled_back, events) ==
  /\ run' \in ObservableState
  /\ run'.status = status /\ run'.escalated = escalated
  /\ run'.resolved = resolved /\ run'.rolled_back = rolled_back /\ run'.events = events

LEMMA PublishType ==
  ASSUME NEW r \in ObservableState, Publish(r)
  PROVE  Published(r.status, r.escalated, r.resolved, r.rolled_back, r.events)
BY DEF ObservableState, Publish, Published

LEMMA EmitPublishes ==
  ASSUME TypeOK, Emit
  PROVE  /\ Published(run.status, run.escalated, run.resolved, run.rolled_back, run'.events)
         /\ UNCHANGED <<local, world, slotVars, origin, clientVars>>
<1> DEFINE stage == Emission[pc][1]
           r == [run EXCEPT !.events = Append(@, stage)]
<1>1. stage \in Stages
  BY DEF Emit, Emission, Stages
<1>2. run \in ObservableState
  BY DEF TypeOK
<1> HIDE DEF stage
<1>3. r \in ObservableState
  <2>1. Append(run.events, stage) \in Seq(Stages)
    BY <1>1, <1>2 DEF ObservableState
  <2> QED
    BY <1>2, <2>1 DEF ObservableState
<1>4. /\ r.status = run.status /\ r.escalated = run.escalated /\ r.resolved = run.resolved
      /\ r.rolled_back = run.rolled_back
  BY <1>2 DEF ObservableState
<1>5. Publish(r) /\ UNCHANGED <<local, world, slotVars, origin, clientVars>>
  BY DEF Emit, stage
<1> HIDE DEF r
<1> QED
  BY <1>3, <1>4, <1>5, PublishType DEF Published

LEMMA SetStatusPublishes ==
  ASSUME TypeOK, SetStatus
  PROVE  Published(pc, run.escalated, run.resolved, run.rolled_back, run.events)
<1> DEFINE r == [run EXCEPT !.status = pc]
<1>1. /\ r \in ObservableState /\ r.status = pc /\ r.escalated = run.escalated
      /\ r.resolved = run.resolved /\ r.rolled_back = run.rolled_back /\ r.events = run.events
  BY DEF TypeOK, ObservableState, SetStatus, TERMINAL
<1>2. Publish(r)
  BY DEF SetStatus
<1> HIDE DEF r
<1> QED
  BY <1>1, <1>2, PublishType

LEMMA OpenGatePublishes ==
  ASSUME TypeOK, OpenGate
  PROVE  Published("awaiting_approval", TRUE, run.resolved, run.rolled_back, run.events)
<1> DEFINE r == [run EXCEPT !.approval = TRUE, !.status = "awaiting_approval", !.escalated = TRUE]
<1>1. /\ r \in ObservableState /\ r.status = "awaiting_approval" /\ r.escalated = TRUE
      /\ r.resolved = run.resolved /\ r.rolled_back = run.rolled_back /\ r.events = run.events
  BY DEF TypeOK, ObservableState
<1>2. Publish(r)
  BY DEF OpenGate
<1> HIDE DEF r
<1> QED
  BY <1>1, <1>2, PublishType

LEMMA CloseGatePublishes ==
  ASSUME TypeOK, CloseGate
  PROVE  Published("running", run.escalated, run.resolved, run.rolled_back, run.events)
<1> DEFINE r == [run EXCEPT !.approval = FALSE, !.status = "running"]
<1>1. /\ r \in ObservableState /\ r.status = "running" /\ r.escalated = run.escalated
      /\ r.resolved = run.resolved /\ r.rolled_back = run.rolled_back /\ r.events = run.events
  BY DEF TypeOK, ObservableState
<1>2. Publish(r)
  BY DEF CloseGate
<1> HIDE DEF r
<1> QED
  BY <1>1, <1>2, PublishType

\* The three attributes that are set outside of the lock.
LEMMA NotesPublish ==
  ASSUME TypeOK
  PROVE  /\ NoteTop => Published(run.status, run.escalated, run.resolved, run.rolled_back, run.events)
         /\ NoteRollback => Published(run.status, run.escalated, run.resolved, TRUE, run.events)
         /\ Conclude => Published(run.status, run.escalated, local.resolved, run.rolled_back,
                                  run.events)
<1> USE DEF TypeOK, ObservableState, Published
<1>1. NoteTop => Published(run.status, run.escalated, run.resolved, run.rolled_back, run.events)
  BY DEF NoteTop
<1>2. NoteRollback => Published(run.status, run.escalated, run.resolved, TRUE, run.events)
  BY DEF NoteRollback
<1>3. Conclude => Published(run.status, run.escalated, local.resolved, run.rolled_back, run.events)
  BY DEF Conclude
<1> QED
  BY <1>1, <1>2, <1>3

\* The worker's locals, field by field.
LEMMA LocalTypes ==
  TypeOK => /\ local.escalates \in BOOLEAN /\ local.rollback_plan \in BOOLEAN
            /\ local.decision \in Decisions
            /\ local.executed \in BOOLEAN /\ local.resolved \in BOOLEAN
            /\ run.status \in {"running", "awaiting_approval"} \union TERMINAL
            /\ run.escalated \in BOOLEAN /\ run.resolved \in BOOLEAN
            /\ run.rolled_back \in BOOLEAN /\ run.events \in Seq(Stages)
BY DEF TypeOK, ObservableState

-----------------------------------------------------------------------------
(* Types. *)

LEMMA TypeInit == Init => TypeOK
<1> SUFFICES ASSUME Init PROVE TypeOK
  OBVIOUS
<1> USE DEF Init
<1>1. pc \in DOMAIN Emission
  BY DEF Emission
<1>2. run \in ObservableState
  BY DEF ObservableState
<1>3. Observable(run) \in ObservableState
  BY <1>2 DEF Observable, ObservableState
<1>4. decision \in Decisions /\ local.decision \in Decisions
  BY DEF Decisions
<1>5. local \in [escalates : BOOLEAN, rollback_plan : BOOLEAN, decision : Decisions,
                 executed : BOOLEAN, resolved : BOOLEAN]
  BY DEF Decisions
<1>6. operator \in [Operators -> [at : {"idle", "refused", "checked", "stored", "accepted"},
                                  action : Actions \union {"none"}]]
  OBVIOUS
<1>7. stream \in [Streams -> [at : {"absent", "open", "done", "gone"},
                              sent : ObservableState, last_rev : Nat]]
  BY <1>3
<1> QED
  BY <1>1, <1>2, <1>4, <1>5, <1>6, <1>7 DEF TypeOK

Pcs == BeforeExecution \union Executed
       \union {"executed", "no_triage", "no_plan", "crashed", "failed", "end"}

\* The places of the worker, as TypeOK lists them.
Places == DOMAIN Emission \union TERMINAL \union
            {"triage", "cause", "confidence", "plan", "gate", "wait", "close", "execute",
             "verify", "judge", "rollback", "note_rollback", "conclude", "end"}

LEMMA PcNames == Places = Pcs /\ Places' = Pcs
BY DEF Places, Pcs, Emission, TERMINAL, BeforeExecution, BeforeGate, Asking, Executed

\* One operator's request goes on.
Requested(o, at, action) ==
  /\ operator' \in [Operators -> [at : {"idle", "refused", "checked", "stored", "accepted"},
                                  action : Actions \union {"none"}]]
  /\ operator'[o].at = at /\ operator'[o].action = action
  /\ \A p \in Operators : p # o => operator'[p] = operator[p]

LEMMA CheckRequests ==
  ASSUME TypeOK, NEW o \in Operators, CheckDecision(o)
  PROVE  /\ \E action \in Actions :
              Requested(o, "checked", action) \/ Requested(o, "refused", "none")
         /\ operator[o].at \in {"idle", "refused"}
<1>1. PICK action \in Actions :
        operator' = [operator EXCEPT ![o] =
          IF run.status = "awaiting_approval" THEN [at |-> "checked", action |-> action]
          ELSE [at |-> "refused", action |-> "none"]]
  BY DEF CheckDecision
<1>2. CASE run.status = "awaiting_approval"
  BY <1>1, <1>2 DEF TypeOK, Requested, CheckDecision
<1>3. CASE run.status # "awaiting_approval"
  BY <1>1, <1>3 DEF TypeOK, Requested, CheckDecision
<1> QED
  BY <1>2, <1>3

LEMMA StoreRequests ==
  ASSUME TypeOK, NEW o \in Operators, StoreDecision(o)
  PROVE  Requested(o, "stored", operator[o].action) /\ operator[o].at = "checked"
BY DEF TypeOK, Requested, StoreDecision

LEMMA SignalRequests ==
  ASSUME TypeOK, NEW o \in Operators, SignalDecision(o)
  PROVE  Requested(o, "accepted", operator[o].action) /\ operator[o].at = "stored"
BY DEF TypeOK, Requested, SignalDecision

\* One stream has gone on, and the others have not.
LEMMA PollStreams ==
  ASSUME TypeOK, NEW s \in Streams, Poll(s)
  PROVE  /\ stream' \in [Streams -> [at : {"absent", "open", "done", "gone"},
                                     sent : ObservableState, last_rev : Nat]]
         /\ \A z \in Streams : z # s => stream'[z] = stream[z]
         /\ stream'[s].at = "done" => run.status \in TERMINAL /\ stream'[s].sent = Observable(run)
<1>1. Observable(run) \in ObservableState /\ run.revision \in Nat
  BY DEF TypeOK, Observable, ObservableState
<1> DEFINE q == [at |-> IF run.status \in TERMINAL THEN "done" ELSE "open",
                 sent |-> Observable(run), last_rev |-> run.revision]
<1>2. /\ q \in [at : {"absent", "open", "done", "gone"}, sent : ObservableState, last_rev : Nat]
      /\ q.at = "done" => run.status \in TERMINAL /\ q.sent = Observable(run)
  BY <1>1
<1>3. \/ UNCHANGED stream /\ stream[s].at = "open"
      \/ stream' = [stream EXCEPT ![s] = q]
  BY DEF Poll, TypeOK
<1> HIDE DEF q
<1> QED
  BY <1>2, <1>3 DEF TypeOK

LEMMA DisconnectStreams ==
  ASSUME TypeOK, NEW s \in Streams, Disconnect(s)
  PROVE  /\ stream' \in [Streams -> [at : {"absent", "open", "done", "gone"},
                                     sent : ObservableState, last_rev : Nat]]
         /\ \A z \in Streams : z # s => stream'[z] = stream[z]
         /\ stream'[s].at = "gone"
BY DEF TypeOK, Disconnect

LEMMA TypeNext == ASSUME TypeOK, SlotInv, [Next]_vars PROVE TypeOK'
<1> DEFINE Locals == [escalates : BOOLEAN, rollback_plan : BOOLEAN, decision : Decisions,
                      executed : BOOLEAN, resolved : BOOLEAN]
           Rest == /\ decision \in Decisions /\ signalled \in BOOLEAN /\ origin \in Worlds
                   /\ operator \in [Operators -> [at : {"idle", "refused", "checked", "stored",
                                                        "accepted"},
                                                  action : Actions \union {"none"}]]
                   /\ stream \in [Streams -> [at : {"absent", "open", "done", "gone"},
                                              sent : ObservableState, last_rev : Nat]]
<1>1. pc \in Pcs /\ run \in ObservableState /\ local \in Locals /\ world \in Worlds /\ Rest
  BY PcNames DEF TypeOK, Places
<1>2. SUFFICES pc' \in Pcs /\ run' \in ObservableState /\ local' \in Locals /\ world' \in Worlds
               /\ Rest'
  BY <1>2, PcNames DEF TypeOK, Places
<1> USE DEF slotVars, clientVars, workerVars
<1>3. CASE \/ Emit \/ SetStatus \/ NoteTop \/ OpenGate \/ CloseGate \/ NoteRollback \/ Conclude
  <2>1. run' \in ObservableState
    BY <1>3, EmitPublishes, SetStatusPublishes, NotesPublish, OpenGatePublishes,
       CloseGatePublishes DEF Published
  <2>2. Emit => pc' \in Pcs
    BY EmitSteps DEF Step, Pcs, BeforeExecution, BeforeGate, Asking, Executed
  <2>3. ~Emit => pc' \in Pcs
    BY <1>3 DEF SetStatus, NoteTop, OpenGate, CloseGate, NoteRollback, Conclude, Pcs, TERMINAL,
                   BeforeExecution, BeforeGate, Asking, Executed
  <2>4. UNCHANGED <<local, world, slotVars, origin, clientVars>>
    BY <1>3 DEF Emit, SetStatus, NoteTop, OpenGate, CloseGate, NoteRollback, Conclude
  <2> QED
    BY <1>1, <2>1, <2>2, <2>3, <2>4
<1>4. CASE RunTriage \/ PlanRemediation \/ AutoApprove \/ WaitForDecision \/ Execute \/ Verify
           \/ Judge \/ Rollback
  <2>1. pc' \in Pcs
    BY <1>4 DEF RunTriage, PlanRemediation, AutoApprove, WaitForDecision, Execute, Verify,
                Judge, Rollback, Raise, Pcs, TERMINAL,
                   BeforeExecution, BeforeGate, Asking, Executed
  <2>2. UNCHANGED run /\ world' \in Worlds /\ Rest'
    BY <1>1, <1>4 DEF RunTriage, PlanRemediation, AutoApprove, WaitForDecision, Execute, Verify,
                      Judge, Rollback, Raise
  <2>3. local' \in Locals
    <3>1. PlanRemediation => local' \in Locals
      BY <1>1 DEF PlanRemediation, Raise
    <3>2. WaitForDecision => local' \in Locals
      BY <1>1 DEF WaitForDecision
    <3>3. Execute => local' \in Locals
      BY <1>1 DEF Execute
    <3>4. Verify => local' \in Locals
      <4>1. ASSUME NEW passed \in BOOLEAN PROVE (local.executed /\ passed) \in BOOLEAN
        OBVIOUS
      <4>2. ASSUME NEW b \in BOOLEAN, local' = [local EXCEPT !.resolved = b] PROVE local' \in Locals
        BY <1>1, <4>2
      <4> QED
        BY <1>1, <4>1, <4>2 DEF Verify, Raise
    <3> QED
      BY <1>1, <1>4, <3>1, <3>2, <3>3, <3>4 DEF RunTriage, AutoApprove, Judge, Rollback, Raise
  <2> QED
    BY <1>1, <2>1, <2>2, <2>3
<1>5. ASSUME NEW o \in Operators, CheckDecision(o) \/ StoreDecision(o) \/ SignalDecision(o)
      PROVE  pc' \in Pcs /\ run' \in ObservableState /\ local' \in Locals /\ world' \in Worlds /\ Rest'
  <2>1. UNCHANGED <<pc, run, local, world, origin, stream>>
    BY <1>5 DEF CheckDecision, StoreDecision, SignalDecision
  <2>2. operator' \in [Operators -> [at : {"idle", "refused", "checked", "stored", "accepted"},
                                     action : Actions \union {"none"}]]
    BY <1>5, CheckRequests, StoreRequests, SignalRequests DEF Requested
  <2>3. signalled' \in BOOLEAN
    BY <1>1, <1>5 DEF CheckDecision, StoreDecision, SignalDecision
  <2>4. decision' \in Decisions
    BY <1>1, <1>5 DEF CheckDecision, StoreDecision, SignalDecision, SlotInv, Decisions
  <2> QED
    BY <1>1, <2>1, <2>2, <2>3, <2>4
<1>6. ASSUME NEW s \in Streams, Poll(s) \/ Disconnect(s)
      PROVE  pc' \in Pcs /\ run' \in ObservableState /\ local' \in Locals /\ world' \in Worlds /\ Rest'
  <2>1. UNCHANGED <<pc, run, local, world, origin, operator, decision, signalled>>
    BY <1>6 DEF Poll, Disconnect
  <2>2. stream' \in [Streams -> [at : {"absent", "open", "done", "gone"},
                                 sent : ObservableState, last_rev : Nat]]
    BY <1>6, PollStreams, DisconnectStreams
  <2> QED
    BY <1>1, <2>1, <2>2
<1>7. CASE UNCHANGED vars
  BY <1>1, <1>7 DEF vars
<1> QED
  BY <1>3, <1>4, <1>5, <1>6, <1>7 DEF Next, Worker, Clients, Ended

-----------------------------------------------------------------------------
(* The invariant is inductive. *)

LEMMA WorkerFrame == Worker => UNCHANGED <<decision, signalled, operator, stream, origin>>
BY DEF Worker, Emit, SetStatus, RunTriage, NoteTop, PlanRemediation, AutoApprove, OpenGate,
       WaitForDecision, CloseGate, Execute, Verify, Judge, Rollback, NoteRollback, Conclude,
       slotVars, clientVars

LEMMA ClientsFrame == Clients => UNCHANGED <<pc, run, local, world, origin>>
BY DEF Clients, CheckDecision, StoreDecision, SignalDecision, Poll, Disconnect, workerVars

LEMMA Steps == [Next]_vars => Worker \/ Clients \/ UNCHANGED vars
BY DEF Next, Ended

\* What a run did before the publication of an outcome does not change after it.
LEMMA TerminalStops ==
  ASSUME TypeOK, StatusInv, [Next]_vars, run.status \in TERMINAL
  PROVE  UNCHANGED <<pc, run, local, world>>
<1>1. pc = "end"
  BY DEF StatusInv
<1>2. ~Worker
  BY <1>1, EmitSteps DEF Worker, SetStatus, RunTriage, NoteTop, PlanRemediation, AutoApprove,
       OpenGate, WaitForDecision, CloseGate, Execute, Verify, Judge, Rollback, NoteRollback,
       Conclude, Step, TERMINAL
<1> QED
  BY <1>2, Steps, ClientsFrame DEF vars, workerVars

LEMMA StatusNext == ASSUME TypeOK, StatusInv, [Next]_vars PROVE StatusInv'
<1> USE DEF StatusInv, Asking, TERMINAL
<1>1. CASE Emit
  <2>1. run'.status = run.status
    BY <1>1, EmitPublishes DEF Published
  <2> QED
    BY <1>1, <2>1, EmitSteps DEF Step
<1>2. CASE SetStatus
  BY <1>2, SetStatusPublishes DEF SetStatus, Published
<1>3. CASE OpenGate
  BY <1>3, OpenGatePublishes DEF OpenGate, Published
<1>4. CASE CloseGate
  BY <1>4, CloseGatePublishes DEF CloseGate, Published
<1>5. CASE NoteTop \/ NoteRollback \/ Conclude
  <2>1. run'.status = run.status
    BY <1>5, NotesPublish DEF Published
  <2> QED
    BY <1>5, <2>1 DEF NoteTop, NoteRollback, Conclude
<1>6. CASE RunTriage \/ PlanRemediation \/ AutoApprove \/ WaitForDecision \/ Execute \/ Verify
           \/ Judge \/ Rollback
  BY <1>6 DEF RunTriage, PlanRemediation, AutoApprove, WaitForDecision, Execute, Verify,
              Judge, Rollback, Raise
<1>7. CASE Clients \/ UNCHANGED vars
  BY <1>7, ClientsFrame DEF vars, workerVars
<1> QED
  BY <1>1, <1>2, <1>3, <1>4, <1>5, <1>6, <1>7, Steps DEF Worker

LEMMA SlotNext == ASSUME TypeOK, SlotInv, [Next]_vars PROVE SlotInv'
<1>1. CASE Worker \/ UNCHANGED vars
  BY <1>1, WorkerFrame DEF SlotInv, vars, slotVars, clientVars
<1>2. ASSUME NEW o \in Operators, CheckDecision(o) PROVE SlotInv'
  <2>1. UNCHANGED <<decision, signalled>>
    BY <1>2 DEF CheckDecision, slotVars
  <2>2. PICK action \in Actions : Requested(o, "checked", action) \/ Requested(o, "refused", "none")
    BY <1>2, CheckRequests
  <2>3. operator[o].at \in {"idle", "refused"}
    BY <1>2, CheckRequests
  <2> QED
    BY <2>1, <2>2, <2>3 DEF SlotInv, Requested
<1>3. ASSUME NEW o \in Operators, StoreDecision(o) PROVE SlotInv'
  <2>1. UNCHANGED signalled /\ decision' = [by |-> o, action |-> operator[o].action]
    BY <1>3 DEF StoreDecision
  <2>2. Requested(o, "stored", operator[o].action) /\ operator[o].at = "checked"
    BY <1>3, StoreRequests
  <2> QED
    BY <2>1, <2>2 DEF SlotInv, Requested
<1>4. ASSUME NEW o \in Operators, SignalDecision(o) PROVE SlotInv'
  <2>1. UNCHANGED decision /\ signalled' = TRUE
    BY <1>4 DEF SignalDecision
  <2>2. Requested(o, "accepted", operator[o].action) /\ operator[o].at = "stored"
    BY <1>4, SignalRequests
  <2> QED
    BY <2>1, <2>2 DEF SlotInv, Requested
<1>5. ASSUME NEW s \in Streams, Poll(s) \/ Disconnect(s) PROVE SlotInv'
  BY <1>5 DEF Poll, Disconnect, slotVars, SlotInv
<1> QED
  BY <1>1, <1>2, <1>3, <1>4, <1>5, Steps DEF Clients

LEMMA StreamNext == ASSUME TypeOK, StatusInv, StreamInv, [Next]_vars PROVE StreamInv'
<1>1. CASE Worker \/ UNCHANGED vars
  <2>1. UNCHANGED stream
    BY <1>1, WorkerFrame DEF vars, clientVars
  <2> QED
    BY <2>1, TerminalStops DEF StreamInv, Observable
<1>2. ASSUME NEW o \in Operators, CheckDecision(o) \/ StoreDecision(o) \/ SignalDecision(o)
      PROVE  StreamInv'
  BY <1>2 DEF CheckDecision, StoreDecision, SignalDecision, StreamInv, Observable
<1>3. ASSUME NEW s \in Streams, Poll(s) \/ Disconnect(s) PROVE StreamInv'
  <2>1. UNCHANGED run
    BY <1>3 DEF Poll, Disconnect
  <2> QED
    BY <1>3, <2>1, PollStreams, DisconnectStreams DEF StreamInv, Observable
<1> QED
  BY <1>1, <1>2, <1>3, Steps DEF Clients

\* An operator who has decided has decided for good.
LEMMA DecidedStays ==
  ASSUME TypeOK, [Next]_vars, NEW o \in Operators, operator[o].at \in {"stored", "accepted"}
  PROVE  operator'[o].at \in {"stored", "accepted"} /\ operator'[o].action = operator[o].action
<1>1. CASE Worker \/ UNCHANGED vars
  BY <1>1, WorkerFrame DEF vars, clientVars
<1>2. ASSUME NEW p \in Operators, CheckDecision(p) \/ StoreDecision(p) \/ SignalDecision(p)
      PROVE  operator'[o].at \in {"stored", "accepted"} /\ operator'[o].action = operator[o].action
  BY <1>2, CheckRequests, StoreRequests, SignalRequests DEF Requested
<1>3. ASSUME NEW s \in Streams, Poll(s) \/ Disconnect(s) PROVE UNCHANGED operator
  BY <1>3 DEF Poll, Disconnect
<1> QED
  BY <1>1, <1>2, <1>3, Steps DEF Clients

\* What an emission adds to the trace.
LEMMA Tells ==
  ASSUME TypeOK, NEW s \in Stages, run'.events = Append(run.events, s), NEW stage
  PROVE  Told(stage)' <=> Told(stage) \/ s = stage
<1>1. Has(Append(run.events, s), stage) <=> Has(run.events, stage) \/ s = stage
  BY LocalTypes, AppendHas
<1> QED
  BY <1>1 DEF Told, Has

\* No stage but an executed one tells of the execution.
LEMMA BeforeExecutionUntold ==
  ASSUME NEW e \in BOOLEAN
  PROVE  /\ ~Has(Append(Planned, "gate"), "execution") /\ ~Has(Gated(e), "execution")
         /\ Has(Append(Gated(e), "execution"), "execution")
         /\ Has(Verified(e), "execution")
<1> USE AppendHas, TraceTypes DEF Stages
<1>1. ~Has(<<>>, "execution")
  BY DEF Has
<1>2. ~Has(Append(<<>>, "ingest"), "execution")
  BY <1>1
<1>3. ~Has(Append(Append(<<>>, "ingest"), "triage"), "execution")
  BY <1>2
<1>4. ~Has(Planned, "execution")
  BY <1>3 DEF Planned
<1>5. ~Has(Append(Planned, "gate"), "execution")
  BY <1>4
<1>6. ~Has(Gated(e), "execution")
  BY <1>5 DEF Gated
<1>7. Has(Append(Gated(e), "execution"), "execution")
  OBVIOUS
<1>8. Has(Verified(e), "execution")
  BY <1>7 DEF Verified
<1> QED
  BY <1>5, <1>6, <1>7, <1>8

LEMMA TraceNext ==
  ASSUME TypeOK, StatusInv, DecisionInv, TraceInv, SuccessInv, [Next]_vars
  PROVE  TraceInv'
<1> USE DEF Executed
<1>1. CASE Emit
  <2>1. run'.status = run.status /\ run'.escalated = run.escalated /\ local' = local
    BY <1>1, EmitPublishes DEF Published
  <2>2. pc # "end" /\ run.status \notin TERMINAL
    BY <1>1 DEF Emit, Emission, StatusInv
  <2>3. Told("execution") => Told("execution")'
    <3>1. PICK s \in Stages : run'.events = Append(run.events, s)
      BY <1>1, EmitSteps DEF Stages, Step
    <3> QED
      BY <3>1, Tells
  <2>4. pc = "executed" => Told("execution")'
    <3>1. pc = "executed" => run'.events = Append(run.events, "execution")
      BY <1>1, EmitSteps DEF Step
    <3> QED
      BY <3>1, Tells DEF Stages
  <2>5. CASE Step("ingest", "ingest", "triage") \/ Step("diagnosed", "triage", "plan")
             \/ Step("planned", "remediation", "gate") \/ Step("asked", "gate", "wait")
    BY <2>1, <2>2, <2>5 DEF TraceInv, Step, Planned, TERMINAL
  <2>6. CASE Step("auto", "gate", "execute")
    BY <2>1, <2>2, <2>6 DEF TraceInv, Step, Gated, TERMINAL, DecisionInv
  <2>7. CASE Step("answered", "gate", IF Approved THEN "execute" ELSE "declined")
    BY <2>1, <2>2, <2>7 DEF TraceInv, Step, Gated, TERMINAL, DecisionInv
  <2>8. CASE Step("executed", "execution", "verify") \/ Step("verified", "verification", "judge")
             \/ Step("succeeded", "outcome", "resolved")
    BY <2>1, <2>2, <2>3, <2>4, <2>8 DEF TraceInv, Step, Verified, TERMINAL, SuccessInv
  <2>9. CASE Step("reverted", "rollback", "conclude")
    BY <2>1, <2>2, <2>3, <2>9 DEF TraceInv, Step, TERMINAL, SuccessInv
  <2>10. CASE Step("declined", "outcome", "rejected") \/ Step("no_triage", "triage", "failed")
              \/ Step("no_plan", "remediation", "failed") \/ Step("crashed", "outcome", "failed")
    BY <2>1, <2>2, <2>10 DEF TraceInv, Step, TERMINAL
  <2> QED
    BY <1>1, <2>5, <2>6, <2>7, <2>8, <2>9, <2>10, EmitSteps
<1>2. CASE OpenGate \/ CloseGate \/ NoteTop \/ NoteRollback \/ Conclude \/ SetStatus
  <2>1. run'.events = run.events /\ (Told("execution")' <=> Told("execution"))
    BY <1>2, OpenGatePublishes, CloseGatePublishes, NotesPublish, SetStatusPublishes
       DEF Published, Told
  <2>2. UNCHANGED local
    BY <1>2 DEF OpenGate, CloseGate, NoteTop, NoteRollback, Conclude, SetStatus
  <2>3. CASE OpenGate
    BY <2>1, <2>2, <2>3, OpenGatePublishes DEF OpenGate, Published, TraceInv
  <2>4. CASE CloseGate
    BY <2>1, <2>2, <2>4, CloseGatePublishes DEF CloseGate, Published, TraceInv
  <2>5. CASE NoteTop
    BY <2>1, <2>2, <2>5, NotesPublish DEF NoteTop, Published, TraceInv
  <2>6. CASE NoteRollback
    BY <2>1, <2>2, <2>6, NotesPublish DEF NoteRollback, Published, TraceInv
  <2>7. CASE Conclude
    BY <2>1, <2>2, <2>7, NotesPublish DEF Conclude, Published, TraceInv
  <2>8. CASE SetStatus
    <3>1. /\ pc \in TERMINAL /\ pc' = "end" /\ run'.status = pc /\ run'.escalated = run.escalated
      BY <2>8, SetStatusPublishes DEF SetStatus, Published
    <3> QED
      BY <2>1, <2>2, <3>1 DEF TraceInv, TERMINAL
  <2> QED
    BY <1>2, <2>3, <2>4, <2>5, <2>6, <2>7, <2>8
<1>3. CASE \/ RunTriage \/ PlanRemediation \/ AutoApprove \/ WaitForDecision \/ Execute \/ Verify
           \/ Judge \/ Rollback
  <2>1. UNCHANGED run /\ (Told("execution")' <=> Told("execution"))
    BY <1>3 DEF RunTriage, PlanRemediation, AutoApprove, WaitForDecision, Execute, Verify,
                Judge, Rollback, Told
  <2>2. CASE RunTriage \/ PlanRemediation \/ AutoApprove \/ WaitForDecision \/ Execute
    BY <2>1, <2>2 DEF RunTriage, PlanRemediation, AutoApprove, WaitForDecision, Execute, Raise,
                      TraceInv
  <2>3. CASE Verify \/ Judge \/ Rollback
    BY <2>1, <2>3 DEF Verify, Judge, Rollback, Raise, TraceInv
  <2> QED
    BY <1>3, <2>2, <2>3
<1>4. CASE Clients \/ UNCHANGED vars
  BY <1>4, ClientsFrame DEF vars, workerVars, TraceInv, Told
<1> QED
  BY <1>1, <1>2, <1>3, <1>4, Steps DEF Worker

LEMMA SuccessNext ==
  ASSUME TypeOK, StatusInv, SuccessInv, [Next]_vars
  PROVE  SuccessInv'
<1> USE DEF SuccessInv
<1>1. CASE Emit
  <2>1. /\ run'.status = run.status /\ run'.resolved = run.resolved
        /\ run'.rolled_back = run.rolled_back /\ local' = local /\ world' = world
    BY <1>1, EmitPublishes DEF Published
  <2>2. run.status \notin TERMINAL
    BY <1>1 DEF Emit, Emission, StatusInv
  <2> QED
    BY <1>1, <2>1, <2>2, EmitSteps DEF Step, TERMINAL
<1>2. CASE OpenGate
  BY <1>2, OpenGatePublishes DEF OpenGate, Published
<1>3. CASE CloseGate
  BY <1>3, CloseGatePublishes DEF CloseGate, Published
<1>4. CASE NoteTop
  BY <1>4, NotesPublish DEF NoteTop, Published
<1>5. CASE NoteRollback
  BY <1>5, NotesPublish DEF NoteRollback, Published
<1>6. CASE Conclude
  BY <1>6, NotesPublish, LocalTypes DEF Conclude, Published, StatusInv, TERMINAL
<1>7. CASE SetStatus
  <2>1. /\ pc \in TERMINAL /\ pc' = "end" /\ run'.status = pc /\ run'.resolved = run.resolved
        /\ run'.rolled_back = run.rolled_back /\ local' = local /\ world' = world
    BY <1>7, SetStatusPublishes DEF SetStatus, Published
  <2> QED
    BY <2>1 DEF TERMINAL
<1>8. CASE RunTriage \/ PlanRemediation \/ AutoApprove \/ WaitForDecision \/ Execute
  BY <1>8 DEF RunTriage, PlanRemediation, AutoApprove, WaitForDecision, Execute, Raise, TypeOK
<1>9. CASE Verify
  <2>1. CASE Raise
    BY <1>9, <2>1 DEF Verify, Raise
  <2>2. CASE ~Raise
    <3>1. PICK passed \in BOOLEAN : /\ passed => world \in Sound
                                    /\ local' = [local EXCEPT !.resolved = local.executed /\ passed]
      BY <1>9, <2>2 DEF Verify
    <3>2. local'.resolved = (local.executed /\ passed)
      BY <3>1 DEF TypeOK
    <3>3. local'.resolved => world \in Sound
      BY <3>1, <3>2
    <3> QED
      BY <1>9, <2>2, <3>3 DEF Verify, StatusInv, TERMINAL
  <2> QED
    BY <2>1, <2>2
<1>10. CASE Judge
  BY <1>10 DEF Judge
<1>11. CASE Rollback
  BY <1>11 DEF Rollback
<1>12. CASE Clients \/ UNCHANGED vars
  BY <1>12, ClientsFrame DEF vars, workerVars
<1> QED
  BY <1>1, <1>2, <1>3, <1>4, <1>5, <1>6, <1>7, <1>8, <1>9, <1>10, <1>11, <1>12, Steps DEF Worker

LEMMA DecisionNext ==
  ASSUME TypeOK, StatusInv, SlotInv, DecisionInv, TraceInv, SuccessInv, [Next]_vars
  PROVE  DecisionInv'
<1> DEFINE
  Heeded == (run.escalated /\ pc \notin {"asked", "wait"}) =>
              \E o \in Operators : /\ operator[o].at \in {"stored", "accepted"}
                                   /\ local.decision = [by |-> o, action |-> operator[o].action]
  Rest ==
    /\ pc \in BeforeGate \union {"auto"} => ~run.escalated
    /\ pc \in BeforeGate \union {"auto", "asked", "wait"} => local.decision = NoDecision
    /\ pc \in Asking \union {"answered", "declined", "rejected"} => local.escalates
    /\ pc \in Asking \union {"answered", "declined", "rejected"} => run.escalated
    /\ pc \in BeforeExecution => world = origin
    /\ local.decision.action = "reject" =>
         /\ pc \in {"close", "answered", "declined", "rejected", "end"}
         /\ world = origin /\ ~Told("execution")
    /\ pc \in {"declined", "rejected"} \/ run.status = "rejected" =>
         local.decision.action = "reject"
<1>0. DecisionInv = (Heeded /\ Rest) /\ DecisionInv' = (Heeded' /\ Rest')
  BY DEF DecisionInv
<1>1. Heeded /\ Rest
  BY DEF DecisionInv
<1>2. NoDecision.action # "reject"
  BY DEF NoDecision
<1>3. ASSUME local'.decision = local.decision,
             (run'.escalated /\ pc' \notin {"asked", "wait"}) =>
               (run.escalated /\ pc \notin {"asked", "wait"})
      PROVE  Heeded'
  BY <1>1, <1>3, DecidedStays
<1> USE DEF BeforeGate, Asking, BeforeExecution
<1>4. CASE Emit
  <2>1. /\ run'.status = run.status /\ run'.escalated = run.escalated
        /\ local' = local /\ world' = world /\ origin' = origin
    BY <1>4, EmitPublishes DEF Published
  <2>2. run.status \notin TERMINAL /\ pc' \notin {"asked"}
    BY <1>4, EmitSteps DEF Emit, Emission, StatusInv, Step
  <2>3. pc' = "wait" \/ pc # "asked"
    BY <1>4, EmitSteps DEF Step
  <2>4. Heeded'
    BY <1>3, <2>1, <2>2, <2>3, <1>4 DEF Emit, Emission
  <2>5. (local.decision.action = "reject") => ~Told("execution")'
    <3>1. ASSUME local.decision.action = "reject"
          PROVE  \E s \in {"gate", "outcome"} : run'.events = Append(run.events, s)
      BY <1>1, <1>4, <3>1, EmitSteps DEF Step, Emit, Emission
    <3> QED
      BY <1>1, <3>1, Tells DEF Stages
  <2> HIDE DEF Heeded
  <2>6. ASSUME Step("ingest", "ingest", "triage") \/ Step("diagnosed", "triage", "plan")
             \/ Step("planned", "remediation", "gate") \/ Step("auto", "gate", "execute")
             \/ Step("asked", "gate", "wait")
        PROVE  Rest'
    BY <1>1, <1>2, <2>1, <2>2, <2>5, <2>6 DEF Step, TERMINAL
  <2>7. ASSUME Step("answered", "gate", IF Approved THEN "execute" ELSE "declined")
        PROVE  Rest'
    BY <1>1, <1>2, <2>1, <2>2, <2>5, <2>7 DEF Step, TERMINAL, Approved
  <2>8. ASSUME Step("declined", "outcome", "rejected")
        PROVE  Rest'
    BY <1>1, <1>2, <2>1, <2>2, <2>5, <2>8 DEF Step, TERMINAL
  <2>9. ASSUME Step("executed", "execution", "verify") \/ Step("verified", "verification", "judge")
             \/ Step("reverted", "rollback", "conclude") \/ Step("succeeded", "outcome", "resolved")
             \/ Step("no_triage", "triage", "failed") \/ Step("no_plan", "remediation", "failed")
             \/ Step("crashed", "outcome", "failed")
        PROVE  Rest'
    BY <1>1, <1>2, <2>1, <2>2, <2>5, <2>9 DEF Step, TERMINAL
  <2>10. Rest'
    BY <1>4, <2>6, <2>7, <2>8, <2>9, EmitSteps
  <2> QED
    BY <1>0, <2>4, <2>10
<1>5. CASE OpenGate
  <2>1. /\ pc = "gate" /\ local.escalates /\ pc' = "asked" /\ UNCHANGED <<local, world, origin>>
        /\ run'.status = "awaiting_approval" /\ run'.escalated = TRUE /\ run'.events = run.events
    BY <1>5, OpenGatePublishes DEF OpenGate, Published
  <2>2. Told("execution")' <=> Told("execution")
    BY <2>1 DEF Told
  <2> QED
    BY <1>0, <1>1, <1>2, <2>1, <2>2
<1>6. CASE CloseGate
  <2>1. /\ pc = "close" /\ pc' = "answered" /\ UNCHANGED <<local, world, origin>>
        /\ run'.status = "running" /\ run'.escalated = run.escalated /\ run'.events = run.events
    BY <1>6, CloseGatePublishes DEF CloseGate, Published
  <2>2. Told("execution")' <=> Told("execution")
    BY <2>1 DEF Told
  <2>3. Heeded'
    BY <1>3, <2>1
  <2> HIDE DEF Heeded
  <2> QED
    BY <1>0, <1>1, <2>1, <2>2, <2>3
<1>7. CASE NoteTop \/ NoteRollback \/ Conclude
  <2>1. /\ UNCHANGED <<local, world, origin>>
        /\ run'.status = run.status /\ run'.escalated = run.escalated /\ run'.events = run.events
    BY <1>7, NotesPublish DEF NoteTop, NoteRollback, Conclude, Published
  <2>2. Told("execution")' <=> Told("execution")
    BY <2>1 DEF Told
  <2>3. \/ pc \in {"cause", "confidence"} /\ pc' \in {"confidence", "diagnosed"}
        \/ pc \in {"note_rollback", "conclude"} /\ pc' \in {"reverted", "succeeded", "rolled_back"}
    BY <1>7 DEF NoteTop, NoteRollback, Conclude
  <2>4. Heeded'
    BY <1>3, <2>1, <2>3
  <2> HIDE DEF Heeded
  <2> QED
    BY <1>0, <1>1, <2>1, <2>2, <2>3, <2>4
<1>8. CASE SetStatus
  <2>1. /\ pc \in TERMINAL /\ pc' = "end" /\ UNCHANGED <<local, world, origin>>
        /\ run'.status = pc /\ run'.escalated = run.escalated /\ run'.events = run.events
    BY <1>8, SetStatusPublishes DEF SetStatus, Published
  <2>2. Told("execution")' <=> Told("execution")
    BY <2>1 DEF Told
  <2>3. Heeded'
    BY <1>3, <2>1 DEF TERMINAL
  <2> HIDE DEF Heeded
  <2> QED
    BY <1>0, <1>1, <2>1, <2>2, <2>3 DEF TERMINAL
<1>9. CASE RunTriage \/ PlanRemediation \/ AutoApprove \/ Judge
  <2>1. UNCHANGED <<run, world, origin>> /\ local'.decision = local.decision
    BY <1>9 DEF RunTriage, PlanRemediation, AutoApprove, Judge, Raise, TypeOK
  <2>2. Told("execution")' <=> Told("execution")
    BY <2>1 DEF Told
  <2>3. \/ /\ pc \in {"triage", "plan", "gate"}
           /\ pc' \in {"cause", "no_triage", "planned", "no_plan", "auto", "crashed"}
        \/ pc = "judge" /\ pc' \in {"rollback", "conclude"}
    BY <1>9 DEF RunTriage, PlanRemediation, AutoApprove, Judge, Raise
  <2>4. Heeded'
    BY <1>3, <2>1, <2>3
  <2>5. run.status # "rejected"
    BY <2>3 DEF StatusInv, TERMINAL
  <2> HIDE DEF Heeded
  <2> QED
    BY <1>0, <1>1, <1>2, <2>1, <2>2, <2>3, <2>4, <2>5
<1>10. CASE WaitForDecision
  <2>1. /\ pc = "wait" /\ pc' = "close" /\ UNCHANGED <<run, world, origin, operator>> /\ signalled
        /\ local'.decision = decision /\ local'.escalates = local.escalates
    BY <1>10 DEF WaitForDecision, TypeOK, clientVars
  <2>2. Told("execution")' <=> Told("execution")
    BY <2>1 DEF Told
  <2>3. ~Told("execution")
    <3>1. run.events = Append(Planned, "gate")
      BY <2>1 DEF TraceInv
    <3> QED
      BY <3>1, BeforeExecutionUntold DEF Told, Has
  <2>4. Heeded'
    BY <2>1 DEF SlotInv
  <2> HIDE DEF Heeded
  <2>5. run.status # "rejected"
    BY <2>1 DEF StatusInv, TERMINAL
  <2> QED
    BY <1>0, <1>1, <2>1, <2>2, <2>3, <2>4, <2>5
<1>11. CASE Execute \/ Verify \/ Rollback
  <2>1. UNCHANGED <<run, origin>> /\ local'.decision = local.decision
    BY <1>11 DEF Execute, Verify, Rollback, Raise, TypeOK
  <2>2. /\ pc \in {"execute", "verify", "rollback"}
        /\ pc' \in {"executed", "verified", "note_rollback", "crashed"}
    BY <1>11 DEF Execute, Verify, Rollback, Raise
  <2>3. Heeded'
    BY <1>3, <2>1, <2>2
  <2>4. local.decision.action # "reject"
    BY <1>1, <2>2
  <2>5. run.status # "rejected"
    BY <2>2 DEF StatusInv, TERMINAL
  <2> HIDE DEF Heeded
  <2> QED
    BY <1>0, <2>1, <2>2, <2>3, <2>4, <2>5
<1>12. CASE Clients \/ UNCHANGED vars
  <2>1. UNCHANGED <<pc, run, local, world, origin>>
    BY <1>12, ClientsFrame DEF vars, workerVars
  <2>2. Told("execution")' <=> Told("execution")
    BY <2>1 DEF Told
  <2>3. Heeded'
    BY <1>3, <2>1
  <2> HIDE DEF Heeded
  <2> QED
    BY <1>0, <1>1, <2>1, <2>2, <2>3
<1> QED
  BY <1>4, <1>5, <1>6, <1>7, <1>8, <1>9, <1>10, <1>11, <1>12, Steps DEF Worker

LEMMA IInit == Init => IInv
<1> SUFFICES ASSUME Init PROVE IInv
  OBVIOUS
<1>1. TypeOK
  BY TypeInit
<1>2. StatusInv /\ SlotInv /\ SuccessInv /\ StreamInv
  BY DEF Init, StatusInv, SlotInv, SuccessInv, StreamInv, TERMINAL, Asking
<1>3. ~Told("execution")
  BY DEF Init, Told
<1>4. DecisionInv
  BY <1>3 DEF Init, DecisionInv, BeforeGate, Asking, BeforeExecution, NoDecision
<1>5. TraceInv
  BY DEF Init, TraceInv, Executed
<1> QED
  BY <1>1, <1>2, <1>4, <1>5 DEF IInv

LEMMA INext == IInv /\ [Next]_vars => IInv'
BY TypeNext, StatusNext, SlotNext, DecisionNext, TraceNext, SuccessNext, StreamNext DEF IInv

LEMMA Invariance == Spec => []IInv
BY IInit, INext, PTL DEF Spec

-----------------------------------------------------------------------------
(* What it gives. *)

\* The trace of a success, as the worker's appends and as StatusMatchesTrace
\* writes it.
LEMMA SuccessTrace ==
  ASSUME NEW e \in BOOLEAN
  PROVE  Append(Verified(e), "outcome") =
           <<"ingest", "triage", "remediation", "gate">>
           \o (IF e THEN <<"gate">> ELSE <<>>)
           \o <<"execution", "verification", "outcome">>
<1>1. CASE e
  BY <1>1 DEF Verified, Gated, Planned
<1>2. CASE ~e
  BY <1>2 DEF Verified, Gated, Planned
<1> QED
  BY <1>1, <1>2

LEMMA Heeds == IInv => HumanDecides
<1> SUFFICES ASSUME IInv PROVE HumanDecides
  OBVIOUS
<1>1. run.status = "rejected" => local.decision.action = "reject" /\ world = origin
  BY DEF IInv, DecisionInv
<1>2. (run.escalated /\ (Told("execution") \/ world # origin)) => local.decision.action # "reject"
  BY DEF IInv, DecisionInv
<1> QED
  BY <1>1, <1>2 DEF HumanDecides, IInv, DecisionInv

LEMMA Matches == IInv => StatusMatchesTrace
<1> SUFFICES ASSUME IInv PROVE StatusMatchesTrace
  OBVIOUS
<1>1. run.status = "resolved" =>
        /\ run.resolved /\ ~run.rolled_back /\ world \in Sound
        /\ run.events = Append(Verified(run.escalated), "outcome")
  BY DEF IInv, SuccessInv, TraceInv
<1>2. run.status \in TERMINAL \ {"resolved"} => ~run.resolved
  BY DEF IInv, SuccessInv, StatusInv
<1>3. (run.status \in TERMINAL \ {"failed"} /\ world # origin) => Told("execution")
  BY DEF IInv, DecisionInv, TraceInv, TERMINAL
<1> QED
  BY <1>1, <1>2, <1>3, SuccessTrace, LocalTypes DEF StatusMatchesTrace, IInv

\* The published run, the worker's locals and the clients have their types.
THEOREM TypeCorrect == Spec => []TypeOK
BY Invariance, PTL DEF IInv

\* Whatever decisions and polls race with it: a run that has published its
\* terminal status never changes again.
THEOREM FinishedRunsAreFinal == Spec => TerminalIsFinal
<1>1. IInv /\ [Next]_vars => [run.status \in TERMINAL => run' = run]_vars
  BY TerminalStops DEF IInv
<1> QED
  BY <1>1, Invariance, PTL DEF Spec, TerminalIsFinal

\* A stream that was told "done" has the whole of the finished run.
THEOREM StreamsAreComplete == Spec => []DoneIsComplete
<1>1. IInv => DoneIsComplete
  BY DEF IInv, StreamInv, DoneIsComplete
<1> QED
  BY <1>1, Invariance, PTL

\* For any number of operators who answer at once: what an escalated run goes by
\* is the decision of one that saw it awaiting one, and a rejection keeps the
\* world as it was.
THEOREM HumansDecide == Spec => []HumanDecides
BY Heeds, Invariance, PTL

\* The terminal status tells what the trace tells, and success is true.
THEOREM StatusIsTraced == Spec => []StatusMatchesTrace
BY Matches, Invariance, PTL

-----------------------------------------------------------------------------
(* The published run keeps the promise of SupervisedAction. *)

\* What has been told before the gate, and before and after the verification;
\* nobody executes, and nothing is undone, without consent.
PromiseInv ==
  /\ pc \in BeforeGate \union {"auto", "asked", "no_triage", "no_plan"} => ~Told("gate")
  /\ pc \in BeforeExecution \union {"no_triage", "no_plan", "executed", "verify", "verified"} =>
       ~Told("verification")
  /\ pc = "auto" => ~local.escalates
  /\ pc \in Executed \union {"execute", "executed"} => Consented
  /\ Told("verification") => Consented
  /\ pc \in {"rollback", "note_rollback", "reverted"} => Undoing

Unchanging == /\ Consented' <=> Consented
              /\ Undoing' <=> Undoing

\* Emissions neither give consent nor start an undoing: what they tell comes
\* after it.
LEMMA EmitPromises ==
  ASSUME IInv, PromiseInv, Emit
  PROVE  PromiseInv' /\ Unchanging
<1>0. TypeOK /\ local' = local
  BY EmitPublishes DEF IInv
<1>1. PICK s \in Stages : run'.events = Append(run.events, s)
  BY EmitSteps DEF Stages, Step
<1>2. /\ Told("gate")' <=> Told("gate") \/ s = "gate"
      /\ Told("verification")' <=> Told("verification") \/ s = "verification"
  BY <1>0, <1>1, Tells
<1>3. ASSUME NEW s1, run'.events = Append(run.events, s1), s1 \in Stages PROVE s1 = s
  <2>1. Append(run.events, s1)[Len(run.events) + 1] = s1
        /\ Append(run.events, s)[Len(run.events) + 1] = s
    BY <1>0, LocalTypes
  <2> QED
    BY <1>1, <1>3, <2>1
<1> USE DEF Consented, Undoing, BeforeGate, BeforeExecution, Asking, Executed, Stages
<1>4. ASSUME Step("ingest", "ingest", "triage") \/ Step("diagnosed", "triage", "plan")
             \/ Step("planned", "remediation", "gate")
      PROVE  PromiseInv' /\ Unchanging
  <2>1. s \notin {"gate", "verification"}
    BY <1>3, <1>4 DEF Step
  <2>2. local.decision.action = "none"
    BY <1>4 DEF Step, IInv, DecisionInv, NoDecision
  <2> QED
    BY <1>0, <1>2, <1>4, <2>1, <2>2 DEF Step, PromiseInv, Unchanging
<1>5. ASSUME Step("auto", "gate", "execute")
      PROVE  PromiseInv' /\ Unchanging
  <2>1. s = "gate"
    BY <1>3, <1>5 DEF Step
  <2> QED
    BY <1>0, <1>2, <1>5, <2>1 DEF Step, PromiseInv, Unchanging
<1>6. ASSUME \/ Step("asked", "gate", "wait")
             \/ Step("answered", "gate", IF Approved THEN "execute" ELSE "declined")
             \/ Step("declined", "outcome", "rejected")
      PROVE  PromiseInv' /\ Unchanging
  <2>1. s \in {"gate", "outcome"}
    BY <1>3, <1>6 DEF Step
  <2>2. local.escalates /\ pc \notin {"auto"} /\ pc' \notin {"auto"}
    BY <1>6 DEF Step, IInv, DecisionInv
  <2>3. ASSUME pc = "answered" PROVE local.decision.action \in Actions
    <3>1. PICK o \in Operators : /\ operator[o].at \in {"stored", "accepted"}
                              /\ local.decision = [by |-> o, action |-> operator[o].action]
      BY <1>6, <2>2, <2>3 DEF IInv, DecisionInv
    <3>2. operator[o].action \in Actions
      BY <3>1 DEF IInv, SlotInv
    <3> QED
      BY <3>1, <3>2
  <2> QED
    BY <1>0, <1>2, <1>6, <2>1, <2>2, <2>3 DEF Step, PromiseInv, Unchanging, Approved, Actions
<1>7. ASSUME Step("executed", "execution", "verify") \/ Step("reverted", "rollback", "conclude")
             \/ Step("succeeded", "outcome", "resolved")
             \/ Step("no_triage", "triage", "failed") \/ Step("no_plan", "remediation", "failed")
             \/ Step("crashed", "outcome", "failed")
      PROVE  PromiseInv' /\ Unchanging
  <2>1. s \notin {"gate", "verification"}
    BY <1>3, <1>7 DEF Step
  <2> QED
    BY <1>0, <1>2, <1>7, <2>1 DEF Step, PromiseInv, Unchanging
<1>8. ASSUME Step("verified", "verification", "judge")
      PROVE  PromiseInv' /\ Unchanging
  <2>1. s = "verification"
    BY <1>3, <1>8 DEF Step
  <2> QED
    BY <1>0, <1>2, <1>8, <2>1 DEF Step, PromiseInv, Unchanging
<1> QED
  BY <1>4, <1>5, <1>6, <1>7, <1>8, EmitSteps

\* Consent comes with the policy's or a human's answer, and an undoing with the
\* verdict; no other step of the worker brings either.
LEMMA WorkerPromises ==
  ASSUME IInv, PromiseInv, Worker, ~Emit
  PROVE  /\ PromiseInv'
         /\ Consented => Consented'
         /\ Consented' /\ ~Consented => AutoApprove \/ WaitForDecision
         /\ Undoing => Undoing'
         /\ Undoing' /\ ~Undoing => Judge
<1>0. TypeOK
  BY DEF IInv
<1>1. run'.events = run.events
  <2>1. CASE OpenGate \/ CloseGate \/ NoteTop \/ NoteRollback \/ Conclude \/ SetStatus
    BY <1>0, <2>1, OpenGatePublishes, CloseGatePublishes, NotesPublish, SetStatusPublishes
       DEF Published
  <2>2. CASE \/ RunTriage \/ PlanRemediation \/ AutoApprove \/ WaitForDecision \/ Execute
             \/ Verify \/ Judge \/ Rollback
    BY <2>2 DEF RunTriage, PlanRemediation, AutoApprove, WaitForDecision, Execute, Verify,
                Judge, Rollback
  <2> QED
    BY <2>1, <2>2 DEF Worker
<1>2. /\ Told("gate")' <=> Told("gate")
      /\ Told("verification")' <=> Told("verification")
  BY <1>1 DEF Told
<1>4. pc \in BeforeGate => local.decision.action = "none"
  BY DEF IInv, DecisionInv, NoDecision
<1> USE <1>0, <1>2 DEF Consented, Undoing, BeforeGate, BeforeExecution, Asking, Executed, PromiseInv
<1>5. CASE RunTriage \/ NoteTop
  BY <1>4, <1>5 DEF RunTriage, NoteTop, Raise
<1>6. CASE PlanRemediation
  <2>1. pc = "plan" /\ local'.decision = local.decision /\ pc' \in {"planned", "no_plan", "crashed"}
    BY <1>6 DEF PlanRemediation, Raise, TypeOK
  <2> QED
    BY <1>4, <2>1
<1>7. CASE AutoApprove
  BY <1>7 DEF AutoApprove
<1>8. CASE OpenGate \/ CloseGate
  BY <1>4, <1>8 DEF OpenGate, CloseGate
<1>9. CASE WaitForDecision
  <2>1. /\ pc = "wait" /\ pc' = "close" /\ local'.escalates = local.escalates
        /\ local'.resolved = local.resolved /\ local'.rollback_plan = local.rollback_plan
    BY <1>9 DEF WaitForDecision, TypeOK
  <2>2. local.escalates /\ local.decision.action = "none"
    BY <2>1 DEF IInv, DecisionInv, NoDecision
  <2> QED
    BY <1>9, <2>1, <2>2
<1>10. CASE Execute
  <2>1. /\ pc = "execute" /\ pc' \in {"executed", "crashed"} /\ local'.escalates = local.escalates
        /\ local'.resolved = local.resolved /\ local'.rollback_plan = local.rollback_plan
        /\ local'.decision = local.decision
    BY <1>10 DEF Execute, TypeOK
  <2> QED
    BY <2>1
<1>11. CASE Verify
  <2>1. /\ pc = "verify" /\ pc' \in {"verified", "crashed"} /\ local'.escalates = local.escalates
        /\ local'.rollback_plan = local.rollback_plan /\ local'.decision = local.decision
    BY <1>11 DEF Verify, TypeOK, Raise
  <2> QED
    BY <2>1
<1>12. CASE Judge
  <2>1. run.events = Verified(run.escalated) /\ run.escalated \in BOOLEAN
    BY <1>12, LocalTypes DEF Judge, IInv, TraceInv
  <2>2. Has(Verified(run.escalated), "verification")
    BY <2>1, TraceTypes, AppendHas DEF Verified, Stages
  <2>3. Told("verification")
    BY <2>1, <2>2 DEF Told, Has
  <2> QED
    BY <1>12, <2>3 DEF Judge
<1>13. CASE Rollback \/ NoteRollback
  BY <1>13 DEF Rollback, NoteRollback
<1>14. CASE Conclude \/ SetStatus
  BY <1>14 DEF Conclude, SetStatus, TERMINAL
<1> QED
  BY <1>5, <1>6, <1>7, <1>8, <1>9, <1>10, <1>11, <1>12, <1>13, <1>14 DEF Worker

LEMMA PromiseInvNext == IInv /\ PromiseInv /\ [Next]_vars => PromiseInv'
<1>1. ASSUME PromiseInv, Clients \/ UNCHANGED vars PROVE PromiseInv'
  BY <1>1, ClientsFrame DEF vars, workerVars, PromiseInv, Consented, Undoing, Told
<1> QED
  BY <1>1, EmitPromises, WorkerPromises, Steps

LEMMA PromiseInvariance == Spec => [](IInv /\ PromiseInv)
<1>1. Init => PromiseInv
  BY DEF Init, PromiseInv, BeforeGate, BeforeExecution, Asking, Executed, Told
<1> QED
  BY <1>1, IInit, INext, PromiseInvNext, PTL DEF Spec

\* The abstract state, by what it depends on.
AbstractionIs ==
  /\ run.status \in TERMINAL =>
       Mode = "closed" /\ Claim = IF run.status = "resolved" THEN "resolved" ELSE "unresolved"
  /\ run.status \notin TERMINAL /\ Undoing => Mode = "undoing" /\ Claim = "unresolved"
  /\ run.status \notin TERMINAL /\ ~Undoing /\ Consented => Mode = "acting" /\ Claim = "open"
  /\ run.status \notin TERMINAL /\ ~Undoing /\ ~Consented => Mode = "deciding" /\ Claim = "open"

LEMMA Abstraction == AbstractionIs
<1> USE DEF TERMINAL, AbstractionIs
<1>1. CASE run.status \in TERMINAL
  <2>1. Mode = "closed"
    BY <1>1 DEF Mode
  <2> QED
    BY <1>1, <2>1 DEF Claim
<1>2. CASE run.status \notin TERMINAL /\ Undoing
  <2>1. Mode = "undoing"
    BY <1>2 DEF Mode
  <2> QED
    BY <1>2, <2>1 DEF Claim
<1>3. CASE run.status \notin TERMINAL /\ ~Undoing /\ Consented
  <2>1. Mode = "acting"
    BY <1>3 DEF Mode
  <2> QED
    BY <1>3, <2>1 DEF Claim
<1>4. CASE run.status \notin TERMINAL /\ ~Undoing /\ ~Consented
  <2>1. Mode = "deciding"
    BY <1>4 DEF Mode
  <2> QED
    BY <1>4, <2>1 DEF Claim
<1> QED
  BY <1>1, <1>2, <1>3, <1>4

LEMMA AbstractionAfter == AbstractionIs'
BY Abstraction, PTL

LEMMA ConsentedType == Consented \in BOOLEAN /\ Consented' \in BOOLEAN
<1>1. (local.decision.action \in {"approve", "edit"}) \in BOOLEAN
      /\ (pc = "auto" \/ Told("gate")) \in BOOLEAN
  OBVIOUS
<1>2. (local.decision.action \in {"approve", "edit"})' \in BOOLEAN
      /\ (pc = "auto" \/ Told("gate"))' \in BOOLEAN
  OBVIOUS
<1> QED
  BY <1>1, <1>2, Zenon DEF Consented

LEMMA UndoingType == Undoing \in BOOLEAN /\ Undoing' \in BOOLEAN
BY DEF Undoing

\* A step that neither ends the run, nor consents, nor begins to undo, is none
\* of the contract's if the world stays, and a touch if it does not.
LEMMA SameMode ==
  ASSUME run.status \notin TERMINAL, run'.status \notin TERMINAL, Unchanging
  PROVE  UNCHANGED <<Mode, Consented, Claim>>
<1>1. Consented' = Consented
  BY ConsentedType DEF Unchanging
<1>2. CASE Undoing
  BY <1>1, <1>2, Abstraction, AbstractionAfter DEF AbstractionIs, Unchanging
<1>3. CASE ~Undoing /\ Consented
  BY <1>1, <1>3, Abstraction, AbstractionAfter DEF AbstractionIs, Unchanging
<1>4. CASE ~Undoing /\ ~Consented
  BY <1>1, <1>4, Abstraction, AbstractionAfter DEF AbstractionIs, Unchanging
<1> QED
  BY <1>2, <1>3, <1>4

\* Every step of a run is one of the contract's, or none.
LEMMA PromiseNext == IInv /\ PromiseInv /\ [Next]_vars => [Promise!Next]_(Promise!vars)
<1> SUFFICES ASSUME IInv, PromiseInv, [Next]_vars
             PROVE  Promise!Next \/ UNCHANGED <<Mode, Consented, world, Claim>>
  BY DEF Promise!vars
<1>0. TypeOK /\ StatusInv /\ StatusInv' /\ world \in Worlds /\ world' \in Worlds
  BY TypeNext, StatusNext DEF IInv, TypeOK
<1> USE DEF TERMINAL
<1>1. CASE Clients \/ UNCHANGED vars
  <2>1. UNCHANGED <<pc, run, local, world>>
    BY <1>1, ClientsFrame DEF vars, workerVars
  <2>2. Unchanging
    BY <2>1 DEF Unchanging, Consented, Undoing, Told
  <2>3. UNCHANGED <<Mode, Consented, Claim>>
    <3>1. Consented' = Consented
      BY <2>2, ConsentedType DEF Unchanging
    <3> QED
      BY <2>1, <2>2, <3>1 DEF Mode, Claim, Unchanging
  <2> QED
    BY <2>1, <2>3
<1>2. CASE Emit
  <2>1. run'.status = run.status /\ world' = world
    BY <1>0, <1>2, EmitPublishes DEF Published
  <2>2. run.status \notin TERMINAL
    BY <1>0, <1>2 DEF Emit, Emission, StatusInv
  <2> QED
    BY <1>2, <2>1, <2>2, EmitPromises, SameMode
<1>3. ASSUME Worker, ~Emit PROVE pc # "end"
  BY <1>3 DEF Worker, SetStatus, RunTriage, NoteTop, PlanRemediation, AutoApprove, OpenGate,
       WaitForDecision, CloseGate, Execute, Verify, Judge, Rollback, NoteRollback, Conclude
\* The worker's own steps, but for those that are steps of the contract.
<1>4. ASSUME Worker, ~Emit, ~AutoApprove, ~WaitForDecision, ~Judge, ~SetStatus
      PROVE  UNCHANGED <<Mode, Consented, Claim>>
  <2>1. Unchanging
    BY <1>4, WorkerPromises, ConsentedType, UndoingType DEF Unchanging
  <2>2. pc' # "end"
    BY <1>4 DEF Worker, RunTriage, NoteTop, PlanRemediation, OpenGate, CloseGate, Execute,
                Verify, Rollback, NoteRollback, Conclude, Raise
  <2> QED
    BY <1>0, <1>3, <1>4, <2>1, <2>2, SameMode DEF StatusInv
<1>5. CASE Execute \/ Rollback
  <2>1. Consented
    BY <1>5 DEF Execute, Rollback, PromiseInv, Executed
  <2>2. UNCHANGED <<Mode, Consented, Claim>>
    <3>1. Worker /\ ~Emit /\ ~AutoApprove /\ ~WaitForDecision /\ ~Judge /\ ~SetStatus
      BY <1>5 DEF Worker, Execute, Rollback, Emit, Emission, AutoApprove, WaitForDecision, Judge,
                  SetStatus
    <3> QED
      BY <1>4, <3>1
  <2>3. Mode \in {"acting", "undoing"}
    <3>1. run.status \notin TERMINAL
      BY <1>0, <1>5 DEF StatusInv, Execute, Rollback
    <3> QED
      BY <2>1, <3>1, Abstraction DEF AbstractionIs
  <2>4. Promise!Touch
    BY <1>0, <2>1, <2>2, <2>3 DEF Promise!Touch
  <2> QED
    BY <2>4 DEF Promise!Next
<1>6. CASE \/ RunTriage \/ NoteTop \/ PlanRemediation \/ OpenGate \/ CloseGate \/ Verify
           \/ NoteRollback \/ Conclude
  <2>1. Worker /\ ~Emit /\ ~AutoApprove /\ ~WaitForDecision /\ ~Judge /\ ~SetStatus
    BY <1>6 DEF Worker, RunTriage, NoteTop, PlanRemediation, OpenGate, CloseGate, Verify,
                NoteRollback, Conclude, Emit, Emission, AutoApprove, WaitForDecision, Judge,
                SetStatus
  <2>2. UNCHANGED world
    BY <1>6 DEF RunTriage, NoteTop, PlanRemediation, OpenGate, CloseGate, Verify,
                NoteRollback, Conclude, Raise
  <2> QED
    BY <1>4, <2>1, <2>2
<1>7. CASE AutoApprove \/ WaitForDecision
  <2>1. Worker /\ ~Emit /\ ~Judge
    BY <1>7 DEF Worker, AutoApprove, WaitForDecision, Emit, Emission, Judge
  <2>2. UNCHANGED <<run, world>> /\ pc \in {"gate", "wait"}
    BY <1>7 DEF AutoApprove, WaitForDecision
  <2>3. run.status \notin TERMINAL /\ run'.status \notin TERMINAL
    BY <1>0, <2>2 DEF StatusInv
  <2>4. ~Undoing /\ ~Undoing'
    BY <2>1, <2>2, WorkerPromises DEF PromiseInv, Undoing, BeforeExecution, BeforeGate, Asking
  <2>5. CASE Consented' /\ ~Consented
    <3>1. Promise!Consent
      <4>1. Consented' = TRUE
        BY <2>5, ConsentedType
      <4> QED
        BY <2>2, <2>3, <2>4, <2>5, <4>1, Abstraction, AbstractionAfter
           DEF Promise!Consent, AbstractionIs
    <3> QED
      BY <3>1 DEF Promise!Next
  <2>6. CASE ~Consented' \/ Consented
    <3>1. Unchanging
      BY <2>1, <2>4, <2>6, WorkerPromises, ConsentedType DEF Unchanging
    <3> QED
      BY <2>2, <2>3, <3>1, SameMode
  <2> QED
    BY <2>5, <2>6
<1>8. CASE Judge
  <2>1. /\ Worker /\ ~Emit /\ ~AutoApprove /\ ~WaitForDecision
        /\ UNCHANGED <<run, world>> /\ pc = "judge"
    BY <1>8 DEF Worker, Judge, Emit, Emission, AutoApprove, WaitForDecision
  <2>2. run.status \notin TERMINAL /\ run'.status \notin TERMINAL
    BY <1>0, <2>1 DEF StatusInv
  <2>3. Consented /\ Consented' = Consented /\ ~Undoing
    BY <2>1, WorkerPromises, ConsentedType DEF PromiseInv, Undoing, Executed
  <2>4. CASE Undoing'
    <3>1. Promise!GiveUp
      BY <2>1, <2>2, <2>3, <2>4, Abstraction, AbstractionAfter DEF Promise!GiveUp, AbstractionIs
    <3> QED
      BY <3>1 DEF Promise!Next
  <2>5. CASE ~Undoing'
    <3>1. Unchanging
      BY <2>3, <2>5 DEF Unchanging
    <3> QED
      BY <2>1, <2>2, <3>1, SameMode
  <2> QED
    BY <2>4, <2>5
<1>9. CASE SetStatus
  <2>1. /\ Worker /\ ~Emit /\ ~AutoApprove /\ ~WaitForDecision /\ ~Judge /\ UNCHANGED world
        /\ pc \in TERMINAL /\ run'.status = pc
    BY <1>0, <1>9, SetStatusPublishes
       DEF Worker, SetStatus, Emit, Emission, AutoApprove, WaitForDecision, Judge, Published
  <2>2. run.status \notin TERMINAL
    BY <1>0, <2>1 DEF StatusInv
  <2>3. Consented' = Consented
    BY <2>1, WorkerPromises, ConsentedType
  <2>4. Mode' = "closed" /\ Claim' = IF pc = "resolved" THEN "resolved" ELSE "unresolved"
    BY <2>1, AbstractionAfter DEF AbstractionIs
  <2>5. CASE pc = "resolved"
    <3>1. Consented /\ ~Undoing /\ world \in Sound
      BY <2>5 DEF PromiseInv, Executed, IInv, SuccessInv, Undoing
    <3>2. Promise!ClaimResolved
      BY <2>1, <2>2, <2>3, <2>4, <2>5, <3>1, Abstraction DEF Promise!ClaimResolved, AbstractionIs
    <3> QED
      BY <3>2 DEF Promise!Next
  <2>6. CASE pc # "resolved" /\ Undoing
    <3>1. Consented
      BY <2>6 DEF PromiseInv, Undoing
    <3>2. Promise!Touch
      BY <1>0, <2>1, <2>2, <2>3, <2>4, <2>6, <3>1, Abstraction DEF Promise!Touch, AbstractionIs
    <3> QED
      BY <3>2 DEF Promise!Next
  <2>7. CASE pc # "resolved" /\ ~Undoing /\ Consented
    <3>1. Promise!GiveUp
      BY <2>1, <2>2, <2>3, <2>4, <2>7, Abstraction DEF Promise!GiveUp, AbstractionIs
    <3> QED
      BY <3>1 DEF Promise!Next
  <2>8. CASE pc # "resolved" /\ ~Undoing /\ ~Consented
    <3>1. Promise!Decline
      BY <2>1, <2>2, <2>3, <2>4, <2>8, Abstraction DEF Promise!Decline, AbstractionIs
    <3> QED
      BY <3>1 DEF Promise!Next
  <2> QED
    BY <2>5, <2>6, <2>7, <2>8
<1> QED
  BY <1>1, <1>2, <1>5, <1>6, <1>7, <1>8, <1>9, Steps DEF Worker

\* The published run is a behaviour of the abstract contract: the world is
\* touched only under consent, and one true claim is made.
THEOREM PublishedPromiseIsKept == Spec => KeepsThePromise
<1>1. Init => Promise!Init
  <2> SUFFICES ASSUME Init PROVE Promise!Init
    OBVIOUS
  <2>1. ~Undoing /\ ~Consented /\ run.status \notin TERMINAL
    BY DEF Init, Undoing, Consented, Told, TERMINAL
  <2>2. Consented = FALSE
    BY <2>1, ConsentedType
  <2> QED
    BY <2>1, <2>2, Abstraction DEF AbstractionIs, Init, Promise!Init
<1>2. IInv /\ PromiseInv /\ [Next]_vars => [Promise!Next]_(Promise!vars)
  BY PromiseNext
<1> QED
  BY <1>1, <1>2, PromiseInvariance, PTL DEF Spec, KeepsThePromise, Promise!Spec

===============================================================================
