------------------------------- MODULE Harness -------------------------------
(***************************************************************************)
(* A real scenario from the outside: the runner resets the stack, injects  *)
(* a fault command by command and captures what it looks like; an agent    *)
(* acts on it with the tools of the Infra server; the verifier measures    *)
(* it; cleanup reverts the fault.  The worker and the containers' starts   *)
(* run beside all of that, and the process can be killed at any point.     *)
(*                                                                         *)
(* The mock of the same fault gets the same calls, for comparison.         *)
(***************************************************************************)
EXTENDS MockSandbox, SequencesExt

CONSTANTS
  Scenarios,       \* the faults that are run
  AgentSteps,      \* the calls that the agent can make
  MaxActs,         \* bound: calls per scenario
  CaptureProbes,   \* probe_count of the runner
  VerifySamples,   \* samples of the verifier
  MaxBacklog,      \* bound: the verifier measures no longer backlog
  NoFault

ASSUME HarnessAssumption ==
  /\ Scenarios \subseteq FaultIds
  /\ AgentSteps \subseteq Step
  /\ MaxActs \in Nat
  /\ CaptureProbes \in Nat \ {0, 1}
  /\ VerifySamples \in Nat \ {0, 1}
  /\ MaxBacklog \in Nat
  /\ NoFault \notin FaultIds

\* None is none of the answers.
ASSUME NoAnswerAssumption ==
  /\ NoAnswer # "done" /\ NoAnswer \notin [depth : Nat, done : Nat]
  /\ \A failing \in SUBSET {"db", "queue"} : NoAnswer # failing
  /\ \A failing \in (SUBSET {"db", "queue"}) \union {NoAnswer}, answer \in WorkAnswers \union {NoAnswer} :
       NoAnswer # <<failing, answer>>

VARIABLES
  box,
  at,        \* where the process is
  fault,     \* the scenario's fault
  active,    \* _active_fault of the runner
  todo,      \* the commands of the reset, the injection or the revert to come
  half,      \* the snapshot under way: /healthz and /work, then /metrics
  snaps,     \* the snapshots of the probe series under way
  quiet,     \* the verifier's first series raised no alert
  mock,
  agent,     \* history: the calls made, and whether each was harmless
  intact,    \* history: no command has failed since the reset
  settled    \* history: the probes of the capture that met a settled fault

runner == <<at, fault, active, todo>>
probing == <<half, snaps, quiet>>
history == <<mock, agent, intact, settled>>
vars == <<box, runner, probing, history>>

NoActs == [acts |-> 0, harmless |-> TRUE]

Commands == {"down", "default", "up", "hold", "release", "rollout", "pause downstream",
             "unpause downstream", "pause worker", "unpause worker", "rotate",
             "restore", "seed", "scale 0", "scale 1", "restart app"}

Reset == <<"down", "default", "up">>

(* The fault library: what each class does, and the sign by which it is seen. *)

DbConnectionExhaustion ==
  [inject |-> <<"hold">>, revert |-> <<"release">>, sign |-> "db down"]

BadConfigRollout ==
  [inject |-> <<"rollout", "restart app">>, revert |-> <<"default", "restart app">>,
   sign |-> "config rejected"]

DownstreamDependencyTimeout ==
  [inject |-> <<"pause downstream">>, revert |-> <<"unpause downstream">>,
   sign |-> "downstream timeout"]

QueueConsumerStall ==
  [inject |-> <<"pause worker">>, revert |-> <<"unpause worker">>, sign |-> "backlog grows"]

ExpiredCredential == [inject |-> <<"rotate">>, revert |-> <<"restore">>, sign |-> "db down"]

\* Seeded fault: the backlog is seeded before the worker is paused.
SeedFirst ==
  [inject |-> <<"seed", "pause worker", "rollout", "restart app">>,
   revert |-> <<"default", "restart app", "unpause worker">>,
   sign |-> "config rejected, backlog stuck"]

\* Seeded fault: the revert leaves the worker paused.
RevertConfigOnly ==
  [inject |-> <<"pause worker", "seed", "rollout", "restart app">>,
   revert |-> <<"default", "restart app">>,
   sign |-> "config rejected, backlog stuck"]

ConfigRolloutWorkerWedge ==
  [inject |-> <<"pause worker", "seed", "rollout", "restart app">>,
   revert |-> <<"default", "restart app", "unpause worker">>,
   sign |-> "config rejected, backlog stuck"]

WorkerScaledToZero ==
  [inject |-> <<"scale 0">>, revert |-> <<"scale 1">>, sign |-> "backlog grows"]

FAULTS(f) ==
  CASE f \in PoolFaults -> DbConnectionExhaustion
    [] f = "bad_config_rollout" -> BadConfigRollout
    [] f = "downstream_timeout" -> DownstreamDependencyTimeout
    [] f = "queue_consumer_stall" -> QueueConsumerStall
    [] f = "expired_credential" -> ExpiredCredential
    [] f = "config_rollout_worker_wedge" -> ConfigRolloutWorkerWedge
    [] f = "worker_scaled_to_zero" -> WorkerScaledToZero

Run(b, command) ==
  CASE command = "down" -> Down(b)
    [] command = "default" -> WriteDefault(b)
    [] command = "up" -> Up(b)
    [] command = "hold" -> HoldSlots(b)
    [] command = "release" -> EndSessions(b)
    [] command = "rollout" -> {Result(TRUE, [b EXCEPT !.file = BadConfig])}
    [] command = "pause downstream" -> Pause(b, "downstream")
    [] command = "unpause downstream" -> Unpause(b, "downstream")
    [] command = "pause worker" -> Pause(b, "worker")
    [] command = "unpause worker" -> Unpause(b, "worker")
    [] command = "rotate" -> SetPassword(b, TRUE)
    [] command = "restore" -> SetPassword(b, FALSE)
    [] command = "seed" -> Seed(b)
    [] command = "scale 0" -> Scale(b, "worker", 0)
    [] command = "scale 1" -> Scale(b, "worker", 1)
    [] command = "restart app" -> Restart(b, "app")

-----------------------------------------------------------------------------
(* What is read off a probe series. *)

WithMetrics(series) == {i \in DOMAIN series : series[i].metrics # NoAnswer}

FirstMetrics(series) == series[Min(WithMetrics(series))].metrics
LastMetrics(series) == series[Max(WithMetrics(series))].metrics

\* last - first of a metric, over the snapshots that have it.
DepthDelta(series) == LastMetrics(series).depth - FirstMetrics(series).depth
DoneDelta(series) == LastMetrics(series).done - FirstMetrics(series).done

ComponentDown(series, c) ==
  \E i \in DOMAIN series : series[i].healthz # NoAnswer /\ c \in series[i].healthz

WorkAnswered(series, answer) == \E i \in DOMAIN series : series[i].work = answer

BacklogGrows(series) ==
  /\ Cardinality(WithMetrics(series)) >= 2
  /\ DepthDelta(series) > 0 /\ DoneDelta(series) = 0

BacklogStuck(series) ==
  /\ Cardinality(WithMetrics(series)) >= 2
  /\ LastMetrics(series).depth > 0 /\ DoneDelta(series) = 0

\* symptoms_present: the fault's signature, in the capture.
Symptoms(f, series) ==
  LET sign == FAULTS(f).sign
  IN  CASE sign = "db down" -> ComponentDown(series, "db")
        [] sign = "config rejected" -> WorkAnswered(series, "feature_mode")
        [] sign = "downstream timeout" -> WorkAnswered(series, "downstream_timeout")
        [] sign = "backlog grows" -> BacklogGrows(series)
        [] sign = "config rejected, backlog stuck" ->
             WorkAnswered(series, "feature_mode") /\ BacklogStuck(series)

\* No probe failing is also what makes get_active_alerts empty.
NoAlerts(series) == \A i \in DOMAIN series : Healthy(series[i])

\* Seeded fault: only a backlog that stands still counts against the queue.
OnlyStuck(series) ==
  WithMetrics(series) # {} =>
    ~(LastMetrics(series).depth > 0 /\ DepthDelta(series) = 0 /\ DoneDelta(series) = 0)

\* backlog_draining: neither growing nor stuck; without metrics there is no such
\* check.
BacklogDraining(series) ==
  LET growing == DepthDelta(series) > 0 /\ DoneDelta(series) = 0
      stuck   == /\ LastMetrics(series).depth > 0
                 /\ DepthDelta(series) = 0 /\ DoneDelta(series) = 0
  IN  WithMetrics(series) # {} => ~growing /\ ~stuck

\* What the verifier decides over a mock.
MockVerdict(m) ==
  LET series == [i \in 1..VerifySamples |-> MockProbe(m, i)]
  IN  NoAlerts(series) /\ BacklogDraining(series)

-----------------------------------------------------------------------------

Forgotten ==
  /\ fault' = NoFault /\ active' = NoFault /\ todo' = <<>>
  /\ half' = NoAnswer /\ snaps' = <<>> /\ quiet' = FALSE
  /\ mock' = NoFault /\ agent' = NoActs /\ intact' = FALSE /\ settled' = 0

Init ==
  /\ box \in {[file |-> c, loaded |-> c, up |-> {}, paused |-> {}, starting |-> {},
               sessions |-> "none", rotated |-> FALSE, depth |-> 0, done |-> 0,
               popped |-> FALSE] : c \in Configs}
  /\ at = "idle"
  /\ fault = NoFault /\ active = NoFault /\ todo = <<>>
  /\ half = NoAnswer /\ snaps = <<>> /\ quiet = FALSE
  /\ mock = NoFault /\ agent = NoActs /\ intact = FALSE /\ settled = 0

\* Seeded fault: the runner still knows the last scenario's fault.
StartAgain ==
  /\ at \in {"idle", "raised", "reverted"}
  /\ at' = "resetting"
  /\ fault' = NoFault /\ todo' = Reset
  /\ mock' = NoFault /\ agent' = NoActs /\ intact' = TRUE /\ settled' = 0
  /\ UNCHANGED <<box, active, probing>>

\* A new ScenarioRunner runs, whatever became of the last one.
Start ==
  /\ at \in {"idle", "raised", "reverted"}
  /\ at' = "resetting"
  /\ fault' = NoFault /\ active' = NoFault /\ todo' = Reset
  /\ mock' = NoFault /\ agent' = NoActs /\ intact' = TRUE /\ settled' = 0
  /\ UNCHANGED <<box, probing>>

\* The next command of the reset, the injection or the revert.
Command ==
  /\ at \in {"resetting", "injecting", "reverting"}
  /\ todo # <<>>
  /\ \E r \in Run(box, Head(todo)) :
       /\ box' = r.stack
       /\ \/ /\ r.ok
             /\ todo' = Tail(todo)
             /\ UNCHANGED <<at, intact>>
          \/ /\ ~r.ok
             /\ at' = "raised"
             /\ todo' = <<>>
             /\ intact' = FALSE
  /\ UNCHANGED <<fault, active, probing, mock, agent, settled>>

\* The probes that each phase takes.
Wanted ==
  CASE at = "resetting" /\ todo = <<>> -> 1
    [] at = "capturing" -> CaptureProbes
    [] at \in {"alerts", "metrics"} -> VerifySamples
    [] OTHER -> 0

FaultSettled(b) == Answers(b, "app") /\ b.sessions # "opening"

\* A probe asks /healthz and /work, and the latter may push a job.  The reset's
\* probe and the alerts look at nothing else: there it ends here.
ProbeStatus ==
  /\ half = NoAnswer
  /\ Len(snaps) < Wanted
  /\ IF at \in {"capturing", "metrics"}
     THEN /\ half' = <<Healthz(box), Work(box)>>
          /\ UNCHANGED snaps
     ELSE /\ snaps' = Append(snaps, Snapshot(Healthz(box), Work(box), NoAnswer))
          /\ UNCHANGED half
  /\ box' = Worked(box)
  /\ settled' = IF at = "capturing" /\ FaultSettled(box) THEN settled + 1 ELSE settled
  /\ UNCHANGED <<runner, quiet, mock, agent, intact>>

\* Then it asks /metrics.
ProbeMetrics ==
  /\ half # NoAnswer
  /\ snaps' = Append(snaps, Snapshot(half[1], half[2], Metrics(box)))
  /\ half' = NoAnswer
  /\ UNCHANGED <<box, runner, quiet, history>>

\* Of jobs_processed only the growth within a probe series is ever read: it is
\* counted from the start of the series.
NewSeries == [box EXCEPT !.done = 0]

\* The stack is up and was probed once: the fault, which nothing has depended on
\* so far, is injected.
BeginInjection(f) ==
  /\ at = "resetting"
  /\ todo = <<>>
  /\ Len(snaps) = 1
  /\ at' = "injecting"
  /\ fault' = f
  /\ mock' = NewMock(f)
  /\ todo' = FAULTS(f).inject
  /\ snaps' = <<>>
  /\ UNCHANGED <<box, active, half, quiet, agent, intact, settled>>

\* Only a complete injection is one that cleanup knows of.
Injected ==
  /\ at = "injecting"
  /\ todo = <<>>
  /\ at' = "capturing"
  /\ active' = fault
  /\ box' = NewSeries
  /\ UNCHANGED <<fault, todo, probing, history>>

\* The probes take longer than the detached clients need to connect.
Captured ==
  /\ at = "capturing"
  /\ Len(snaps) = CaptureProbes
  /\ box.sessions # "opening"
  /\ at' = "captured"
  /\ UNCHANGED <<box, fault, active, todo, probing, history>>

\* The logs cannot be read: run() raises with the fault injected.
FailCapture ==
  /\ at = "capturing"
  /\ Len(snaps) = CaptureProbes
  /\ at' = "raised"
  /\ snaps' = <<>>
  /\ intact' = FALSE
  /\ UNCHANGED <<box, fault, active, todo, half, quiet, mock, agent, settled>>

OpenWorld ==
  /\ at = "captured"
  /\ at' = "open"
  /\ snaps' = <<>>
  /\ settled' = 0
  /\ UNCHANGED <<box, fault, active, todo, half, quiet, mock, agent, intact>>

Harmless(step) ==
  \/ step.action \in {"restart_service", "rollback"}
  \/ step.action = "apply_config" /\ \A key \in DOMAIN step.arg : step.arg[key] = Known
  \/ step.action = "scale_service" /\ step.arg = 1

\* A tool call of the agent, to the stack and, as long as none has failed, to the
\* mock, where none does.
Act(step) ==
  /\ at \in {"open", "resolved", "unresolved"}
  /\ agent.acts < MaxActs
  /\ \E r \in Call(box, step) :
       /\ box' = r.stack
       /\ intact' = (intact /\ r.ok)
  /\ mock' = IF intact' THEN MockCall(mock, step) ELSE NoFault
  /\ agent' = [acts |-> agent.acts + 1, harmless |-> agent.harmless /\ Harmless(step)]
  /\ at' = "open"
  /\ UNCHANGED <<fault, active, todo, probing, settled>>

StartVerification ==
  /\ at = "open"
  /\ box.depth <= MaxBacklog
  /\ at' = "alerts"
  /\ UNCHANGED <<box, fault, active, todo, half, snaps, quiet, history>>

\* get_active_alerts has its series; query_metrics takes another.
ReadAlerts ==
  /\ at = "alerts"
  /\ Len(snaps) = VerifySamples
  /\ quiet' = NoAlerts(snaps)
  /\ snaps' = <<>>
  /\ at' = "metrics"
  /\ box' = NewSeries
  /\ UNCHANGED <<fault, active, todo, half, history>>

\* All checks pass, or the deadline has passed, or the checks are made again.
Judge ==
  /\ at = "metrics"
  /\ Len(snaps) = VerifySamples
  /\ \/ /\ quiet /\ BacklogDraining(snaps)
        /\ at' = "resolved"
     \/ /\ ~(quiet /\ BacklogDraining(snaps))
        /\ at' = "unresolved"
     \/ /\ ~(quiet /\ BacklogDraining(snaps))
        /\ box.depth <= MaxBacklog
        /\ at' = "alerts"
  /\ quiet' = FALSE
  /\ snaps' = <<>>
  /\ UNCHANGED <<box, fault, active, todo, half, history>>

\* cleanup() reverts the active fault, if there is one.
Cleanup ==
  /\ at \in {"open", "resolved", "unresolved", "raised"}
  /\ active # NoFault
  /\ at' = "reverting"
  /\ todo' = FAULTS(active).revert
  /\ UNCHANGED <<box, fault, active, probing, history>>

Reverted ==
  /\ at = "reverting"
  /\ todo = <<>>
  /\ at' = "reverted"
  /\ active' = NoFault
  /\ UNCHANGED <<box, fault, todo, probing, history>>

\* The process is killed; the stack goes on.
Crash ==
  /\ at # "idle"
  /\ at' = "idle"
  /\ Forgotten
  /\ UNCHANGED box

-----------------------------------------------------------------------------
(* What goes on in the stack meanwhile. *)

StackBecomes(b) == box' = b /\ UNCHANGED <<runner, probing, history>>

StartService(s) == Starts(box, s) /\ StackBecomes(Started(box, s))

Pop == CanPop(box) /\ StackBecomes(Popped(box))

Count ==
  /\ CanCount(box)
  /\ StackBecomes(IF at \in {"capturing", "metrics"} /\ Len(snaps) < Wanted THEN Counted(box)
            ELSE [Counted(box) EXCEPT !.done = 0])

OpenSessions == box.sessions = "opening" /\ StackBecomes([box EXCEPT !.sessions = "held"])

\* 600 s is more than an injection and a capture take.
ExpireSessions ==
  /\ box.sessions = "held"
  /\ at \notin {"injecting", "capturing"}
  /\ StackBecomes([box EXCEPT !.sessions = "expired"])

Next ==
  \/ Start
  \/ Command \/ ProbeStatus \/ ProbeMetrics
  \/ \E f \in Scenarios : BeginInjection(f)
  \/ Injected \/ Captured \/ FailCapture \/ OpenWorld
  \/ \E step \in AgentSteps : Act(step)
  \/ StartVerification \/ ReadAlerts \/ Judge
  \/ Cleanup \/ Reverted \/ Crash
  \/ \E s \in Services : StartService(s)
  \/ Pop \/ Count \/ OpenSessions \/ ExpireSessions

\* The containers and the worker run; nobody has to start a scenario or end one.
Fairness ==
  /\ WF_vars(\E s \in Services : StartService(s))
  /\ WF_vars(Pop) /\ WF_vars(Count)

Spec == Init /\ [][Next]_vars /\ Fairness

-----------------------------------------------------------------------------

Phases == {"idle", "resetting", "injecting", "capturing", "captured", "open", "alerts",
           "metrics", "resolved", "unresolved", "raised", "reverting", "reverted"}

\* The components have their types.
TypeOK ==
  /\ box \in Box
  /\ box.starting \union box.paused \subseteq box.up
  /\ at \in Phases
  /\ fault \in FaultIds \union {NoFault}
  /\ active \in {fault, NoFault}
  /\ todo \in Seq(Commands)
  /\ half # NoAnswer => half[1] = NoAnswer \/ half[1] \subseteq {"db", "queue"}
  /\ Len(snaps) <= Wanted \/ at = "captured"
  /\ quiet \in BOOLEAN
  /\ mock \in Mock \union {NoFault}
  /\ agent \in [acts : 0..MaxActs, harmless : BOOLEAN]
  /\ intact \in BOOLEAN
  /\ settled \in 0..CaptureProbes

\* The reset is the hard guarantee: whatever the last scenario, its agent, a
\* failed revert or a crash left behind, a fault is injected into a stack that
\* has nothing wrong with it, and with no job but that of the probe.
StartsClean ==
  at = "injecting" /\ todo = FAULTS(fault).inject =>
    /\ Sound(box)
    /\ box.file = Canonical
    /\ box.starting \subseteq {"worker"}
    /\ box.depth <= 1

\* A capture in which two probes met the settled fault shows the symptoms that
\* the fault library lists for it, whatever the worker did meanwhile.
FaultIsVisible == at = "captured" /\ settled >= 2 => Symptoms(fault, snaps)

\* When the verifier calls the incident resolved, nothing is wrong with the
\* stack: its two probe series, taken while the worker and the probes
\* themselves move the queue, pass over no broken stack.
VerdictIsTrue == at = "resolved" => Sound(box)

\* The mock speaks for the stack: after harmless calls that all succeed, the
\* verifier passes the mock exactly when nothing is wrong with the stack, so
\* that REQUIRED_FIX_STEPS is true of it.  Sessions that expired are the
\* exception: the stack heals and the mock does not.
MockAgrees ==
  /\ at \in {"open", "resolved", "unresolved"}
  /\ intact /\ agent.harmless
  /\ box.sessions # "expired"
  => (MockVerdict(mock) <=> Sound(box))

Recovered(b) == Sound(b) /\ b.starting = {} /\ b.depth = 0 /\ ~b.popped

\* A fault that was injected and reverted without a failure, and that no agent
\* touched, leaves a stack that recovers: the containers come up and the worker
\* drains the backlog, unless the next scenario comes first.
RevertRestores ==
  (at = "reverted" /\ intact /\ agent.acts = 0) ~> (Recovered(box) \/ at # "reverted")

\* A comment of the mock's write_app_config: fixing is judged on final state.
JudgedOnFinalState ==
  mock # NoFault /\ mock.fault \in ConfigFaults /\ fixed(mock) => mock.config["feature_mode"] = Known

=============================================================================
