# A verification project for AIOps-Autopilot

AIOps-Autopilot takes an incident of a sandboxed compose stack through triage,
remediation planning, a human-in-the-loop (HITL) gate, execution, verification
and, when verification fails, an automatic rollback.  This directory holds TLA+
models of that system, configurations with which TLC checks them on small
instances, and proofs that TLAPS checks for every instance.  Everything is
translated from the Python source; paths below are relative to
`src/src/autopilot/` unless they start with `src/`.

    tlc -workers 2 -config IncidentRun.cfg MCIncidentRun
    tlapm IncidentOutcomeProofs.tla

## 1. Inventory

| Component | State it keeps | Operations | What makes it correct |
|---|---|---|---|
| `pipeline/run.py` run_incident | the stage, gate outcome, execution, verification, rolled_back, resolved | one async function per incident | acts only under approval; resolved is true of the stack; failure enters the rollback; ends |
| `pipeline/remediation.py` planner | none | grounding, conversion, destructive classification, risk floor | no rejected config value and no understated risk gets past it |
| `pipeline/hitl.py` gate | none; the human behind `Approver` | route, approve, edit, reject | automation stays within thresholds and non-destructive; approval is a capability |
| `pipeline/executor.py` | step outcomes | per step dry-run then apply, halt on failure | order, rehearsal, halt |
| `pipeline/verify.py` | deadline, attempts | poll until healthy or deadline | last measurement decides; terminates |
| `mcp_servers/infra.py` | none of its own | restart, scale, apply_config, rollback | dry runs change nothing; idempotence; what a failed restart leaves |
| `sandbox/controller.py`, `src/sandbox` | config file, containers, sessions, role, job queue | compose commands, probes; the app's endpoints, the worker's loop | a reset yields a clean stack whatever was left behind |
| `api/runmanager.py` | `RunState` per run: status, approval, events, revision, decision slot, event; registry; catalog | worker thread `_drive`, approver handshake, snapshot | human decides; terminal status final; trace matches; no lost decision |
| `api/app.py` | stream position | create, decision, approval, stream | stream tells the whole run and then ends |
| `pipeline/triage.py`, `structured.py`, `llm/*` | metering records, token counts | bounded retries, run cap | attempts and overshoot bounded |
| `mcp_servers/store.py`, `knowledge.py` | SQLite documents and vectors, open transactions | upsert, search, record_outcome | index and table agree; what was returned is durable; best match found |
| `mcp_servers/telemetry.py`, `exposure.py`, `guards.py` | none | read-only tools, allowlist | (unit-tested tables) |
| `benchmark/*` | metrics per scenario, mock world, model guard | run scenarios, score, classify | outcome classes match what happened; the mock agrees with the stack |
| `harness/*` | active fault | reset, inject, capture, cleanup | the fault shows in the capture; what was injected is reverted |
| `ingestion`, `cloud`, `src/dashboard` | none | parsing, one request, display | not modelled |

How they interact.  `run_incident` calls the stages in turn; triage and the
verifier reach the stack through read-only MCP tools, the executor through the
Infra tools, and only the gate clears `requires_approval`, which the executor
checks.  `RunManager._drive` repeats `run_incident` for the web API, in a thread
per run, against a mock world.  It blocks in `ApiApprover.decide` on a
`threading.Event` that a request handler sets; the handlers run in a thread
pool, the streams in the event loop, and all share the `RunState`, part of it
under a lock.

The benchmark runs the same stages against a world: the mock one, or the compose
stack, into which `ScenarioRunner` has injected a fault and from which
`LiveWorld.cleanup` reverts it.  The stack does not stand still meanwhile: its
worker pops jobs, each probe of the app may push one, containers start, idle
sessions expire.  Processes that serve knowledge share one SQLite file.

What is hard.  Partial failure (a plan that stops in the middle, a config file
written before a restart that fails, a rollback that fails itself); the two
plans of one proposal, of which only one passes the planner's guards; the
interleaving of worker, requests and streams; waiting for a human; a verifier
that decides by its last look at a stack that may still be settling; measuring with probes
that change what they measure; commands that fail half-way and processes that
are killed, with a stack that remembers; a database transaction that an
exception leaves open; first requests that race for what is lazily created.
`PROJECT.json` lists each hazard at its line with the properties aimed at it.

## 2. The modules

**`Remediation`** is the planner's pure part and the gate's reasons.  A step is
one action of the closed vocabulary, a target and the one parameter the action
reads.  Risk and confidence are whole percentages.  A config is a function from
the three keys of `AppConfigPatch`, and of a value it only matters whether it is
the key's value in `config.default.json` (`Known`).  A patch is a function from
some keys, among which may be one that the schema forbids; the grounding looks
at `feature_mode` only, as the code does.

**`InfraTools`** is the stack and the four mutating tools.  A stack is the
config file, the config the running app loaded at its start, and the services
that have a container.  A tool is an operator from a stack, its arguments and
`dry_run` to the set of its possible results, one of them for a compose command
that fails.  A failing tool is taken to have had no effect beyond the file it
wrote before; a patch with a forbidden key is refused before anything is read.
`CanBeHealthy` is the condition without which no check of the verifier
can pass; faults outside `Stack` (a held connection, a rotated credential, a
paused container), and a timeout other than the known-good one, make the
measurement nondeterministic, and an app that is sent to another downstream may
do without the sandbox's own.  The verifier skips
its backlog check when `/metrics` returns no queue depth at all; the model
assumes that it does return one when the app answers.

**`IncidentRun`** is one run: the pipeline with the human, the tools and the
stack.  `pc` says where `run_incident` is; the other variables are its locals,
the report, the stack, and two histories, the initial stack and all tool calls.
A human's edit may replace the steps and the rollback plan, which is all that
`hitl_gate` asks of it; the API's route offers the steps only.

| Action | Code |
|---|---|
| `Triage`, `PlanRemediation` | `run_triage`, `plan_remediation`; each may raise |
| `AutoApprove`, `Escalate` | the two routes of `hitl_gate` |
| `HumanApproves/Edits/EditsNothing/Rejects` | the approver's answers |
| `Execute`, `RefuseStep`, `DryRun`, `Apply`, `FinishSteps` | the loop of `execute`, for either plan |
| `Verify` | one round of `verify`, with what `run_incident` does when it ends |
| `RecordOutcome` | `_record_outcome`, which may fail |

**`SupervisedAction`** is the abstract contract: the agent observes, touches
the world only under consent given before, ends with one claim, and the claim
"resolved" is made only of a world that can be healthy.

**`RunManager`** is one run behind the API, at the grain of what another thread
can get between: the lock-protected blocks, and each attribute access outside
them.  The pipeline's stages are atomic; what they do to the mock world is any
change, and any stage may raise, since `_worker` catches whatever does.
`Emission` lists every trace event with where the worker goes next.  Operators
post decisions (check, store and signal are separate steps), streams poll and
may disconnect.

**`LlmBudget`** is the client with its `CostMeter` and the task that calls it:
`StartTask` begins a `complete_structured`, `Refuse`, `FailCall` and `Reply` are
the ways a call of `QwenClient.complete` ends, and `AfterReply` decides whether
the task returns, asks again or gives up.  The list of records is kept as its
sums.  Input and output tokens are one number.  Which replies validate is free.

**`Benchmark`** extends it, and `MockSandbox`, to `run_benchmark`: pipeline,
baseline and raw run of each fault, each in a world of its own, with one client
for all.  Each call of the language model is a step.  In a mock world so is each
tool call, and the verdict is the mock's; the plans that the two models answer
with are constants.  In a real world acting and verification end in any way:
their inside is `IncidentRun`'s and `Harness`'.  `jobs` are the runs that are
left, in the order of `Kinds`; `Runs` are all of them.  `row` is the scenario's
`ScenarioMetrics`.

| Action | Code |
|---|---|
| `OpenWorld`, `FailToOpen` | `world_factory`, outside the `try` |
| `StartScenario`, `FailGathering`, `AskModel`, `StartPlanning` | the stages up to the plan, or the baseline's prompt |
| `FailSchema` | `TriageError`, `PlanningError`, the baseline's `schema_failed` |
| `FailClient`, `FailActing` | every other exception |
| `Gate` | the planner's proposal, the gate, `GroundTruthApprover` |
| `ApplyBaseline` | the baseline's plan, ungrounded, with one replica where it names none |
| `CallTool`, `ActOnStack` | `execute` and `apply_baseline`: a call on the mock; all of them on a stack |
| `Conclude` | verification, and the row's fields |
| `Cleanup`, `AppendRow`, `Report` | the `finally`, the rows, the report |

A pipeline's rollback after a failed verification is not played on the mock: its
world is thrown away, and no field of the row depends on it but `rolled_back`,
which is `plan.rollback`.

**`Sandbox`** is the compose stack as the faults and the tools see it: it adds
to `InfraTools`' stack the paused containers, those that do not answer yet, the
sessions that hold the database's slots, the rotated credential and the job
queue.  Each command of `SandboxController` is an operator from a box to its
possible results; a command can fail with its effect done, not done, or, for the
longer ones, done in part.  `Healthz`, `Work` and `Metrics` are the app's
endpoints, `Popped` and `Counted` the worker's two steps.  A downstream url or
timeout other than the known-good one is taken not to serve.  A container that
is removed takes the data in its anonymous volume with it: `Renewed` drops the
sessions and the rotated credential with the database's, the backlog with the
queue's.

**`MockSandbox`** is the stack's offline stand-in: its config, the set of fixing
steps it has seen, the ground truth they are compared with, and what it then
shows.  `proposal_fixes` is the oracle's reading of that ground truth, from the
plan's steps; the mock's own (`Mark`) is from the configs that are written.  A
config call whose patch changes nothing writes nothing, on either side.

**`Harness`** composes the two with `ScenarioRunner`, an agent, the verifier and
`cleanup`.  Commands and the two halves of a probe are single steps, between
which the worker, the containers and the sessions move.

| Action | Code |
|---|---|
| `Start`, `Command` | `run` and `reset`; each command of reset, injection and revert |
| `BeginInjection`, `Injected` | `fault.inject`, then `_active_fault = fault` |
| `ProbeStatus`, `ProbeMetrics` | `probe`: `/healthz` and `/work`, then `/metrics` |
| `Captured`, `FailCapture`, `OpenWorld` | the end of `run`, or its failure; `LiveWorld` |
| `Act` | a tool call, on the stack and on the mock |
| `StartVerification`, `ReadAlerts`, `Judge` | a round of `verify`: two series of probes and the three checks |
| `Cleanup`, `Reverted`, `Crash` | `cleanup`, which may fail; the process is killed |
| `StartService`, `Pop`, `Count`, `OpenSessions`, `ExpireSessions` | the stack meanwhile |

Two abstractions.  `/healthz` and `/work` are one step: neither reads what the
other, or the worker, writes.  `jobs_processed` is counted from the start of a
probe series, because only its growth within one is ever read.

**`KnowledgeStore`** is one database file and the connections of the processes
that share it.  `add` is its statements (`StartAdd`, `WriteDocument` or
`Clash`, `Unindex`, `Index`, `Commit`), each of which can fail.  Where it raises,
Python's `sqlite3` leaves the transaction open: SQLite may roll all of it back
(`IoError`), or undo the failing statement only (`WriteError`, `VectorError`,
`FailCommit`), after which the document can be written without its vector in a
transaction that the next add commits.  `Refuse` is a SELECT that finds the file
locked.  A text stands for
its embedding, a query for its similarity to each text.  `Best` gives the list of
the k best scores by how many of its entries are at least each score: the code
sorts rows, and where scores tie, which row comes first is nobody's concern.  The
vector index may return any nearest rows (`Fetched`).  The worlds of the
pipeline use an in-memory store of their own; the shared file is that of the
standalone server (`mcp_servers/__main__.py`).

**`Registry`** is the web API in front of the runs: request threads between the
lines of `get_manager`, `scenarios` and `start`.  A request can fail in the middle
of filling the catalog (`FailFill`), which stays as it is then.  A restart of the
server, after which nothing is left of either, is not modelled.

**`MCIncidentRun`, `MCRunManager`, `MCBenchmark`, `MCHarness`,
`MCKnowledgeStore`, `MCRegistry`** give the constants their values for TLC.

The theorems are in modules of their own, each of which extends what it is about.

| Module | About |
|---|---|
| `IncidentRunProofs`, `IncidentOutcomeProofs` | `IncidentRun`: what is done under whose approval; what becomes of it, and that it implements `SupervisedAction` |
| `RunManagerProofs` | `RunManager`, and that it implements `SupervisedAction` too |
| `RegistryProofs` | `Registry` |
| `LlmBudgetProofs`, `BenchmarkProofs` | `LlmBudget`; `Benchmark`, and that it is a client of `LlmBudget` |
| `HarnessProofs` | `Harness` with `Sandbox` and `MockSandbox` |
| `KnowledgeStoreProofs` | `KnowledgeStore` |

Operators
commented "Seeded fault" are mutations of the operator that follows or of the
one they name, used to show that a property can fail; no action uses them.

## 3. What the runs check

| Run | Question | Instance |
|---|---|---|
| `incident` | twelve properties of a run, the refinement of `SupervisedAction` and its end among them | 4 services, 2 values of each config key, plans of up to 2 of 13 steps, 5 rollback plans, 4 grades of risk and confidence, 2 polls; the human may stay silent |
| `run_api` | eight properties of the API's run, the refinement of `SupervisedAction`, its end and that of its stream among them | 2 operators, 1 stream, 2 worlds |
| `benchmark` | eight properties of the benchmark and the budgets | a fault that takes two steps and one that none fixes, mock and real worlds, 2 models, 7 plans, calls of at most 2 tokens, 3 attempts |
| `harness` | six properties of injection, verification, mock and revert | 7 faults, any number of scenarios, 2 calls of 12 per scenario, 3 probes per capture, 2 per series, a backlog of 1 |
| `store` | four properties of the shared database | 2 connections, 2 runbooks and 2 incidents, of which one each is there at first, 2 texts, searches for 1 and 2 |
| `registry` | two properties of concurrent requests | 3 threads, 2 scenarios, 2 runs |
| `finding_*` | six statements of the repository the code does not keep | as the passing runs |

Properties of a run: `DryRunFirst`, `HaltOnFailure`, `FollowsThePlan` (execution
discipline); `AutonomyIsBounded`, `UntouchedWithoutApproval` (the gate);
`ResolvedIsEarned`, `FailureIsContained` (the report against calls and stack);
`GroundedUntilRollback` (of the modes) and `SplitOnlyByFailedRestart` (config);
`EndsUnlessHumanIsSilent`; `KeepsThePromise`.

Properties of the API's run: `DoneIsComplete` (a stream told "done" was sent
everything), `TerminalIsFinal`, `HumanDecides`, `StatusMatchesTrace`, `RunEnds`, `StreamEnds`, `KeepsThePromise`.

Properties of the benchmark: `RunCapHolds`, `TaskIsBounded`,
`FreeTierIsConserved` (the budgets); `SpendIsAttributed` (every token is in
exactly one row); `OracleIsRight` (of an escalated proposal that the ground truth
approves, the mock shows that it fixes the fault), `FixIsFinal` (the mock of a
pipeline's resolved row still has a valid mode); `BenchmarkEnds`.

Properties of the harness: `StartsClean` (every injection starts from a sound
stack, whatever came before); `FaultIsVisible` (a capture of a settled fault
shows its symptoms); `VerdictIsTrue` (what the verifier passes is sound);
`MockAgrees` (mock and stack are fixed by the same harmless calls);
`RevertRestores` (liveness: after an undisturbed revert the stack recovers and
drains).

Properties of the store: `IndexFollowsDocuments`, `ReturnedIsDurable`,
`SearchFindsTheBest` (documents of the other kind can crowd out the last hits of
a vector search but never change or skip one, and none where the over-fetch has
room for them).  Of the registry: `AcceptedIsFound`, `CatalogIsWhole`; each
states the race in which it does not hold as its exception.

### Why the bounds are enough

Two steps per plan suffice for every ordering the executor distinguishes: a
failure before, at and after a step, and the second step's dependence on the
first.  The steps include a made-up mode, a valid mode beside a made-up url, a
made-up timeout alone, and a key that the schema refuses; of a made-up value only
that it is not the known-good one can be seen, so that one stands for all.
Rollback plans of none, one and two steps include a destructive one, an
ungrounded one and the usual one.  The grades sit at the thresholds and one
beyond.  `MaxPolls = 2` has a poll that is not the last.  Replicas 0, 1, 2 and 4
are the four cases of `scale_service`.  Four services stand for the five: the app,
one that depends on another, that other, and the downstream that another url does
without.  Two operators race each
other; a third would repeat the second, because the slot holds one decision.
Streams do not influence the run or one another, so one is enough.

In `benchmark`, a call of 0, 1 or 2 tokens (`MaxCallTokens`) meets each cap
exactly, below and beyond; with three attempts a task can be stopped by its
attempts before its tokens and, at its cap of 3, by its tokens before its
attempts; the run's cap of 8 is reached within the second fault as well as the
first; the free tiers of 5 and 3 end in the middle of a call.  Two faults show
whether one scenario is charged for another.  The plans are the whole fix, half
of it, the fix in other words, the fix undone, a fix with a patch that a tool
refuses, the wrong steps and none, at a confidence that the gate lets pass and at
one that it escalates.

In `harness`, two calls reach every fixing alternative and one undoing of it;
three probes have a first, a last and one whose `/metrics` may be missed; two
samples are the fewest the telemetry server takes.  The eighth fault,
`db_outage_ambiguous`, inherits injection, revert and symptoms from the first
and differs in text.  One seeded job shows what twelve do: whether anything is
left to drain.  The verifier is only started on a backlog of at most
`MaxBacklog`; each round adds at most four jobs.  A stack is reset before a
scenario, so that what two scenarios leave behind is what one does.

In `store`, a search fetches `k * 1 + 1` rows instead of `k * 4 + 8`.  With two
documents of each kind and `k` of 1 and 2, the fetch is smaller than the index,
two documents of a kind are ranked, ties included, and the other kind's two crowd
out a hit of a search for one, which has room for one of them only.  Two texts are
before and after an update; two connections are enough for the locks, of which a
third would only find them taken as well.  In `registry`, three threads are two
that race and one that comes between or after, two scenarios make a catalog that
can be half full, and two runs are one of the race and one after it.  Its `VIEW`
leaves out the catalog, and the histories, of a manager that no request can reach
any more: no step reads them, and no property speaks of them.

### Fairness

`IncidentRun`'s `FairSpec` has weak fairness of the pipeline's steps: it is
sequential code, and every wait in it is bounded (the verifier's deadline, the
client's time-outs, compose commands returning).  The human is not fair, so
the property has the silent human as its exception.  `RunManager`'s `FairSpec`
has weak fairness of the worker thread, of a request handler once its check has
passed, and of the polls of an open stream: threads and event loop are
scheduled.  No operator need come, and no client need stay connected.
`Harness`' `Spec` has weak fairness of the containers' starts and of the worker's
two steps: Docker starts what it was told to start, and the worker loops.  No
scenario need be started or ended, and no step of the process is fair.
`Benchmark`'s `FairSpec` has weak fairness of its one thread: every request to
the model has a time-out and bounded retries, and the commands of the stack
return.

### Statements that the code does not keep

1. `DestructiveAlwaysEscalates`: "Destructive actions ALWAYS escalate"
   (`pipeline/hitl.py:11`).  Only the main steps are looked at; a destructive
   rollback plan runs after an auto-approval.
2. `RollbackConverges`: rollback "no-ops when already canonical"
   (`mcp_servers/infra.py:139`).  It compares with the file; after a failed restart
   the app keeps the other config and rollback reports success.
3. `ConfigValuesAreGrounded`: "config VALUES are grounded to the app's known-good
   set" (`pipeline/remediation.py:19`).  The mode is; a made-up downstream url or
   timeout passes, and is written.
4. `NotAwaitingIsRefused`: `api/app.py:128` and its test.  A decision that
   loses a race is answered with 200 and has no effect, or replaces the other.
5. `JudgedOnFinalState`: "fixing is judged on final state"
   (`benchmark/mockenv.py:142`).  The mock adds up fixing steps and forgets none,
   so that a config that is broken again still counts as fixed.
6. `IdenticalScores`: the scan gives "identical scores"
   (`mcp_servers/store.py:12`).  A document that was written without sqlite-vec
   keeps its old vector, or has none.

More disagreements were met and have no run.
- The planner "cannot push a hallucinated value through to the executor"
  (`pipeline/remediation.py:127`), but the rollback plan is not grounded, and a
  human may edit; `GroundedUntilRollback` says how far the statement goes.
- `residual_damage` is "NOT rolled back AND health was not restored"
  (`benchmark/metrics.py:62`), but `rolled_back` means that a rollback was attempted
  (`pipeline/run.py:145`), so that one that failed hides the damage.
- `escalation_is_correct` is "True iff no action in the executor's vocabulary
  restores health" (`benchmark/scoring.py:93`), and true of `expired_credential`.
  Scaling `db` to 0 and back to 1 makes a new container with the old credential.
- In a mock world a baseline's row can say resolved of a config that it has broken
  again (`JudgedOnFinalState`); `FixIsFinal` says that a pipeline's cannot.
- The status `rolled_back` (`api/schemas.py:18`) is also that of a failed run
  without a rollback plan.
- The revision does not bump "on every observable change"
  (`api/runmanager.py:99`): four attributes are written without it.  The next
  event bumps it, so a stream lags but, as `DoneIsComplete` shows, misses nothing
  in the end.
- `GET approval` reads the pending approval twice without the lock
  (`api/app.py:119`), and it can vanish in between.
- "One instance per app" (`api/runmanager.py:198`) does not hold of two first
  requests; a run accepted by the loser is not found again.
- The probe before an injection "also confirms reachability"
  (`harness/runner.py:39`), but a probe never raises.
- `add` is an "Upsert" and "idempotent" (`mcp_servers/store.py:142`), but of two
  processes that add the same new document one gets an exception, and keeps the
  write lock.
- The mock counts a `scale_service` to two or three replicas as a fix, which
  compose rejects for a pinned container name (`sandbox/controller.py:93`);
  `MockAgrees` has harmless calls only.

## 4. What is proved

Every invariant that a passing run checks is also a theorem about all instances,
as are `Registry`'s `TypeOK`, the action property `TerminalIsFinal` and the
refinements.  A run finds
out whether a property is true of the small instance and whether a plausible
mistake in the code would break it; the theorem says that the instance was not
too small.

| Module | Theorem | What it states |
|---|---|---|
| `IncidentRunProofs` | `TypeCorrect` | `TypeOK` (and that `apply` has a step to apply) |
| | `NothingWithoutApproval` | `UntouchedWithoutApproval` |
| | `RehearsedBeforeApplied` | `DryRunFirst` |
| | `FailureHalts` | `HaltOnFailure` |
| | `PlanIsFollowed` | `FollowsThePlan` |
| | `AutonomyBounded` | `AutonomyIsBounded` |
| `IncidentOutcomeProofs` | `SuccessIsEarned` | `ResolvedIsEarned` |
| | `FailureContained` | `FailureIsContained` |
| | `ModesAreGrounded` | `GroundedUntilRollback` |
| | `SplitIsExplained` | `SplitOnlyByFailedRestart` |
| | `PromiseIsKept` | `KeepsThePromise`: the refinement of `SupervisedAction` |
| `RunManagerProofs` | `TypeCorrect` | `TypeOK` |
| | `FinishedRunsAreFinal` | `TerminalIsFinal` |
| | `StreamsAreComplete` | `DoneIsComplete` |
| | `HumansDecide` | `HumanDecides` |
| | `StatusIsTraced` | `StatusMatchesTrace` |
| | `PublishedPromiseIsKept` | `KeepsThePromise`: the same refinement, of what the API publishes |
| `RegistryProofs` | `TypeCorrect` | `TypeOK` |
| | `AcceptedRunsAreFound` | `AcceptedIsFound` |
| | `CatalogsAreWhole` | `CatalogIsWhole` |
| | `ManagerIsKept` | a settled manager is never replaced |
| `LlmBudgetProofs` | `RunCapIsKept`, `TasksAreBounded`, `FreeTierConserved` | `RunCapHolds`, `TaskIsBounded`, `FreeTierIsConserved` of any client |
| `BenchmarkProofs` | `ClientIsAClient` | a benchmark implements `BudgetSpec` |
| | `CapHoldsAcrossScenarios`, `StagesAreBounded`, `ScenariosShareTheFreeTier` | the same three properties of a whole benchmark |
| | `TypeCorrect` | `TypeOK` |
| | `OracleJudgesTheFix` | `OracleIsRight` |
| | `PipelineFixesAreFinal` | `FixIsFinal` |
| | `SpendingIsAttributed` | `SpendIsAttributed` |
| `HarnessProofs` | `TypeCorrect` | `TypeOK` |
| | `InjectsIntoACleanStack` | `StartsClean` |
| | `FaultsAreVisible` | `FaultIsVisible` |
| | `VerdictsAreTrue` | `VerdictIsTrue` |
| | `MockSpeaksForTheStack` | `MockAgrees` |
| `KnowledgeStoreProofs` | `TypeCorrect` | `TypeOK`: one transaction at most writes |
| | `VectorsFollowDocuments` | `IndexFollowsDocuments` |
| | `ReturnedIsKept` | `ReturnedIsDurable` |
| | `SearchIsExact` | `SearchFindsTheBest` |

### From which assumptions

The named `ASSUME`s of the modules, which TLC evaluates in every run.  Most of
them give a constant its type.  The others say:

- `VocabularyAssumption`: the app is a service; each config key has a known-good
  value; "no parameter" is none of the parameters.
- `ThresholdAssumption`: the floor of a destructive step's risk is above the
  gate's risk threshold, as the code's constants are.
- `InitialAssumption`: at first the running app has loaded its config file; a
  fault that changes the file restarts the app before the incident begins.
- `SandboxAssumption`: `docker-compose.yml` has five services, of which none
  depends on the worker.
- `HarnessAssumption`: a probe series has at least two probes, which is what the
  telemetry server asks for.
- `NoAnswerAssumption` and its like: `None` is none of the values that may stand in
  its place.
- `FilesAssumption`: in the file that the processes find, vectors differ from their
  documents only where the file's own history says so.
- `BenchmarkAssumption`, `StoreAssumption`: models and documents are finitely
  many; the faults are those of the registry.

### Along which arguments

*A run, and what it does* (`IncidentRunProofs`).  The properties speak of the
history of calls and are not inductive: nothing in them says how that history
relates to where the executor is.  `IInv` adds it: before the gate there are no
calls and no approval, and the acting stages have one (`GateInv`); calls of the
rollback come only after the turn to it (`PhaseInv`); while the loop of a phase
runs, no call of that phase has failed (`CleanInv`) and every step below the
cursor has been applied (`CursorInv`); before `apply`, the last call is this
step's dry run (`RehearsedInv`); the automatic route leaves the steps unchanged
(`RouteInv`).  `DryRunEffect` and `ApplyEffect` say what the two calling actions
do to the history, `QuietStep`, `QuietEntry`, `QuietPlan` and `QuietGate` what
all others do; each part of `IInv` has a lemma with these three cases.

*A run, and what becomes of it* (`IncidentOutcomeProofs`).  `OutcomeInv` rests on
`IInv`.  The executor's "ok" is worth what `ExecutedInv` says: every approved
step was applied and nothing failed.  `ResolvedInv` carries that and the
verifier's measurement to the end, `RolledBackInv` follows an unresolved run into
its rollback.  Grounding is a property of the proposal, of what was approved
unless a human edited it, and of the modes that are written (`GroundedInv`): a
patch of another key keeps the mode that is there.  A split of file and
app starts with a config call that failed half-way, which the history keeps.

*The refinement of `SupervisedAction`.*  The map is that of `IncidentRun`:
planning and the gate are the observation, the approval is the consent, and the
end of the run is the claim.  Every action of the run is then an abstract step or
a stutter; "resolved" needs `ResolvedInv`, a change of the stack under consent
needs `GateInv`, and the steps after the claim are stutters because `UndoInv`
leaves nothing behind a rollback that could act.

*The API's run* (`RunManagerProofs`).  `IInv` says of each place of the worker
what has been published (`StatusInv`), what the trace is, as a sequence
(`TraceInv`), and what the worker knows (`SuccessInv`).  A decision that is
signalled is in the slot with an operator who was told so (`SlotInv`), which
carries what the worker read back to a human (`DecisionInv`), however operators
race.  `StreamInv` says that a stream that is done has seen the terminal
snapshot, and that it can no longer change comes from `StatusInv`.

*Requests that race* (`RegistryProofs`).  A request of which no other can replace
the manager any more is "settled"; `SettledInv` says that settled requests, and
the runs they start, are the registered manager's, and `ManagerIsKept` that it
stays.  For catalogs, `OnceInv` ties the length of a catalog to its one filler,
and `FillInv` says what is in a catalog even if it had several; a catalog that a
failing request left (`abandoned`) is the beginning of the list, and no more.

*Budgets* (`LlmBudgetProofs`, `BenchmarkProofs`).  `TaskIsBounded` is not
inductive: a task could be at its bound and ask once more.  `AskingInv` says that
a task that asks is under both bounds.  `DrawConserves` and `ReplyKeepsBounds`
say what one call does to an account and to its task.  `ClientIsAClient` shows
that each step of a benchmark is one of the client's or leaves it alone, so that
these theorems hold of it.  For `SpendIsAttributed`, `SpendInv` says where the
tokens of the scenario under way are, and `Metered`, the sum over models, equals
what was spent: one call changes one summand.  The sum is a fold over a finite
set; in place of an induction, the proof takes a smallest subset for which the
claim fails and finds a smaller one (`SmallestOf`).

*The oracle and the mock* (`BenchmarkProofs`, middle part).  Both count fixing
steps, of the plan and of what is written.  `Covered` says that what was done and
what is still to be done fix the fault together, and a call moves a step from one
to the other (`CallActs`): a config call that the mock ignores, because nothing
changes, has been counted before (`Remembers`).  Grounded steps are tame
(`GroundedIsTame`): none puts a bad mode in place of a good one, which keeps a fix
(`Kept`).

*Injection* (`HarnessProofs`, first part).  `ResetInv` says what each command of
a reset leaves for the next, from any stack at all; `InjectInv` the same of the
faults.  The worker, the clocks and the containers move between any two commands,
and a lemma for each says that these conditions survive it.

*Capture and verdict* (second part).  `CaptureInv`: once the fault has settled it
stays so, and the last `settled` snapshots show it; a stalled worker's backlog
grows from each snapshot to the next (`Growing`), hence from the first to the
last.  `VerdictInv`: what the first series saw still holds in the second, because
a stack that serves and has no agent at work can only get better.

*Mock and stack* (third part).  `Afflicted` says which part of the fault is left
in a stack, by what the mock has counted of its fix.  `AgreeInv` keeps the two
together over every harmless call (`RestartMarks`, `ScaleMarks`, `WriteMarks`),
and `MockVerdictIs` with `AfflictedShape` conclude that the mock is healthy when
nothing is left, which is when the stack is sound.

*Documents and vectors* (`KnowledgeStoreProofs`).  An open transaction lags
behind its documents in the row of the add under way and nowhere else (`Fits`).
An interruption between the statements either loses the transaction, or finds the
row finished, or leaves it without its vector and says so (`VectorErrorTurns`).
For the search, `NearestExist` says that the index can answer at all,
`NearestSuffice` that what the nearest rows lack is worse than all of them,
`FirstOfBest` that the rows of one kind among them are the first of that kind's
best, and `RoomForOthers` that the over-fetch, where it has room, leaves k of
them.

## 5. Model-checked only, and not modelled

Model-checked only: liveness (`EndsUnlessHumanIsSilent`, `RunEnds`, `StreamEnds`,
`BenchmarkEnds`, `RevertRestores`), which is out of the prover's reach because
fairness speaks of `ENABLED`.  The six findings are counterexamples, and there is
nothing to prove about them.

Not modelled: prompts and text (`redact_capture`, log signatures, the mock
model's canned answers, grouping of logs), parsing of telemetry, prices and
timings, the scoring of root causes, summaries and the model guard; the
read-only tools `query_logs` and `get_trace`, the exposure table, the seed
runbooks, the self-check and the dashboard: none of them keeps state or decides
what another component does.  A crash of the API's process is not modelled: no
run is persisted, and its threads are daemons, so that nothing of it is left to
recover.  The crash of a scenario's process and of a knowledge server are.

## 6. Plan

Done: all modules above, and a theorem for every invariant and refinement that a
run checks.  To come:

1. What is left of termination without fairness: for `IncidentRun`, `RunManager`
   and `Benchmark`, a measure that every step of the code decreases, as an action
   property.  With it, TLC's liveness results rest on fairness alone.
2. The safety part of `RevertRestores`: what each command of a revert leaves, and
   that nothing but the next scenario undoes it.
3. `SupervisedAction` itself: that a world changed without consent, or a claim
   that is untrue, is impossible for whatever implements it, so that the
   properties come from the refinement alone.
4. The exactness of the gate: which proposals are escalated, for all thresholds.
