---------------------------- MODULE HarnessProofs ----------------------------
(***************************************************************************)
(* Proofs about Harness, for any services' dependencies, scenarios, agent  *)
(* and numbers of probes.                                                  *)
(***************************************************************************)
EXTENDS Harness, FiniteSetTheorems, WellFoundedInduction, TLAPS

-----------------------------------------------------------------------------
(* Types. *)

Boxes == {b \in Box : b.starting \union b.paused \subseteq b.up}

Healths == (SUBSET {"db", "queue"}) \union {NoAnswer}
Works == WorkAnswers \union {NoAnswer}
Snaps == [healthz : Healths, work : Works, metrics : [depth : Nat, done : Nat] \union {NoAnswer}]

LEMMA ServicesType ==
  /\ Services = {"app", "worker", "downstream", "db", "queue"}
  /\ Canonical \in Configs /\ BadConfig \in Configs /\ BadConfig # Canonical
  /\ \A key \in ConfigKeys : Canonical[key] = Known
  /\ BadConfig["feature_mode"] # Known /\ DOMAIN Canonical = ConfigKeys
  /\ Backlog \in Nat \ {0}
  /\ \A s \in Services : DependsOn[s] \subseteq Services
BY SandboxAssumption, DependsOnAssumption, VocabularyAssumption
DEF Canonical, BadConfig, Configs, ConfigKeys

\* What the faults roll out is another mode.
LEMMA BadConfigIs == \A key \in ConfigKeys : key # "feature_mode" => BadConfig[key] = Known
BY DEF BadConfig, Canonical

\* A config with the known-good values is the default one.
LEMMA CanonicalIs ==
  ASSUME NEW config \in Configs, \A key \in ConfigKeys : config[key] = Known
  PROVE  config = Canonical
BY DEF Canonical, Configs

\* A patch within the schema makes a config of a config.
LEMMA PatchedIs ==
  ASSUME NEW config \in Configs, NEW patch \in Patches
  PROVE  /\ Patched(config, patch) \in Configs
         /\ \A key \in ConfigKeys :
              Patched(config, patch)[key] = IF key \in DOMAIN patch THEN patch[key] ELSE config[key]
<1>1. PICK keys \in SUBSET (ConfigKeys \union {"other"}) : patch \in [keys -> Values]
  BY DEF Patches
<1>2. \A key \in ConfigKeys : (IF key \in DOMAIN patch THEN patch[key] ELSE config[key]) \in Values
  BY <1>1 DEF Configs
<1>3. QED
  BY <1>2 DEF Patched, Configs

LEMMA AnswersType ==
  ASSUME NEW b \in Boxes
  PROVE  /\ Healthz(b) \in Healths /\ Work(b) \in Works
         /\ Metrics(b) \in [depth : Nat, done : Nat] \union {NoAnswer}
<1>1. Healthz(b) \in Healths
  BY DEF Healthz, Healths
<1>2. Work(b) \in Works
  BY DEF Work, Works, WorkAnswers, Downstream
<1>3. Metrics(b) \in [depth : Nat, done : Nat] \union {NoAnswer}
  BY DEF Metrics, Boxes, Box
<1> QED
  BY <1>1, <1>2, <1>3

\* What restarting, creating or removing containers ends leaves a box.
LEMMA RenewedType ==
  ASSUME NEW b \in Box, b.paused \union b.starting \subseteq Services, NEW S \in SUBSET Services,
         b.paused \ S \subseteq b.up
  PROVE  Renewed(b, S) \in Boxes
<1> DEFINE rotated == b.rotated /\ "db" \notin S \ b.up
           depth == IF "queue" \in S \ b.up THEN 0 ELSE b.depth
           done == IF "queue" \in S \ b.up THEN 0 ELSE b.done
           sessions == IF "db" \in S THEN "none" ELSE b.sessions
           popped == b.popped /\ "worker" \notin S
<1>1. /\ rotated \in BOOLEAN /\ depth \in Nat /\ done \in Nat /\ popped \in BOOLEAN
      /\ sessions \in {"none", "opening", "held", "expired"}
  BY DEF Boxes, Box
<1>2. Renewed(b, S) =
        [b EXCEPT !.paused = @ \ S, !.starting = (@ \union S) \intersect b.up,
                  !.sessions = sessions, !.rotated = rotated, !.depth = depth,
                  !.done = done, !.popped = popped]
  BY DEF Renewed, Boxes, Box
<1> DEFINE paused == b.paused \ S
           starting == (b.starting \union S) \intersect b.up
<1>3. paused \in SUBSET Services /\ starting \in SUBSET Services /\ starting \union paused \subseteq b.up
  BY DEF Boxes, Box
<1>4. b \in Box
  BY DEF Boxes
<1>5. Renewed(b, S) =
        [b EXCEPT !.paused = paused, !.starting = starting, !.sessions = sessions,
                  !.rotated = rotated, !.depth = depth, !.done = done, !.popped = popped]
  BY <1>2, <1>4 DEF Box
<1> HIDE DEF rotated, depth, done, sessions, popped, paused, starting
<1>6. Renewed(b, S) \in Box
  BY <1>1, <1>3, <1>4, <1>5 DEF Box
<1> QED
  BY <1>3, <1>4, <1>5, <1>6 DEF Boxes, Box


LEMMA ResultFields ==
  ASSUME NEW st
  PROVE  /\ Result(TRUE, st).ok /\ Result(TRUE, st).stack = st
         /\ ~Result(FALSE, st).ok /\ Result(FALSE, st).stack = st
BY DEF Result

\* A command works, or it fails and leaves what there was.
LEMMA Attempted ==
  ASSUME NEW b, NEW after, NEW r \in Attempt(b, after)
  PROVE  (r.ok /\ r.stack = after) \/ (~r.ok /\ r.stack = b)
<1>1. CASE r = Result(TRUE, after)
  BY <1>1, ResultFields
<1>2. CASE r = Result(FALSE, b)
  BY <1>2, ResultFields
<1> QED
  BY <1>1, <1>2, Zenon DEF Attempt

LEMMA AttemptType ==
  ASSUME NEW b \in Boxes, NEW after \in Boxes
  PROVE  \A r \in Attempt(b, after) : r.stack \in Boxes
BY Attempted

LEMMA ResultType ==
  ASSUME NEW b \in Boxes
  PROVE  Result(TRUE, b).stack \in Boxes /\ Result(FALSE, b).stack \in Boxes
BY ResultFields

LEMMA RunIs ==
  ASSUME NEW b
  PROVE  /\ Run(b, "down") = Down(b) /\ Run(b, "default") = WriteDefault(b) /\ Run(b, "up") = Up(b)
         /\ Run(b, "hold") = HoldSlots(b) /\ Run(b, "release") = EndSessions(b)
         /\ Run(b, "rollout") = {Result(TRUE, [b EXCEPT !.file = BadConfig])}
         /\ Run(b, "pause downstream") = Pause(b, "downstream")
         /\ Run(b, "unpause downstream") = Unpause(b, "downstream")
         /\ Run(b, "pause worker") = Pause(b, "worker")
         /\ Run(b, "unpause worker") = Unpause(b, "worker")
         /\ Run(b, "rotate") = SetPassword(b, TRUE) /\ Run(b, "restore") = SetPassword(b, FALSE)
         /\ Run(b, "seed") = Seed(b)
         /\ Run(b, "scale 0") = Scale(b, "worker", 0) /\ Run(b, "scale 1") = Scale(b, "worker", 1)
         /\ Run(b, "restart app") = Restart(b, "app")
BY DEF Run

LEMMA ResetType ==
  ASSUME NEW b \in Boxes
  PROVE  \A r \in Down(b) \union WriteDefault(b) \union Up(b) : r.stack \in Boxes
<1>1. /\ Emptied(b) \in Boxes /\ Created(b) \in Boxes /\ [b EXCEPT !.file = Canonical] \in Boxes
  BY ServicesType DEF Emptied, Created, Boxes, Box
<1>2. \A r \in Down(b) : r.stack \in Boxes
  BY <1>1, AttemptType, ResultType DEF Down
<1>3. \A r \in Up(b) : r.stack \in Boxes
  BY <1>1, AttemptType, ResultType DEF Up
<1>4. \A r \in WriteDefault(b) : r.stack \in Boxes
  BY <1>1, ResultType DEF WriteDefault
<1> QED
  BY <1>2, <1>3, <1>4

LEMMA HoldSlotsType ==
  ASSUME NEW b \in Boxes
  PROVE  \A r \in HoldSlots(b) : r.stack \in Boxes
<1>1. [b EXCEPT !.sessions = "opening"] \in Boxes
  BY DEF Boxes, Box
<1> QED
  BY <1>1, AttemptType, ResultType DEF HoldSlots

LEMMA PsqlType ==
  ASSUME NEW b \in Boxes, NEW after \in Boxes
  PROVE  \A r \in Psql(b, after) : r.stack \in Boxes
BY AttemptType, ResultType DEF Psql

LEMMA PauseType ==
  ASSUME NEW b \in Boxes, NEW s \in Services
  PROVE  \A r \in Pause(b, s) \union Unpause(b, s) : r.stack \in Boxes
<1>1. s \in b.up => [b EXCEPT !.paused = @ \union {s}] \in Boxes
  BY DEF Boxes, Box
<1>2. [b EXCEPT !.paused = @ \ {s}] \in Boxes
  BY DEF Boxes, Box
<1>3. \A r \in Pause(b, s) : r.stack \in Boxes
  BY <1>1, AttemptType, ResultType DEF Pause
<1>4. \A r \in Unpause(b, s) : r.stack \in Boxes
  <2>1. s \in b.paused => s \in b.up
    BY DEF Boxes
  <2> QED
    BY <2>1, <1>2, AttemptType, ResultType DEF Unpause
<1> QED
  BY <1>3, <1>4

LEMMA SeedType ==
  ASSUME NEW b \in Boxes
  PROVE  \A r \in Seed(b) : r.stack \in Boxes
<1>1. \A k \in Nat : [b EXCEPT !.depth = @ + k] \in Boxes
  BY DEF Boxes, Box
<1>2. Backlog \in Nat /\ 0..(Backlog - 1) \subseteq Nat
  BY ServicesType
<1> QED
  BY <1>1, <1>2, ResultType DEF Seed

LEMMA RestartType ==
  ASSUME NEW b \in Boxes, NEW s \in Services
  PROVE  \A r \in Restart(b, s) : r.stack \in Boxes
<1> DEFINE after == Restarted(b, s)
<1>1. /\ after \in Box /\ after.paused = b.paused /\ after.starting = b.starting
      /\ after.up = b.up
  BY DEF Restarted, Boxes, Box
<1>2. b.paused \union b.starting \subseteq b.up /\ b.up \subseteq Services
  BY DEF Boxes, Box
<1>3. Renewed(after, {s} \intersect b.up) \in Boxes
  <2> HIDE DEF after
  <2> QED
    BY <1>1, <1>2, RenewedType
<1> QED
  BY <1>3, AttemptType DEF Restart

LEMMA ScaledType ==
  ASSUME NEW b \in Boxes, NEW s \in Services, NEW n
  PROVE  LET after == Scaled(b, s, n)
         IN  /\ after \in Box /\ after.paused = b.paused /\ after.starting = b.starting
             /\ Renewed(after, (after.up \ b.up) \union (b.up \ after.up)) \in Boxes
<1> DEFINE after == Scaled(b, s, n)
           S == (after.up \ b.up) \union (b.up \ after.up)
<1>1. after \in Box /\ after.paused = b.paused /\ after.starting = b.starting
  BY ServicesType DEF Scaled, Boxes, Box
<1> HIDE DEF after
<1>2. b.paused \union b.starting \subseteq b.up /\ b.up \subseteq Services /\ after.up \subseteq Services
  BY <1>1 DEF Boxes, Box
<1>3. S \in SUBSET Services /\ after.paused \ S \subseteq after.up
  BY <1>1, <1>2
<1> HIDE DEF S
<1>4. Renewed(after, S) \in Boxes
  BY <1>1, <1>2, <1>3, RenewedType
<1> QED
  BY <1>1, <1>4 DEF after, S

LEMMA ScaleType ==
  ASSUME NEW b \in Boxes, NEW s \in Services, NEW n
  PROVE  \A r \in Scale(b, s, n) : r.stack \in Boxes
BY ScaledType, AttemptType DEF Scale

LEMMA RunType ==
  ASSUME NEW b \in Boxes, NEW command \in Commands
  PROVE  \A r \in Run(b, command) : r.stack \in Boxes
<1>1. CASE command \in {"down", "default", "up"}
  BY <1>1, ResetType, RunIs
<1>2. CASE command = "rollout"
  <2>1. [b EXCEPT !.file = BadConfig] \in Boxes
    BY ServicesType DEF Boxes, Box
  <2> QED
    BY <1>2, <2>1, RunIs, ResultType
<1>3. \A r \in Run(b, "hold") : r.stack \in Boxes
  BY RunIs, HoldSlotsType
<1>4. \A r \in Run(b, "release") \union Run(b, "rotate") \union Run(b, "restore") : r.stack \in Boxes
  <2>1. /\ [b EXCEPT !.sessions = IF @ = "held" THEN "none" ELSE @] \in Boxes
        /\ [b EXCEPT !.rotated = TRUE] \in Boxes /\ [b EXCEPT !.rotated = FALSE] \in Boxes
    BY DEF Boxes, Box
  <2>2. \A r \in EndSessions(b) : r.stack \in Boxes
    BY <2>1, PsqlType DEF EndSessions
  <2>3. \A r \in SetPassword(b, TRUE) \union SetPassword(b, FALSE) : r.stack \in Boxes
    BY <2>1, PsqlType DEF SetPassword
  <2> QED
    BY <2>2, <2>3, RunIs
<1>5. /\ \A r \in Run(b, "pause downstream") \union Run(b, "unpause downstream") : r.stack \in Boxes
      /\ \A r \in Run(b, "pause worker") \union Run(b, "unpause worker") : r.stack \in Boxes
  <2>1. "worker" \in Services /\ "downstream" \in Services
    BY ServicesType
  <2>2. \A r \in Pause(b, "worker") \union Unpause(b, "worker") : r.stack \in Boxes
    BY <2>1, PauseType
  <2>3. \A r \in Pause(b, "downstream") \union Unpause(b, "downstream") : r.stack \in Boxes
    BY <2>1, PauseType
  <2> QED
    BY <2>2, <2>3, RunIs
<1>6. \A r \in Run(b, "seed") \union Run(b, "restart app") : r.stack \in Boxes
  <2>1. "app" \in Services
    BY ServicesType
  <2> QED
    BY <2>1, RunIs, SeedType, RestartType
<1>7. \A r \in Run(b, "scale 0") \union Run(b, "scale 1") : r.stack \in Boxes
  <2>1. "worker" \in Services
    BY ServicesType
  <2> QED
    BY <2>1, RunIs, ScaleType
<1> QED
  BY <1>1, <1>2, <1>3, <1>4, <1>5, <1>6, <1>7 DEF Commands

-----------------------------------------------------------------------------
(* The agent's calls, on the stack and on the mock. *)

\* What an Infra tool leaves alone, and what of the containers it ends.
LEMMA InvokeKeeps ==
  ASSUME NEW b \in Boxes, NEW step \in Step, NEW r \in Invoke(b, step, FALSE)
  PROVE  /\ r.stack \in Box /\ r.stack.paused = b.paused /\ r.stack.starting = b.starting
         /\ r.stack.sessions = b.sessions
         /\ step.action = "scale_service" \/ r.stack.up = b.up
<1> DEFINE Keeps(q) == /\ q.stack \in Box /\ q.stack.paused = b.paused
                       /\ q.stack.starting = b.starting /\ q.stack.sessions = b.sessions
<1>1. /\ step.target \in Services
      /\ step.action \in {"restart_service", "rollback", "scale_service", "apply_config"}
      /\ step.action = "apply_config" => step.arg \in Patches
  BY DEF Step
<1>2. b \in Box
  BY DEF Boxes
<1>3. \A s \in Services : /\ Restarted(b, s) \in Box /\ Restarted(b, s).up = b.up
                          /\ Restarted(b, s).paused = b.paused
                          /\ Restarted(b, s).starting = b.starting
                          /\ Restarted(b, s).sessions = b.sessions
  BY <1>2 DEF Restarted, Box
<1>4. ASSUME NEW config \in Configs
      PROVE  \A q \in WriteConfig(b, config, FALSE) : Keeps(q) /\ q.stack.up = b.up
  <2> DEFINE written == [b EXCEPT !.file = config]
  <2>1. /\ written \in Box /\ written.up = b.up /\ written.paused = b.paused
        /\ written.starting = b.starting /\ written.sessions = b.sessions
    BY <1>2 DEF Box
  <2> HIDE DEF written
  <2>2. /\ Restarted(written, "app") \in Box /\ Restarted(written, "app").up = b.up
        /\ Restarted(written, "app").paused = b.paused
        /\ Restarted(written, "app").starting = b.starting
        /\ Restarted(written, "app").sessions = b.sessions
    BY <2>1 DEF Restarted, Box
  <2>3. \A q \in WriteConfig(b, config, FALSE) :
          q \in {Result(TRUE, b), Result(TRUE, Restarted(written, "app")), Result(FALSE, written)}
    BY DEF WriteConfig, written
  <2> QED
    BY <1>2, <2>1, <2>2, <2>3, ResultFields
<1>5. CASE step.action = "restart_service"
  <2>1. r \in {Result(TRUE, Restarted(b, step.target)), Result(FALSE, b)}
    BY <1>5 DEF Invoke, RestartService
  <2> QED
    BY <1>1, <1>2, <1>3, <2>1, ResultFields
<1>6. CASE step.action = "scale_service"
  <2>1. r \in {Result(TRUE, Scaled(b, step.target, step.arg)), Result(TRUE, b), Result(FALSE, b)}
    <3>1. r \in ScaleService(b, step.target, step.arg, FALSE)
      BY <1>6 DEF Invoke
    <3>2. step.arg \notin 0..3 \/ step.arg \in 2..3 \/ step.arg \in 0..1
      OBVIOUS
    <3> QED
      BY <3>1, <3>2 DEF ScaleService
  <2>2. Scaled(b, step.target, step.arg).sessions = b.sessions
    BY <1>2 DEF Scaled, Box
  <2>3. Keeps(Result(TRUE, Scaled(b, step.target, step.arg)))
    <3> DEFINE after == Scaled(b, step.target, step.arg)
    <3>1. after \in Box /\ after.paused = b.paused /\ after.starting = b.starting
      BY <1>1, ScaledType
    <3>2. after.sessions = b.sessions
      BY <2>2
    <3> HIDE DEF after
    <3> QED
      BY <3>1, <3>2, ResultFields DEF after
  <2> QED
    BY <1>2, <1>6, <2>1, <2>3, ResultFields
<1>7. CASE step.action \in {"apply_config", "rollback"}
  <2>1. Canonical \in Configs /\ b.file \in Configs
    BY <1>2, ServicesType DEF Box
  <2>2. CASE step.action = "rollback"
    BY <1>1, <1>4, <2>1, <2>2 DEF Invoke, Rollback
  <2>3. CASE step.action = "apply_config"
    <3>1. r \in ApplyConfig(b, step.arg, FALSE) /\ Patched(b.file, step.arg) \in Configs
      BY <1>1, <2>1, <2>3, PatchedIs DEF Invoke
    <3>2. r \in WriteConfig(b, Patched(b.file, step.arg), FALSE) \/ r = Result(FALSE, b)
      BY <3>1, Zenon DEF ApplyConfig
    <3> QED
      BY <1>2, <1>4, <3>1, <3>2, ResultFields
  <2> QED
    BY <1>7, <2>2, <2>3
<1> QED
  BY <1>1, <1>5, <1>6, <1>7

LEMMA CallType ==
  ASSUME NEW b \in Boxes, NEW step \in Step, NEW r \in Call(b, step)
  PROVE  r.stack \in Boxes /\ r.stack.sessions \in {b.sessions, "none"}
<1>1. PICK q \in Invoke(b, step, FALSE) :
        r = Result(q.ok, Renewed(q.stack, Touched(b, step, q)))
  BY DEF Call
<1> DEFINE S == Touched(b, step, q)
<1>2. /\ q.stack \in Box /\ q.stack.paused = b.paused /\ q.stack.starting = b.starting
      /\ q.stack.sessions = b.sessions
      /\ step.action = "scale_service" \/ q.stack.up = b.up
  BY InvokeKeeps
<1>3. b.paused \union b.starting \subseteq b.up /\ b.up \subseteq Services /\ q.stack.up \subseteq Services
  BY <1>2 DEF Boxes, Box
<1>4. S \in SUBSET Services /\ (step.action = "scale_service" => b.up \ S \subseteq q.stack.up)
  BY <1>3, ServicesType DEF Touched, Step
<1> HIDE DEF S
<1>5. q.stack.paused \ S \subseteq q.stack.up
  BY <1>2, <1>3, <1>4
<1>6. Renewed(q.stack, S) \in Boxes
  BY <1>2, <1>3, <1>4, <1>5, RenewedType
<1>7. Renewed(q.stack, S).sessions \in {b.sessions, "none"}
  BY <1>2 DEF Renewed, Box
<1>8. r.stack = Renewed(q.stack, S)
  BY <1>1 DEF Result, S
<1> QED
  BY <1>6, <1>7, <1>8

LEMMA MarkType ==
  ASSUME NEW m \in Mock, NEW action, NEW target, NEW arg
  PROVE  Mark(m, action, target, arg) \in Mock /\ Mark(m, action, target, arg).fault = m.fault
<1> DEFINE Fixes == {"restart_service", "scale_service", "rollback"} \X Services
<1>1. \A f \in FaultIds : UNION REQUIRED_FIX_STEPS(f) \subseteq Fixes
  BY ServicesType DEF REQUIRED_FIX_STEPS, FaultIds, PoolFaults, RollbackApp
<1>2. FixingSteps(m.fault, action, target, arg) \subseteq Fixes
  BY <1>1 DEF FixingSteps, Mock
<1> HIDE DEF Fixes
<1> QED
  BY <1>2 DEF Mark, Mock, Fixes

LEMMA MockCallType ==
  ASSUME NEW m \in Mock, NEW step \in Step
  PROVE  MockCall(m, step) \in Mock /\ MockCall(m, step).fault = m.fault
<1>1. ASSUME NEW config \in Configs
      PROVE  MockWrite(m, config) \in Mock /\ MockWrite(m, config).fault = m.fault
  <2>1. CASE config = m.config
    BY <2>1 DEF MockWrite
  <2>2. CASE config # m.config
    <3> DEFINE new == [m EXCEPT !.config = config]
    <3>1. new \in Mock /\ new.fault = m.fault
      BY <2>2 DEF Mock
    <3>2. MockWrite(m, config) = Mark(new, "apply_config", "app", config)
      BY <2>2 DEF MockWrite
    <3> HIDE DEF new
    <3> QED
      BY <3>1, <3>2, MarkType
  <2> QED
    BY <2>1, <2>2
<1>2. /\ step.action \in {"restart_service", "rollback", "scale_service", "apply_config"}
      /\ step.action = "apply_config" => step.arg \in Patches
  BY DEF Step
<1>3. step.action = "apply_config" => Patched(m.config, step.arg) \in Configs
  BY <1>2, PatchedIs DEF Mock
<1> QED
  BY <1>1, <1>2, <1>3, MarkType, ServicesType DEF MockCall

LEMMA NewMockType ==
  ASSUME NEW f \in FaultIds
  PROVE  NewMock(f) \in Mock /\ NewMock(f).fault = f
BY ServicesType DEF NewMock, Mock

-----------------------------------------------------------------------------
(* The inductive invariant: types and phases. *)

TypeInv ==
  /\ box \in Boxes /\ at \in Phases
  /\ fault \in Scenarios \union {NoFault} /\ active \in {fault, NoFault}
  /\ todo \in Seq(Commands)
  /\ half \in {NoAnswer} \union (Healths \X Works) /\ snaps \in Seq(Snaps)
  /\ quiet \in BOOLEAN /\ intact \in BOOLEAN
  /\ mock \in Mock \union {NoFault} /\ agent \in [acts : 0..MaxActs, harmless : BOOLEAN]
  /\ settled \in 0..CaptureProbes

Pending == IF half = NoAnswer THEN 0 ELSE 1

Faulty == {"injecting", "capturing", "captured", "open", "alerts", "metrics", "resolved",
           "unresolved"}

\* What each phase may rely on.
PhaseInv ==
  /\ Len(snaps) <= Wanted \/ at = "captured"
  /\ half # NoAnswer => at \in {"capturing", "metrics"} /\ Len(snaps) < Wanted
  /\ at \in {"resetting", "injecting"} => active = NoFault /\ settled = 0
  /\ at = "capturing" => settled <= Len(snaps) + Pending
  /\ at \in Faulty => fault # NoFault /\ (intact => mock \in Mock)

-----------------------------------------------------------------------------
(* The inductive invariant: what is wrong with the stack. *)

\* Nothing is wrong but the config file and what is paused; only the worker's
\* container may still be starting.
Near(b, config, paused) ==
  /\ b.loaded = Canonical /\ b.file = config
  /\ b.up = Services /\ b.paused = paused /\ b.starting \subseteq {"worker"}
  /\ b.sessions = "none" /\ ~b.rotated

Bare(b) ==
  /\ b.up = {} /\ b.paused = {} /\ b.starting = {}
  /\ b.sessions = "none" /\ ~b.rotated /\ b.depth = 0

\* Each command of the reset leaves what the next one needs.
ResetInv == at = "resetting" =>
  \/ todo = Reset
  \/ todo = <<"default", "up">> /\ Bare(box)
  \/ todo = <<"up">> /\ Bare(box) /\ box.file = Canonical
  \/ todo = <<>> /\ Near(box, Canonical, {}) /\ box.depth <= Len(snaps)

\* What the mock has seen of the fixes.
Restored(m, s) == <<"restart_service", s>> \in m.satisfied
RolledBack(m) == RollbackApp \in m.satisfied
ScaledUp(m) == <<"scale_service", "worker">> \in m.satisfied

\* A stack that has what is left of the mock's fault, and nothing else.
Afflicted(m, b) ==
  /\ m.config = IF m.fault \in ConfigFaults /\ ~RolledBack(m) THEN BadConfig ELSE Canonical
  /\ b.file = m.config /\ b.loaded = m.config
  /\ b.up = IF m.fault = "worker_scaled_to_zero" /\ ~ScaledUp(m) THEN Services \ {"worker"}
            ELSE Services
  /\ b.paused = IF m.fault = "downstream_timeout" /\ ~Restored(m, "downstream")
                THEN {"downstream"}
                ELSE IF m.fault \in {"queue_consumer_stall", "config_rollout_worker_wedge"}
                        /\ ~Restored(m, "worker")
                THEN {"worker"} ELSE {}
  /\ b.rotated <=> m.fault = "expired_credential"
  /\ b.sessions # "none" <=> m.fault \in PoolFaults /\ ~Restored(m, "db")

\* What a complete injection leaves of the stack.
Broken(f, b) ==
  /\ Afflicted(NewMock(f), b)
  /\ f \in PoolFaults => b.sessions \in {"opening", "held"}
  /\ f = "expired_credential" => b.rotated
  /\ f = "bad_config_rollout" => b.loaded # Canonical
  /\ f = "downstream_timeout" => Near(b, Canonical, {"downstream"})
  /\ f = "queue_consumer_stall" => Near(b, Canonical, {"worker"})
  /\ f = "worker_scaled_to_zero" =>
       /\ b.loaded = Canonical /\ b.up = Services \ {"worker"} /\ b.paused = {} /\ b.starting = {}
       /\ b.sessions = "none" /\ ~b.rotated
  /\ f = "config_rollout_worker_wedge" =>
       /\ b.loaded # Canonical /\ b.paused = {"worker"} /\ b.up = Services
       /\ "queue" \notin b.starting /\ b.depth >= 1

\* And each of its commands.
InjectInv == at = "injecting" =>
  \/ todo = FAULTS(fault).inject /\ Near(box, Canonical, {}) /\ box.depth <= 1
  \/ todo = <<>> /\ Broken(fault, box)
  \/ fault = "bad_config_rollout" /\ todo = <<"restart app">> /\ Near(box, BadConfig, {})
  \/ /\ fault = "config_rollout_worker_wedge"
     /\ \/ todo = <<"seed", "rollout", "restart app">> /\ Near(box, Canonical, {"worker"})
        \/ /\ todo = <<"rollout", "restart app">>
           /\ Near(box, Canonical, {"worker"}) /\ box.depth >= 1
        \/ todo = <<"restart app">> /\ Near(box, BadConfig, {"worker"}) /\ box.depth >= 1

-----------------------------------------------------------------------------
(* The inductive invariant: what the probe series show. *)

\* The worker takes no job; every /work pushes one.
Idle(b) == "worker" \notin b.up \ b.paused
Serving(b) == b.loaded = Canonical /\ DbOk(b) /\ \A s \in {"app", "downstream", "queue"} : Answers(b, s)

\* A series over a stack that serves and whose worker is idle.
Growing ==
  /\ box.done = 0
  /\ \A i \in 1..Len(snaps) :
       /\ snaps[i].metrics # NoAnswer /\ snaps[i].metrics.done = 0
       /\ snaps[i].metrics.depth + Pending <= box.depth
       /\ \A j \in 1..Len(snaps) : i < j => snaps[i].metrics.depth < snaps[j].metrics.depth

\* A probe that met the settled fault.
Shows(f, healthz, work) ==
  /\ f \in PoolFaults \union {"expired_credential"} => healthz # NoAnswer /\ "db" \in healthz
  /\ f \in ConfigFaults => work = "feature_mode"
  /\ f = "downstream_timeout" => work = "downstream_timeout"

\* Once the fault has settled it stays so: the last probes are those that met it.
CaptureInv == at = "capturing" =>
  /\ Broken(fault, box)
  /\ settled >= 1 => FaultSettled(box)
  /\ settled >= 1 /\ half # NoAnswer => Shows(fault, half[1], half[2])
  /\ \A i \in 1..Len(snaps) : i + settled > Len(snaps) + Pending =>
       /\ Shows(fault, snaps[i].healthz, snaps[i].work)
       /\ fault = "config_rollout_worker_wedge" => snaps[i].metrics # NoAnswer
  /\ fault \in {"queue_consumer_stall", "worker_scaled_to_zero"} => Growing
  /\ fault = "config_rollout_worker_wedge" =>
       /\ box.done = 0
       /\ \A i \in 1..Len(snaps) : snaps[i].metrics # NoAnswer =>
            snaps[i].metrics.depth >= 1 /\ snaps[i].metrics.done = 0

\* What the verifier has seen so far still holds.
VerdictInv ==
  /\ at \in {"captured", "open", "alerts", "metrics", "resolved", "unresolved"} =>
       box.sessions # "opening"
  /\ at = "alerts" /\ snaps # <<>> /\ NoAlerts(snaps) => Serving(box)
  /\ at = "metrics" /\ quiet => Serving(box) /\ (Idle(box) => Growing)
  /\ VerdictIsTrue

\* While the agent does no harm and nothing fails, the stack has what is left of
\* the mock's fault.
AgreeInv ==
  /\ at \in {"injecting", "capturing"} => mock = NewMock(fault)
  /\ /\ at \in {"captured", "open", "alerts", "metrics", "resolved", "unresolved"}
     /\ intact /\ agent.harmless
     => Afflicted(mock, box)

IInv == TypeInv /\ PhaseInv /\ ResetInv /\ InjectInv

ShownInv == IInv /\ CaptureInv /\ FaultIsVisible /\ VerdictInv /\ AgreeInv

-----------------------------------------------------------------------------
(* What goes on in the stack meanwhile, and what a probe does to it. *)

Background ==
  (\E s \in Services : StartService(s)) \/ Pop \/ Count \/ OpenSessions \/ ExpireSessions

\* From b to c without a command.
Drifts(b, c) ==
  /\ c \in Boxes
  /\ c.file = b.file /\ c.loaded = b.loaded /\ c.up = b.up /\ c.paused = b.paused
  /\ c.rotated = b.rotated /\ c.starting \subseteq b.starting
  /\ \/ c.sessions = b.sessions
     \/ b.sessions = "opening" /\ c.sessions = "held"
     \/ b.sessions = "held" /\ c.sessions = "expired"
  /\ c.depth <= b.depth
  /\ Idle(b) => c.depth = b.depth /\ c.done = b.done

LEMMA PoppedType ==
  ASSUME NEW b \in Boxes, b.depth > 0
  PROVE  /\ Popped(b) \in Boxes /\ Popped(b).file = b.file /\ Popped(b).loaded = b.loaded
         /\ Popped(b).up = b.up /\ Popped(b).paused = b.paused /\ Popped(b).rotated = b.rotated
         /\ Popped(b).starting = b.starting /\ Popped(b).sessions = b.sessions
         /\ Popped(b).depth <= b.depth
<1>1. b \in Box /\ b.depth \in Nat /\ b.depth - 1 \in Nat
  BY DEF Boxes, Box
<1>2. /\ Popped(b).file = b.file /\ Popped(b).loaded = b.loaded
      /\ Popped(b).up = b.up /\ Popped(b).paused = b.paused /\ Popped(b).rotated = b.rotated
      /\ Popped(b).starting = b.starting /\ Popped(b).sessions = b.sessions
      /\ Popped(b).depth = b.depth - 1
  BY <1>1 DEF Popped, Box
<1>3. Popped(b) \in Box
  BY <1>1 DEF Popped, Box
<1> QED
  BY <1>1, <1>2, <1>3 DEF Boxes

LEMMA CountedType ==
  ASSUME NEW b \in Boxes, NEW c \in {Counted(b), [Counted(b) EXCEPT !.done = 0]}
  PROVE  /\ c \in Boxes /\ c.file = b.file /\ c.loaded = b.loaded
         /\ c.up = b.up /\ c.paused = b.paused /\ c.rotated = b.rotated
         /\ c.starting = b.starting /\ c.sessions = b.sessions /\ c.depth = b.depth
<1>1. b \in Box /\ b.done \in Nat /\ b.done + 1 \in Nat
  BY DEF Boxes, Box
<1>2. /\ c.file = b.file /\ c.loaded = b.loaded
      /\ c.up = b.up /\ c.paused = b.paused /\ c.rotated = b.rotated
      /\ c.starting = b.starting /\ c.sessions = b.sessions /\ c.depth = b.depth
  BY <1>1 DEF Counted, Box
<1>3. Counted(b) \in Box
  BY <1>1 DEF Counted, Box
<1>4. [Counted(b) EXCEPT !.done = 0] \in Box
  BY <1>3 DEF Box
<1> QED
  BY <1>2, <1>3, <1>4 DEF Boxes

LEMMA BackgroundDrifts ==
  ASSUME TypeInv, Background
  PROVE  /\ Drifts(box, box') /\ UNCHANGED <<runner, probing, history>>
         /\ at \in {"injecting", "capturing"} => ~(box.sessions = "held" /\ box'.sessions = "expired")
<1> USE DEF StackBecomes
<1>0. box \in Boxes
  BY DEF TypeInv
<1>1. ASSUME NEW s \in Services, StartService(s)
      PROVE  Drifts(box, box') /\ UNCHANGED <<runner, probing, history>> /\ box'.sessions = box.sessions
  BY <1>0, <1>1 DEF StartService, Started, Drifts, Boxes, Box
<1>2. CASE Pop
  <2>1. box.depth > 0 /\ ~Idle(box)
    BY <1>2 DEF Pop, CanPop, Answers, Idle
  <2>2. box' = Popped(box) /\ box.depth \in Nat
    BY <1>0, <1>2 DEF Pop, Boxes, Box
  <2> QED
    BY <1>0, <1>2, <2>1, <2>2, PoppedType DEF Pop, Drifts
<1>3. CASE Count
  <2>1. box' = Counted(box) \/ box' = [Counted(box) EXCEPT !.done = 0]
    BY <1>3 DEF Count
  <2>2. ~Idle(box)
    BY <1>3 DEF Count, CanCount, Answers, Idle
  <2>3. Drifts(box, box') /\ box'.sessions = box.sessions
    <3>1. box.depth \in Nat
      BY <1>0 DEF Boxes, Box
    <3>2. box' \in {Counted(box), [Counted(box) EXCEPT !.done = 0]}
      BY <2>1
    <3>3. /\ box' \in Boxes /\ box'.file = box.file /\ box'.loaded = box.loaded
          /\ box'.up = box.up /\ box'.paused = box.paused /\ box'.rotated = box.rotated
          /\ box'.starting = box.starting /\ box'.sessions = box.sessions
          /\ box'.depth = box.depth
      BY <1>0, <3>2, CountedType
    <3> QED
      BY <2>2, <3>1, <3>3 DEF Drifts
  <2> QED
    BY <1>3, <2>3 DEF Count
<1>4. CASE OpenSessions
  BY <1>0, <1>4 DEF OpenSessions, Drifts, Boxes, Box
<1>5. CASE ExpireSessions
  BY <1>0, <1>5 DEF ExpireSessions, Drifts, Boxes, Box
<1> QED
  BY <1>1, <1>2, <1>3, <1>4, <1>5 DEF Background

\* A job is done by a stack that serves, and by no other.
LEMMA WorkIsServing ==
  ASSUME NEW b \in Boxes
  PROVE  Work(b) = "done" <=> Serving(b)
<1>1. b.loaded \in Configs
  BY DEF Boxes, Box
<1>2. b.loaded = Canonical <=> \A key \in ConfigKeys : b.loaded[key] = Known
  BY <1>1, CanonicalIs, ServicesType
<1>3. \A key : key \in ConfigKeys <=>
               key \in {"feature_mode", "downstream_url", "downstream_timeout_s"}
  BY DEF ConfigKeys
<1>4. "downstream" \in b.paused => ~Answers(b, "downstream")
  BY DEF Answers
<1>5. Downstream(b) = "done" <=>
        /\ b.loaded["downstream_url"] = Known /\ b.loaded["downstream_timeout_s"] = Known
        /\ Answers(b, "downstream")
  BY <1>4 DEF Downstream
<1>6. Work(b) = "done" <=>
        /\ Answers(b, "app") /\ b.loaded["feature_mode"] = Known /\ DbOk(b)
        /\ Downstream(b) = "done" /\ Answers(b, "queue")
  BY NoAnswerAssumption DEF Work
<1> QED
  BY <1>2, <1>3, <1>5, <1>6 DEF Serving

\* A probe pushes a job when the stack serves, and does nothing else.
LEMMA WorkedIs ==
  ASSUME NEW b \in Boxes
  PROVE  /\ Worked(b) \in Boxes
         /\ Worked(b).file = b.file /\ Worked(b).loaded = b.loaded /\ Worked(b).up = b.up
         /\ Worked(b).paused = b.paused /\ Worked(b).starting = b.starting
         /\ Worked(b).sessions = b.sessions /\ Worked(b).rotated = b.rotated
         /\ Worked(b).done = b.done
         /\ Worked(b).depth = b.depth + IF Serving(b) THEN 1 ELSE 0
<1>1. Work(b) = "done" <=> Serving(b)
  BY WorkIsServing
<1>2. CASE Serving(b)
  BY <1>1, <1>2 DEF Worked, Boxes, Box
<1>3. CASE ~Serving(b)
  BY <1>1, <1>3 DEF Worked, Boxes, Box
<1> QED
  BY <1>2, <1>3

-----------------------------------------------------------------------------
(* Types and phases. *)

LEMMA ResetTail ==
  /\ Reset # <<>> /\ Head(Reset) = "down" /\ Tail(Reset) = <<"default", "up">>
  /\ Head(<<"default", "up">>) = "default" /\ Tail(<<"default", "up">>) = <<"up">>
  /\ Head(<<"up">>) = "up" /\ Tail(<<"up">>) = <<>>
  /\ Reset \in Seq(Commands)
BY DEF Reset, Commands

LEMMA FaultsAre ==
  /\ \A f \in PoolFaults : FAULTS(f).inject = <<"hold">> /\ FAULTS(f).sign = "db down"
                           /\ FAULTS(f).revert = <<"release">>
  /\ FAULTS("bad_config_rollout").inject = <<"rollout", "restart app">>
  /\ FAULTS("bad_config_rollout").revert = <<"default", "restart app">>
  /\ FAULTS("bad_config_rollout").sign = "config rejected"
  /\ FAULTS("downstream_timeout").inject = <<"pause downstream">>
  /\ FAULTS("downstream_timeout").revert = <<"unpause downstream">>
  /\ FAULTS("downstream_timeout").sign = "downstream timeout"
  /\ FAULTS("queue_consumer_stall").inject = <<"pause worker">>
  /\ FAULTS("queue_consumer_stall").revert = <<"unpause worker">>
  /\ FAULTS("queue_consumer_stall").sign = "backlog grows"
  /\ FAULTS("expired_credential").inject = <<"rotate">>
  /\ FAULTS("expired_credential").revert = <<"restore">>
  /\ FAULTS("expired_credential").sign = "db down"
  /\ FAULTS("config_rollout_worker_wedge").inject = <<"pause worker", "seed", "rollout", "restart app">>
  /\ FAULTS("config_rollout_worker_wedge").revert = <<"default", "restart app", "unpause worker">>
  /\ FAULTS("config_rollout_worker_wedge").sign = "config rejected, backlog stuck"
  /\ FAULTS("worker_scaled_to_zero").inject = <<"scale 0">>
  /\ FAULTS("worker_scaled_to_zero").revert = <<"scale 1">>
  /\ FAULTS("worker_scaled_to_zero").sign = "backlog grows"
BY DEF FAULTS, PoolFaults, DbConnectionExhaustion, BadConfigRollout, DownstreamDependencyTimeout,
       QueueConsumerStall, ExpiredCredential, ConfigRolloutWorkerWedge, WorkerScaledToZero

LEMMA FaultsType ==
  \A f \in FaultIds : FAULTS(f).inject \in Seq(Commands) /\ FAULTS(f).revert \in Seq(Commands)
<1>1. \A c \in Commands : <<c>> \in Seq(Commands)
  OBVIOUS
<1>2. \A c, d \in Commands : <<c, d>> \in Seq(Commands)
  OBVIOUS
<1>3. \A c, d, e \in Commands : <<c, d, e>> \in Seq(Commands)
  OBVIOUS
<1>4. <<"pause worker", "seed", "rollout", "restart app">> \in Seq(Commands)
  BY DEF Commands
<1>5. \A f \in PoolFaults : FAULTS(f).inject \in Seq(Commands) /\ FAULTS(f).revert \in Seq(Commands)
  BY <1>1, FaultsAre DEF Commands
<1>6. \A f \in FaultIds \ (PoolFaults \union {"config_rollout_worker_wedge", "bad_config_rollout"}) :
        FAULTS(f).inject \in Seq(Commands) /\ FAULTS(f).revert \in Seq(Commands)
  BY <1>1, FaultsAre DEF Commands, FaultIds, PoolFaults
<1>7. LET f == "bad_config_rollout"
      IN  FAULTS(f).inject \in Seq(Commands) /\ FAULTS(f).revert \in Seq(Commands)
  BY <1>2, FaultsAre DEF Commands
<1>8. LET f == "config_rollout_worker_wedge"
      IN  FAULTS(f).inject \in Seq(Commands) /\ FAULTS(f).revert \in Seq(Commands)
  <2>1. <<"default", "restart app", "unpause worker">> \in Seq(Commands)
    BY <1>3 DEF Commands
  <2> QED
    BY <1>4, <2>1, FaultsAre
<1> QED
  BY <1>5, <1>6, <1>7, <1>8

LEMMA HalfIs ==
  ASSUME TypeInv
  PROVE  /\ <<Healthz(box), Work(box)>> # NoAnswer
         /\ <<Healthz(box), Work(box)>> \in Healths \X Works
         /\ half # NoAnswer => half[1] \in Healths /\ half[2] \in Works
<1>1. Healthz(box) \in Healths /\ Work(box) \in Works
  BY AnswersType DEF TypeInv
<1>2. <<Healthz(box), Work(box)>> # NoAnswer
  BY <1>1, NoAnswerAssumption DEF Healths, Works
<1>3. half # NoAnswer => half[1] \in Healths /\ half[2] \in Works
  BY DEF TypeInv
<1> QED
  BY <1>1, <1>2, <1>3

LEMMA TypeNext ==
  ASSUME TypeInv, PhaseInv, [Next]_vars
  PROVE  TypeInv' /\ PhaseInv'
<1> USE HarnessAssumption DEF runner, probing, history
<1>0. /\ <<>> \in Seq(Snaps) /\ <<>> \in Seq(Commands) /\ NoActs \in [acts : 0..MaxActs, harmless : BOOLEAN]
      /\ TRUE \in BOOLEAN /\ FALSE \in BOOLEAN /\ 0 \in 0..CaptureProbes
  BY DEF NoActs
<1>1. CASE Start
  BY <1>1, ResetTail DEF Start, TypeInv, PhaseInv, Wanted, Pending, Faulty, Phases, NoActs
<1>2. CASE Command
  <2>1. PICK r \in Run(box, Head(todo)) :
          /\ box' = r.stack
          /\ \/ todo' = Tail(todo) /\ UNCHANGED <<at, intact>>
             \/ at' = "raised" /\ todo' = <<>> /\ intact' = FALSE
    BY <1>2 DEF Command
  <2>2. Head(todo) \in Commands /\ Tail(todo) \in Seq(Commands)
    BY <1>2 DEF Command, TypeInv
  <2>3. box' \in Boxes
    BY <2>1, <2>2, RunType DEF TypeInv
  <2>4. TypeInv'
    <3>1. todo' \in Seq(Commands) /\ at' \in Phases
      BY <1>0, <2>1, <2>2, Zenon DEF TypeInv, Phases
    <3>2. intact' \in BOOLEAN
      BY <2>1 DEF TypeInv
    <3> QED
      BY <1>2, <2>3, <3>1, <3>2 DEF Command, TypeInv
  <2>5. PhaseInv'
    BY <1>2, <2>1 DEF Command, PhaseInv, TypeInv, Wanted, Pending, Faulty
  <2> QED
    BY <2>4, <2>5
<1>3. CASE ProbeStatus
  <2>1. box' \in Boxes
    BY <1>3, WorkedIs DEF ProbeStatus, TypeInv
  <2>2. Snapshot(Healthz(box), Work(box), NoAnswer) \in Snaps
    BY HalfIs, AnswersType DEF Snapshot, Snaps, TypeInv
  <2>3. snaps' \in Seq(Snaps) /\ Len(snaps') \in {Len(snaps), Len(snaps) + 1}
    <3>1. snaps \in Seq(Snaps)
      BY DEF TypeInv
    <3>2. snaps' = snaps \/ snaps' = Append(snaps, Snapshot(Healthz(box), Work(box), NoAnswer))
      BY <1>3 DEF ProbeStatus
    <3> QED
      BY <2>2, <3>1, <3>2
  <2>4. CASE at \in {"capturing", "metrics"}
    <3>1. TypeInv'
      BY <1>3, <2>1, <2>3, <2>4, HalfIs DEF ProbeStatus, TypeInv, PhaseInv, Wanted, Pending
    <3>2. PhaseInv'
      BY <1>3, <2>4, HalfIs DEF ProbeStatus, TypeInv, PhaseInv, Wanted, Pending, Faulty
    <3> QED
      BY <3>1, <3>2
  <2>5. CASE at \notin {"capturing", "metrics"}
    <3>1. TypeInv'
      BY <1>3, <2>1, <2>3, <2>5 DEF ProbeStatus, TypeInv, PhaseInv
    <3>2. PhaseInv'
      BY <1>3, <2>2, <2>5 DEF ProbeStatus, TypeInv, PhaseInv, Wanted, Pending, Faulty
    <3> QED
      BY <3>1, <3>2
  <2> QED
    BY <2>4, <2>5
<1>4. CASE ProbeMetrics
  <2>1. Snapshot(half[1], half[2], Metrics(box)) \in Snaps
    BY <1>4, HalfIs, AnswersType DEF ProbeMetrics, Snapshot, Snaps, TypeInv
  <2> QED
    BY <1>4, <2>1 DEF ProbeMetrics, TypeInv, PhaseInv, Wanted, Pending, Faulty
<1>5. ASSUME NEW f \in Scenarios, BeginInjection(f) PROVE TypeInv' /\ PhaseInv'
  <2>1. f \in FaultIds /\ FAULTS(f).inject \in Seq(Commands) /\ NewMock(f) \in Mock /\ f # NoFault
    BY FaultsType, NewMockType
  <2> QED
    BY <1>5, <2>1 DEF BeginInjection, TypeInv, PhaseInv, Wanted, Pending, Faulty, Phases
<1>6. ASSUME NewSeries \in Boxes, Injected PROVE TypeInv' /\ PhaseInv'
  BY <1>6 DEF Injected, TypeInv, PhaseInv, Wanted, Pending, Faulty, Phases
<1>7. NewSeries \in Boxes
  BY DEF NewSeries, TypeInv, Boxes, Box
<1>8. CASE Captured \/ FailCapture \/ OpenWorld
  <2>1. CASE Captured
    BY <1>8, <2>1 DEF Captured, TypeInv, PhaseInv, Wanted, Pending, Faulty, Phases
  <2>2. CASE FailCapture
    <3>1. TypeInv'
      <4>1. snaps' \in Seq(Snaps) /\ at' \in Phases /\ intact' \in BOOLEAN
        BY <1>0, <2>2, Zenon DEF FailCapture, Phases
      <4> QED
        BY <2>2, <4>1 DEF FailCapture, TypeInv
    <3>2. PhaseInv'
      BY <2>2 DEF FailCapture, TypeInv, PhaseInv, Wanted, Pending, Faulty
    <3> QED
      BY <3>1, <3>2
  <2>3. CASE OpenWorld
    <3>1. TypeInv'
      BY <2>3 DEF OpenWorld, TypeInv, Phases
    <3>2. PhaseInv'
      BY <2>3 DEF OpenWorld, TypeInv, PhaseInv, Wanted, Pending, Faulty
    <3> QED
      BY <3>1, <3>2
  <2> QED
    BY <1>8, <2>1, <2>2, <2>3
<1>9. ASSUME NEW step \in AgentSteps, Act(step) PROVE TypeInv' /\ PhaseInv'
  <2>1. PICK r \in Call(box, step) : box' = r.stack /\ intact' = (intact /\ r.ok)
    BY <1>9 DEF Act
  <2>2. box' \in Boxes /\ step \in Step
    BY <2>1, CallType DEF TypeInv
  <2>3. intact' \in BOOLEAN /\ (intact' => intact)
    BY <2>1
  <2>4. intact' => mock' \in Mock
    BY <1>9, <2>2, <2>3, MockCallType DEF Act, PhaseInv, Faulty
  <2>5. mock' \in Mock \union {NoFault}
    BY <1>9, <2>4 DEF Act
  <2>6. agent' \in [acts : 0..MaxActs, harmless : BOOLEAN]
    <3>1. agent.acts + 1 \in 0..MaxActs
      BY <1>9 DEF Act, TypeInv
    <3>2. (agent.harmless /\ Harmless(step)) \in BOOLEAN
      OBVIOUS
    <3> HIDE DEF Harmless
    <3> QED
      BY <1>9, <3>1, <3>2 DEF Act
  <2> QED
    BY <1>9, <2>2, <2>3, <2>4, <2>5, <2>6 DEF Act, TypeInv, PhaseInv, Wanted, Pending, Faulty, Phases
<1>10. CASE StartVerification \/ Cleanup \/ Reverted
  <2>1. active # NoFault => active \in FaultIds /\ FAULTS(active).revert \in Seq(Commands)
    BY FaultsType DEF TypeInv
  <2> QED
    BY <1>10, <2>1 DEF StartVerification, Cleanup, Reverted, TypeInv, PhaseInv, Wanted, Pending, Faulty, Phases
<1>11. CASE ReadAlerts
  <2>1. NoAlerts(snaps) \in BOOLEAN
    BY DEF NoAlerts
  <2> QED
    BY <1>7, <1>11, <2>1 DEF ReadAlerts, TypeInv, PhaseInv, Wanted, Pending, Faulty, Phases
<1>12. CASE Judge
  <2>1. /\ at = "metrics" /\ at' \in {"resolved", "unresolved", "alerts"}
        /\ quiet' = FALSE /\ snaps' = <<>>
        /\ UNCHANGED <<box, fault, active, todo, half, history>>
    BY <1>12 DEF Judge
  <2>2. Len(snaps) = VerifySamples
    BY <1>12 DEF Judge
  <2>3. TypeInv'
    <3>1. snaps' \in Seq(Snaps) /\ at' \in Phases /\ quiet' \in BOOLEAN
      BY <1>0, <2>1, Zenon DEF Phases
    <3> QED
      BY <2>1, <3>1 DEF TypeInv
  <2>4. PhaseInv'
    BY <2>1, <2>2 DEF TypeInv, PhaseInv, Wanted, Pending, Faulty
  <2> QED
    BY <2>3, <2>4
<1>13. CASE Crash
  <2>1. TypeInv'
    <3>1. /\ snaps' \in Seq(Snaps) /\ todo' \in Seq(Commands) /\ at' \in Phases
          /\ quiet' \in BOOLEAN /\ intact' \in BOOLEAN /\ settled' \in 0..CaptureProbes
          /\ agent' \in [acts : 0..MaxActs, harmless : BOOLEAN]
      BY <1>0, <1>13, Zenon DEF Crash, Forgotten, Phases
    <3>2. /\ box' = box /\ fault' = NoFault /\ active' = NoFault /\ half' = NoAnswer
          /\ mock' = NoFault
      BY <1>13 DEF Crash, Forgotten
    <3> QED
      BY <3>1, <3>2 DEF TypeInv
  <2>2. PhaseInv'
    BY <1>13 DEF Crash, Forgotten, TypeInv, PhaseInv, Wanted, Pending, Faulty
  <2> QED
    BY <2>1, <2>2
<1>14. CASE Background
  <2>1. box' \in Boxes /\ UNCHANGED <<runner, probing, history>>
    BY <1>14, BackgroundDrifts DEF Drifts
  <2> QED
    BY <2>1 DEF TypeInv, PhaseInv, Wanted, Pending, Faulty
<1>15. CASE UNCHANGED vars
  BY <1>15 DEF vars, TypeInv, PhaseInv, Wanted, Pending, Faulty
<1> QED
  BY <1>1, <1>2, <1>3, <1>4, <1>5, <1>6, <1>7, <1>8, <1>9, <1>10, <1>11, <1>12, <1>13, <1>14,
     <1>15 DEF Next, Background

-----------------------------------------------------------------------------
(* The commands that work. *)

LEMMA AttemptOk ==
  ASSUME NEW b, NEW after, NEW r \in Attempt(b, after), r.ok
  PROVE  r.stack = after
BY Attempted

LEMMA CommandOk ==
  ASSUME NEW b \in Boxes
  PROVE  /\ \A r \in Down(b) : r.ok => r.stack = Emptied(b)
         /\ \A r \in WriteDefault(b) : r.stack = [b EXCEPT !.file = Canonical]
         /\ \A r \in Up(b) : r.ok => r.stack = Created(b)
         /\ \A r \in HoldSlots(b) : r.ok => r.stack = [b EXCEPT !.sessions = "opening"]
         /\ \A r \in SetPassword(b, TRUE) : r.ok => r.stack = [b EXCEPT !.rotated = TRUE]
         /\ \A r \in Seed(b) : r.ok => r.stack = [b EXCEPT !.depth = @ + Backlog]
         /\ \A r \in Run(b, "rollout") : r.stack = [b EXCEPT !.file = BadConfig]
<1>1. \A r \in Down(b) : r.ok => r.stack = Emptied(b)
  BY AttemptOk, ResultFields DEF Down
<1>2. \A r \in WriteDefault(b) : r.stack = [b EXCEPT !.file = Canonical]
  BY ResultFields DEF WriteDefault
<1>3. \A r \in Up(b) : r.ok => r.stack = Created(b)
  BY AttemptOk, ResultFields DEF Up
<1>4. \A r \in HoldSlots(b) : r.ok => r.stack = [b EXCEPT !.sessions = "opening"]
  BY AttemptOk, ResultFields DEF HoldSlots
<1>5. \A r \in SetPassword(b, TRUE) : r.ok => r.stack = [b EXCEPT !.rotated = TRUE]
  BY AttemptOk, ResultFields DEF SetPassword, Psql
<1>7. \A r \in Seed(b) : r.ok => r.stack = [b EXCEPT !.depth = @ + Backlog]
  BY ResultFields DEF Seed
<1>8. \A r \in Run(b, "rollout") : r.stack = [b EXCEPT !.file = BadConfig]
  <2>1. Run(b, "rollout") = {Result(TRUE, [b EXCEPT !.file = BadConfig])}
    BY RunIs
  <2>2. ASSUME NEW r \in Run(b, "rollout") PROVE r.stack = [b EXCEPT !.file = BadConfig]
    BY <2>1, ResultFields
  <2> QED
    BY <2>2
<1> QED
  BY <1>1, <1>2, <1>3, <1>4, <1>5, <1>7, <1>8

\* Restarting the app makes it read its file.
LEMMA RestartOk ==
  ASSUME NEW b \in Boxes, "app" \in b.up, NEW r \in Restart(b, "app"), r.ok
  PROVE  /\ r.stack.loaded = b.file /\ r.stack.file = b.file /\ r.stack.up = b.up
         /\ r.stack.paused = b.paused \ {"app"}
         /\ r.stack.starting = (b.starting \union {"app"}) \intersect b.up
         /\ r.stack.depth = b.depth /\ r.stack.rotated = b.rotated
         /\ r.stack.sessions = b.sessions
<1> DEFINE st == [b EXCEPT !.loaded = b.file]
<1>1. r.stack = Renewed(Restarted(b, "app"), {"app"} \intersect b.up)
  BY AttemptOk DEF Restart
<1>2. Restarted(b, "app") = st /\ {"app"} \intersect b.up = {"app"}
  BY DEF Restarted
<1>3. /\ st.loaded = b.file /\ st.file = b.file /\ st.up = b.up /\ st.paused = b.paused
      /\ st.starting = b.starting /\ st.depth = b.depth /\ st.rotated = b.rotated
      /\ st.sessions = b.sessions /\ st \in Box
  BY DEF Boxes, Box
<1> HIDE DEF st
<1> QED
  BY <1>1, <1>2, <1>3 DEF Renewed, Box

LEMMA ScaleOk ==
  ASSUME NEW b \in Boxes, "worker" \in b.up, "db" \in b.up,
         NEW r \in Scale(b, "worker", 0), r.ok
  PROVE  /\ r.stack.loaded = b.loaded /\ r.stack.up = b.up \ {"worker"}
         /\ r.stack.paused = b.paused \ {"worker"}
         /\ r.stack.starting = (b.starting \union {"worker"}) \intersect (b.up \ {"worker"})
         /\ r.stack.sessions = b.sessions /\ r.stack.rotated = b.rotated
         /\ r.stack.file = b.file
<1> DEFINE st == [b EXCEPT !.up = @ \ {"worker"}]
           S == (st.up \ b.up) \union (b.up \ st.up)
<1>1. Scaled(b, "worker", 0) = st
  BY DEF Scaled
<1>2. r.stack = Renewed(st, S)
  <2>1. r \in Attempt(b, Renewed(st, S))
    BY <1>1 DEF Scale
  <2> HIDE DEF st, S
  <2> QED
    BY <2>1, AttemptOk
<1>3. /\ st.loaded = b.loaded /\ st.up = b.up \ {"worker"} /\ st.paused = b.paused
      /\ st.starting = b.starting /\ st.sessions = b.sessions /\ st.rotated = b.rotated
      /\ st.file = b.file /\ st \in Box
  BY DEF Boxes, Box
<1> HIDE DEF st
<1>4. S = {"worker"}
  BY <1>3
<1> QED
  BY <1>2, <1>3, <1>4 DEF Renewed, Box

-----------------------------------------------------------------------------
(* The reset and the injection. *)

LEMMA NearDrifts ==
  ASSUME NEW b, NEW c, Drifts(b, c), NEW config, NEW paused, Near(b, config, paused)
  PROVE  Near(c, config, paused)
BY DEF Drifts, Near

\* What the mock's fault leaves of the stack does not drift.
LEMMA AfflictedDrifts ==
  ASSUME NEW b, NEW c, Drifts(b, c), NEW m, Afflicted(m, b)
  PROVE  Afflicted(m, c)
BY DEF Drifts, Afflicted

LEMMA AfflictedSame ==
  ASSUME NEW b, NEW c, NEW m, Afflicted(m, b),
         c.file = b.file, c.loaded = b.loaded, c.up = b.up, c.paused = b.paused,
         c.rotated = b.rotated, c.sessions = b.sessions
  PROVE  Afflicted(m, c)
BY DEF Afflicted

\* What a fault that is new leaves of the stack.
LEMMA NewlyAfflicted ==
  ASSUME NEW f \in FaultIds, NEW b,
         b.file = IF f \in ConfigFaults THEN BadConfig ELSE Canonical,
         b.loaded = b.file,
         b.up = IF f = "worker_scaled_to_zero" THEN Services \ {"worker"} ELSE Services,
         b.paused = IF f = "downstream_timeout" THEN {"downstream"}
                    ELSE IF f \in {"queue_consumer_stall", "config_rollout_worker_wedge"}
                    THEN {"worker"} ELSE {},
         b.rotated <=> f = "expired_credential",
         b.sessions # "none" <=> f \in PoolFaults
  PROVE  Afflicted(NewMock(f), b)
<1>1. /\ NewMock(f).fault = f /\ NewMock(f).satisfied = {}
      /\ NewMock(f).config = IF f \in ConfigFaults THEN BadConfig ELSE Canonical
  BY DEF NewMock
<1>2. /\ ~RolledBack(NewMock(f)) /\ ~ScaledUp(NewMock(f))
      /\ \A s : ~Restored(NewMock(f), s)
  BY <1>1 DEF RolledBack, ScaledUp, Restored
<1> QED
  BY <1>1, <1>2 DEF Afflicted

LEMMA BrokenDrifts ==
  ASSUME NEW b \in Boxes, NEW c, Drifts(b, c), ~(b.sessions = "held" /\ c.sessions = "expired"),
         NEW f \in FaultIds, Broken(f, b)
  PROVE  Broken(f, c)
<1>1. \A config \in Configs : \A paused \in SUBSET Services :
        Near(b, config, paused) => Near(c, config, paused)
  BY NearDrifts
<1>2. Near(b, Canonical, {"downstream"}) => Near(c, Canonical, {"downstream"})
  BY NearDrifts
<1>3. Near(b, Canonical, {"worker"}) => Near(c, Canonical, {"worker"})
  BY NearDrifts
<1>4. f = "config_rollout_worker_wedge" => c.depth = b.depth
  BY DEF Broken, Drifts, Idle
<1>5. Afflicted(NewMock(f), c)
  BY AfflictedDrifts DEF Broken
<1> QED
  BY <1>2, <1>3, <1>4, <1>5 DEF Broken, Drifts, PoolFaults

LEMMA ResetNext ==
  ASSUME TypeInv, PhaseInv, ResetInv, [Next]_vars
  PROVE  ResetInv'
<1> SUFFICES ASSUME at' = "resetting" PROVE ResetInv'
  BY DEF ResetInv
<1>0. box \in Boxes
  BY DEF TypeInv
<1>1. CASE Start
  BY <1>1 DEF Start, ResetInv
<1>2. CASE Command
  <2>1. PICK r \in Run(box, Head(todo)) :
          box' = r.stack /\ r.ok /\ todo' = Tail(todo) /\ at = "resetting"
    BY <1>2 DEF Command
  <2>2. CASE todo = Reset
    <3>1. box' = Emptied(box) /\ todo' = <<"default", "up">>
      <4>1. Head(todo) = "down"
        BY <2>2, ResetTail
      <4>2. r \in Down(box)
        BY <2>1, <4>1, RunIs
      <4>3. box' = Emptied(box)
        BY <1>0, <2>1, <4>2, CommandOk
      <4> QED
        BY <2>1, <2>2, <4>3, ResetTail
    <3>2. Bare(box')
      BY <1>0, <3>1 DEF Emptied, Bare, Boxes, Box
    <3> QED
      BY <3>1, <3>2 DEF ResetInv, Bare
  <2>3. CASE todo = <<"default", "up">> /\ Bare(box)
    <3>1. box' = [box EXCEPT !.file = Canonical] /\ todo' = <<"up">>
      <4>1. Head(todo) = "default"
        BY <2>3, ResetTail
      <4>2. r \in WriteDefault(box)
        BY <2>1, <4>1, RunIs
      <4>3. box' = [box EXCEPT !.file = Canonical]
        BY <1>0, <2>1, <4>2, CommandOk
      <4> QED
        BY <2>1, <2>3, <4>3, ResetTail
    <3>2. Bare(box') /\ box'.file = Canonical
      BY <1>0, <2>3, <3>1 DEF Bare, Boxes, Box
    <3> QED
      BY <3>1, <3>2 DEF ResetInv, Bare
  <2>4. CASE todo = <<"up">> /\ Bare(box) /\ box.file = Canonical
    <3>1. box' = Created(box) /\ todo' = <<>>
      <4>1. Head(todo) = "up"
        BY <2>4, ResetTail
      <4>2. r \in Up(box)
        BY <2>1, <4>1, RunIs
      <4>3. box' = Created(box)
        BY <1>0, <2>1, <4>2, CommandOk
      <4> QED
        BY <2>1, <2>4, <4>3, ResetTail
    <3>2. Near(box', Canonical, {}) /\ box'.depth = 0
      BY <1>0, <2>4, <3>1 DEF Created, Near, Bare, Boxes, Box
    <3>3. Len(snaps) \in Nat /\ snaps' = snaps
      BY <1>2 DEF Command, TypeInv, probing
    <3> QED
      BY <3>1, <3>2, <3>3 DEF ResetInv, Near
  <2>5. todo # <<>>
    BY <1>2 DEF Command
  <2> QED
    BY <2>1, <2>2, <2>3, <2>4, <2>5 DEF ResetInv
<1>3. CASE ProbeStatus
  <2>1. at = "resetting" /\ todo = <<>> /\ todo' = <<>>
    BY <1>3 DEF ProbeStatus, Wanted, runner, TypeInv
  <2>2. Near(box, Canonical, {}) /\ box.depth <= Len(snaps)
    BY <2>1, ResetTail DEF ResetInv
  <2>3. Near(box', Canonical, {}) /\ box'.depth <= box.depth + 1
    BY <1>0, <1>3, <2>2, WorkedIs DEF ProbeStatus, Near, Boxes, Box
  <2>4. Len(snaps') = Len(snaps) + 1 /\ box.depth \in Nat /\ box'.depth \in Nat /\ Len(snaps) \in Nat
    BY <1>0, <1>3, <2>1, WorkedIs DEF ProbeStatus, TypeInv, Boxes, Box
  <2> QED
    BY <2>1, <2>2, <2>3, <2>4 DEF ResetInv, Near
<1>4. CASE Background
  <2>1. Drifts(box, box') /\ UNCHANGED <<at, todo, snaps>>
    BY <1>4, BackgroundDrifts DEF runner, probing
  <2>2. /\ Bare(box) => Bare(box') /\ box'.file = box.file
        /\ Near(box, Canonical, {}) => Near(box', Canonical, {})
        /\ box'.depth <= box.depth /\ box.depth \in Nat /\ box'.depth \in Nat
    BY <1>0, <2>1, NearDrifts DEF Drifts, Bare, Idle, Boxes, Box
  <2>3. Len(snaps) \in Nat
    BY DEF TypeInv
  <2> QED
    BY <2>1, <2>2, <2>3 DEF ResetInv
<1>5. CASE UNCHANGED vars
  BY <1>5 DEF vars, ResetInv, runner, probing, Near, Bare
<1>6. CASE ProbeMetrics
  BY <1>6 DEF ProbeMetrics, PhaseInv, runner
<1> QED
  BY <1>1, <1>2, <1>3, <1>4, <1>5, <1>6 DEF Next, Background, BeginInjection, Injected, Captured,
     FailCapture, OpenWorld, Act, StartVerification, ReadAlerts, Judge, Cleanup, Reverted, Crash

LEMMA PairTail == \A a, b : Head(<<a, b>>) = a /\ Tail(<<a, b>>) = <<b>>
OBVIOUS

LEMMA TripleTail == \A a, b, c : Head(<<a, b, c>>) = a /\ Tail(<<a, b, c>>) = <<b, c>>
OBVIOUS

LEMMA QuadrupleTail ==
  \A a, b, c, d : Head(<<a, b, c, d>>) = a /\ Tail(<<a, b, c, d>>) = <<b, c, d>>
OBVIOUS

LEMMA InjectTail ==
  /\ \A c \in Commands : <<c>> # <<>> /\ Head(<<c>>) = c /\ Tail(<<c>>) = <<>>
  /\ Head(<<"rollout", "restart app">>) = "rollout"
  /\ Tail(<<"rollout", "restart app">>) = <<"restart app">>
  /\ Head(<<"seed", "rollout", "restart app">>) = "seed"
  /\ Tail(<<"seed", "rollout", "restart app">>) = <<"rollout", "restart app">>
  /\ Head(<<"pause worker", "seed", "rollout", "restart app">>) = "pause worker"
  /\ Tail(<<"pause worker", "seed", "rollout", "restart app">>) = <<"seed", "rollout", "restart app">>
<1>1. \A c \in Commands : <<c>> # <<>> /\ Head(<<c>>) = c /\ Tail(<<c>>) = <<>>
  OBVIOUS
<1>2. /\ Head(<<"rollout", "restart app">>) = "rollout"
      /\ Tail(<<"rollout", "restart app">>) = <<"restart app">>
  BY PairTail, Zenon
<1>3. /\ Head(<<"seed", "rollout", "restart app">>) = "seed"
      /\ Tail(<<"seed", "rollout", "restart app">>) = <<"rollout", "restart app">>
  BY TripleTail, Zenon
<1>4. /\ Head(<<"pause worker", "seed", "rollout", "restart app">>) = "pause worker"
      /\ Tail(<<"pause worker", "seed", "rollout", "restart app">>)
           = <<"seed", "rollout", "restart app">>
  BY QuadrupleTail, Zenon
<1> QED
  BY <1>1, <1>2, <1>3, <1>4

\* The one command of these faults.
LEMMA OnlyCommand ==
  ASSUME NEW c \in Commands, NEW seq, seq = <<c>>
  PROVE  Head(seq) = c /\ Tail(seq) = <<>>
BY InjectTail

LEMMA PauseOk ==
  ASSUME NEW b \in Boxes, NEW s \in b.up \ b.paused, NEW r \in Pause(b, s), r.ok
  PROVE  r.stack = [b EXCEPT !.paused = @ \union {s}]
BY AttemptOk DEF Pause

\* The injection of one command.
LEMMA OneCommandBreaks ==
  ASSUME NEW b \in Boxes, Near(b, Canonical, {}), NEW f \in FaultIds \ ConfigFaults,
         NEW r \in Run(b, Head(FAULTS(f).inject)), r.ok
  PROVE  Tail(FAULTS(f).inject) = <<>> /\ Broken(f, r.stack)
<1> USE DEF ConfigFaults
<1>0. b \in Box /\ b.up = Services /\ b.paused = {}
  BY DEF Boxes, Near
<1>1. CASE f \in PoolFaults
  <2>1. FAULTS(f).inject = <<"hold">>
    BY <1>1, FaultsAre
  <2>2. r \in HoldSlots(b) /\ Tail(FAULTS(f).inject) = <<>>
    BY <2>1, RunIs, InjectTail DEF Commands
  <2>3. r.stack = [b EXCEPT !.sessions = "opening"]
    BY <2>2, CommandOk
  <2>4. /\ r.stack.sessions = "opening" /\ r.stack.file = b.file /\ r.stack.loaded = b.loaded
        /\ r.stack.up = b.up /\ r.stack.paused = b.paused /\ r.stack.rotated = b.rotated
    BY <1>0, <2>3 DEF Box
  <2>5. Afflicted(NewMock(f), r.stack)
    BY <1>1, <2>4, NewlyAfflicted DEF Near, PoolFaults
  <2> QED
    BY <1>1, <2>2, <2>4, <2>5 DEF Broken, PoolFaults
<1>2. CASE f = "expired_credential"
  <2>1. r \in SetPassword(b, TRUE) /\ Tail(FAULTS(f).inject) = <<>>
    <3>1. FAULTS(f).inject = <<"rotate">> /\ "rotate" \in Commands
      BY <1>2, FaultsAre DEF Commands
    <3>2. Head(FAULTS(f).inject) = "rotate" /\ Tail(FAULTS(f).inject) = <<>>
      BY <3>1, OnlyCommand
    <3> QED
      BY <3>2, RunIs
  <2>2. r.stack = [b EXCEPT !.rotated = TRUE]
    BY <2>1, CommandOk
  <2>3. /\ r.stack.rotated /\ r.stack.file = b.file /\ r.stack.loaded = b.loaded
        /\ r.stack.up = b.up /\ r.stack.paused = b.paused /\ r.stack.sessions = b.sessions
    BY <1>0, <2>2 DEF Box
  <2>4. Afflicted(NewMock(f), r.stack)
    BY <1>2, <2>3, NewlyAfflicted DEF Near, PoolFaults
  <2> QED
    BY <1>2, <2>1, <2>3, <2>4 DEF Broken, PoolFaults
<1>3. CASE f = "downstream_timeout"
  <2>1. r \in Pause(b, "downstream") /\ Tail(FAULTS(f).inject) = <<>>
    <3>1. FAULTS(f).inject = <<"pause downstream">> /\ "pause downstream" \in Commands
      BY <1>3, FaultsAre DEF Commands
    <3>2. Head(FAULTS(f).inject) = "pause downstream" /\ Tail(FAULTS(f).inject) = <<>>
      BY <3>1, OnlyCommand
    <3> QED
      BY <3>2, RunIs
  <2>2. r.stack = [b EXCEPT !.paused = @ \union {"downstream"}]
    <3>1. "downstream" \in b.up \ b.paused
      BY <1>0, ServicesType
    <3> QED
      BY <2>1, <3>1, PauseOk
  <2>3. Near(r.stack, Canonical, {"downstream"})
    BY <1>0, <2>2 DEF Near, Box
  <2>4. Afflicted(NewMock(f), r.stack)
    BY <1>3, <2>3, NewlyAfflicted DEF Near, PoolFaults
  <2> QED
    BY <1>3, <2>1, <2>3, <2>4 DEF Broken, PoolFaults
<1>4. CASE f = "queue_consumer_stall"
  <2>1. r \in Pause(b, "worker") /\ Tail(FAULTS(f).inject) = <<>>
    <3>1. FAULTS(f).inject = <<"pause worker">> /\ "pause worker" \in Commands
      BY <1>4, FaultsAre DEF Commands
    <3>2. Head(FAULTS(f).inject) = "pause worker" /\ Tail(FAULTS(f).inject) = <<>>
      BY <3>1, OnlyCommand
    <3> QED
      BY <3>2, RunIs
  <2>2. r.stack = [b EXCEPT !.paused = @ \union {"worker"}]
    <3>1. "worker" \in b.up \ b.paused
      BY <1>0, ServicesType
    <3> QED
      BY <2>1, <3>1, PauseOk
  <2>3. Near(r.stack, Canonical, {"worker"})
    BY <1>0, <2>2 DEF Near, Box
  <2>4. Afflicted(NewMock(f), r.stack)
    BY <1>4, <2>3, NewlyAfflicted DEF Near, PoolFaults
  <2> QED
    BY <1>4, <2>1, <2>3, <2>4 DEF Broken, PoolFaults
<1>5. CASE f = "worker_scaled_to_zero"
  <2>1. r \in Scale(b, "worker", 0) /\ Tail(FAULTS(f).inject) = <<>>
    <3>1. FAULTS(f).inject = <<"scale 0">> /\ "scale 0" \in Commands
      BY <1>5, FaultsAre DEF Commands
    <3>2. Head(FAULTS(f).inject) = "scale 0" /\ Tail(FAULTS(f).inject) = <<>>
      BY <3>1, OnlyCommand
    <3> QED
      BY <3>2, RunIs
  <2>2. "worker" \in b.up /\ "db" \in b.up
    BY <1>0, ServicesType
  <2>3. /\ r.stack.loaded = b.loaded /\ r.stack.up = b.up \ {"worker"}
        /\ r.stack.paused = b.paused \ {"worker"}
        /\ r.stack.starting = (b.starting \union {"worker"}) \intersect (b.up \ {"worker"})
        /\ r.stack.sessions = b.sessions /\ r.stack.rotated = b.rotated
        /\ r.stack.file = b.file
    BY <2>1, <2>2, ScaleOk
  <2>4. Afflicted(NewMock(f), r.stack)
    <3>1. f \notin PoolFaults /\ r.stack.paused = {}
      BY <1>0, <1>5, <2>3 DEF PoolFaults
    <3> QED
      BY <1>0, <1>5, <2>3, <3>1, NewlyAfflicted DEF Near
  <2> QED
    BY <1>5, <2>1, <2>3, <2>4 DEF Near, Broken, PoolFaults
<1> QED
  BY <1>1, <1>2, <1>3, <1>4, <1>5 DEF FaultIds, PoolFaults

LEMMA InjectNext ==
  ASSUME TypeInv, PhaseInv, ResetInv, InjectInv, [Next]_vars
  PROVE  InjectInv'
<1> SUFFICES ASSUME at' = "injecting" PROVE InjectInv'
  BY DEF InjectInv
<1>0. box \in Boxes /\ box \in Box
  BY DEF TypeInv, Boxes
<1>1. ASSUME NEW f \in Scenarios, BeginInjection(f) PROVE InjectInv'
  <2>1. Near(box, Canonical, {}) /\ box.depth <= 1
    BY <1>1, ResetTail DEF BeginInjection, ResetInv
  <2> QED
    BY <1>1, <2>1 DEF BeginInjection, InjectInv, Near
<1>2. CASE Command
  <2>1. PICK r \in Run(box, Head(todo)) :
          box' = r.stack /\ r.ok /\ todo' = Tail(todo) /\ at = "injecting" /\ fault' = fault
    BY <1>2 DEF Command
  <2>2. fault \in FaultIds /\ todo # <<>>
    BY <1>2, <2>1, HarnessAssumption DEF Command, TypeInv, PhaseInv, Faulty
  <2>3. CASE todo = FAULTS(fault).inject /\ Near(box, Canonical, {}) /\ fault \notin ConfigFaults
    <3>1. Tail(todo) = <<>> /\ Broken(fault, box')
      BY <1>0, <2>1, <2>2, <2>3, OneCommandBreaks
    <3>2. todo' = <<>> /\ Broken(fault', box')
      BY <2>1, <3>1
    <3> QED
      BY <3>2 DEF InjectInv, Broken, Near
  <2>4. CASE todo = <<"rollout", "restart app">>
    <3>1. r.stack = [box EXCEPT !.file = BadConfig] /\ todo' = <<"restart app">>
      BY <1>0, <2>1, <2>4, CommandOk, InjectTail
    <3>2. /\ box'.depth = box.depth
          /\ \A paused \in SUBSET Services : Near(box, Canonical, paused) => Near(box', BadConfig, paused)
      BY <1>0, <2>1, <3>1 DEF Near, Box
    <3>3. /\ {} \in SUBSET Services /\ {"worker"} \in SUBSET Services
      BY ServicesType
    <3>4. \/ fault = "bad_config_rollout" /\ Near(box, Canonical, {})
          \/ /\ fault = "config_rollout_worker_wedge" /\ box.depth >= 1
             /\ Near(box, Canonical, {"worker"})
      <4>1. /\ todo # <<>> /\ todo # <<"restart app">>
            /\ todo # <<"seed", "rollout", "restart app">>
            /\ todo # <<"pause worker", "seed", "rollout", "restart app">>
        BY <2>4
      <4>2. fault \notin {"bad_config_rollout", "config_rollout_worker_wedge"} =>
              Tail(FAULTS(fault).inject) = <<>>
        BY <2>2, FaultsAre, InjectTail DEF FaultIds, PoolFaults, Commands
      <4>3. todo = FAULTS(fault).inject => fault = "bad_config_rollout"
        <5>1. Tail(todo) # <<>>
          BY <2>4, InjectTail DEF Commands
        <5> QED
          BY <4>1, <4>2, <5>1, FaultsAre
      <4> QED
        BY <2>1, <4>1, <4>3 DEF InjectInv
    <3>5. \/ fault' = "bad_config_rollout" /\ Near(box', BadConfig, {})
          \/ /\ fault' = "config_rollout_worker_wedge" /\ box'.depth >= 1
             /\ Near(box', BadConfig, {"worker"})
      BY <2>1, <3>2, <3>3, <3>4
    <3> QED
      BY <3>1, <3>5 DEF InjectInv, Near
  <2>5. CASE fault = "config_rollout_worker_wedge" /\ todo = FAULTS(fault).inject
             /\ Near(box, Canonical, {})
    <3>1. r \in Pause(box, "worker") /\ todo' = <<"seed", "rollout", "restart app">>
      <4>1. todo = <<"pause worker", "seed", "rollout", "restart app">>
        BY <2>5, FaultsAre
      <4>2. Head(todo) = "pause worker" /\ Tail(todo) = <<"seed", "rollout", "restart app">>
        BY <4>1, InjectTail
      <4> QED
        BY <2>1, <4>2, RunIs
    <3>2. "worker" \in box.up \ box.paused
      BY <2>5, ServicesType DEF Near
    <3>3. box' = [box EXCEPT !.paused = @ \union {"worker"}]
      BY <1>0, <2>1, <3>1, <3>2, PauseOk
    <3>4. Near(box', Canonical, {"worker"})
      BY <1>0, <2>5, <3>3 DEF Near, Box
    <3> QED
      BY <2>1, <2>5, <3>1, <3>4 DEF InjectInv, Near
  <2>6. CASE fault = "config_rollout_worker_wedge" /\ todo = <<"seed", "rollout", "restart app">>
             /\ Near(box, Canonical, {"worker"})
    <3>1. r \in Seed(box) /\ todo' = <<"rollout", "restart app">>
      BY <2>1, <2>6, InjectTail, RunIs
    <3>2. box' = [box EXCEPT !.depth = @ + Backlog] /\ Backlog \in Nat \ {0} /\ box.depth \in Nat
      BY <1>0, <2>1, <3>1, CommandOk, ServicesType DEF Box
    <3>3. Near(box', Canonical, {"worker"}) /\ box'.depth >= 1
      <4>1. /\ box'.depth = box.depth + Backlog /\ box'.file = box.file /\ box'.loaded = box.loaded
            /\ box'.up = box.up /\ box'.paused = box.paused /\ box'.starting = box.starting
            /\ box'.sessions = box.sessions /\ box'.rotated = box.rotated
        BY <1>0, <3>2 DEF Box
      <4>2. box'.depth >= 1
        BY <3>2, <4>1
      <4> QED
        BY <2>6, <4>1, <4>2 DEF Near
    <3> QED
      BY <2>1, <2>6, <3>1, <3>3 DEF InjectInv, Near
  <2>7. CASE todo = <<"restart app">> /\
             \/ fault = "bad_config_rollout" /\ Near(box, BadConfig, {})
             \/ fault = "config_rollout_worker_wedge" /\ box.depth >= 1 /\ Near(box, BadConfig, {"worker"})
    <3>1. r \in Restart(box, "app") /\ todo' = <<>>
      BY <2>1, <2>7, InjectTail, RunIs DEF Commands
    <3>2. "app" \in box.up /\ box.up = Services
      BY <2>7, ServicesType DEF Near
    <3>3. /\ box'.loaded = box.file /\ box'.up = box.up /\ box'.paused = box.paused \ {"app"}
          /\ box'.starting = (box.starting \union {"app"}) \intersect box.up
          /\ box'.depth = box.depth /\ box'.rotated = box.rotated
          /\ box'.sessions = box.sessions /\ box'.file = box.file
      BY <1>0, <2>1, <3>1, <3>2, RestartOk
    <3>4. Afflicted(NewMock(fault), box')
      BY <2>2, <2>7, <3>2, <3>3, NewlyAfflicted DEF Near, PoolFaults, ConfigFaults
    <3>5. Broken(fault', box')
      BY <2>1, <2>7, <3>2, <3>3, <3>4, ServicesType DEF Near, Broken, PoolFaults
    <3> QED
      BY <3>1, <3>5 DEF InjectInv, Broken, Near
  <2>8. FAULTS("bad_config_rollout").inject = <<"rollout", "restart app">>
    BY FaultsAre
  <2> QED
    <3>1. \/ todo = FAULTS(fault).inject /\ Near(box, Canonical, {})
          \/ fault = "bad_config_rollout" /\ todo = <<"restart app">> /\ Near(box, BadConfig, {})
          \/ /\ fault = "config_rollout_worker_wedge"
             /\ \/ todo = <<"seed", "rollout", "restart app">> /\ Near(box, Canonical, {"worker"})
                \/ todo = <<"rollout", "restart app">>
                \/ /\ todo = <<"restart app">>
                   /\ Near(box, BadConfig, {"worker"}) /\ box.depth >= 1
      BY <2>1, <2>2 DEF InjectInv
    <3>2. fault \notin ConfigFaults \/ fault = "bad_config_rollout" \/ fault = "config_rollout_worker_wedge"
      BY DEF ConfigFaults
    <3>3. CASE todo = FAULTS(fault).inject /\ Near(box, Canonical, {})
      BY <2>3, <2>4, <2>5, <2>8, <3>2, <3>3
    <3>4. CASE todo # FAULTS(fault).inject \/ ~Near(box, Canonical, {})
      BY <2>4, <2>6, <2>7, <3>1, <3>4
    <3> QED
      BY <3>3, <3>4
<1>3. CASE Background
  <2>1. /\ Drifts(box, box') /\ UNCHANGED <<at, todo, fault>>
        /\ ~(box.sessions = "held" /\ box'.sessions = "expired")
    BY <1>3, BackgroundDrifts DEF runner
  <2>2. fault \in FaultIds
    BY <2>1, HarnessAssumption DEF TypeInv, PhaseInv, Faulty
  <2>3. Broken(fault, box) => Broken(fault', box')
    BY <1>0, <2>1, <2>2, BrokenDrifts
  <2>4. /\ Near(box, Canonical, {}) => Near(box', Canonical, {})
        /\ Near(box, BadConfig, {}) => Near(box', BadConfig, {})
        /\ Near(box, Canonical, {"worker"}) => Near(box', Canonical, {"worker"})
        /\ Near(box, BadConfig, {"worker"}) => Near(box', BadConfig, {"worker"})
    BY <2>1, NearDrifts
  <2>5. box'.depth <= box.depth /\ box.depth \in Nat /\ box'.depth \in Nat
    BY <1>0, <2>1 DEF Drifts, Boxes, Box
  <2>6. box.paused = {"worker"} => box'.depth = box.depth
    BY <2>1 DEF Drifts, Idle
  <2>7. \A config \in Configs : Near(box, config, {"worker"}) => box.paused = {"worker"}
    BY DEF Near
  <2>8. Canonical \in Configs /\ BadConfig \in Configs
    BY ServicesType
  <2> QED
    <3>1. CASE todo = FAULTS(fault).inject /\ Near(box, Canonical, {}) /\ box.depth <= 1
      <4>1. todo' = FAULTS(fault').inject /\ Near(box', Canonical, {}) /\ box'.depth <= 1
        BY <2>1, <2>4, <2>5, <3>1
      <4> QED
        BY <4>1 DEF InjectInv, Near
    <3>2. CASE todo = <<>> /\ Broken(fault, box)
      <4>1. todo' = <<>> /\ Broken(fault', box')
        BY <2>1, <2>3, <3>2
      <4> QED
        BY <4>1 DEF InjectInv, Broken, Near
    <3>3. CASE fault = "bad_config_rollout" /\ todo = <<"restart app">> /\ Near(box, BadConfig, {})
      BY <2>1, <2>4, <3>3 DEF InjectInv, Near
    <3>4. CASE /\ fault = "config_rollout_worker_wedge"
               /\ \/ todo = <<"seed", "rollout", "restart app">> /\ Near(box, Canonical, {"worker"})
                  \/ /\ todo = <<"rollout", "restart app">>
                     /\ Near(box, Canonical, {"worker"}) /\ box.depth >= 1
                  \/ todo = <<"restart app">> /\ Near(box, BadConfig, {"worker"}) /\ box.depth >= 1
      <4>1. box'.depth = box.depth
        BY <2>6, <2>7, <2>8, <3>4
      <4> QED
        BY <2>1, <2>4, <3>4, <4>1 DEF InjectInv, Near
    <3> QED
      BY <2>1, <3>1, <3>2, <3>3, <3>4 DEF InjectInv
<1>4. CASE UNCHANGED vars
  BY <1>4 DEF vars, InjectInv, runner, probing, Near, Broken
<1>5. CASE ProbeMetrics \/ ProbeStatus
  BY <1>5 DEF ProbeMetrics, ProbeStatus, PhaseInv, TypeInv, runner, Wanted
<1> QED
  BY <1>1, <1>2, <1>3, <1>4, <1>5 DEF Next, Background, Start, Injected, Captured,
     FailCapture, OpenWorld, Act, StartVerification, ReadAlerts, Judge, Cleanup, Reverted, Crash

LEMMA IInit == Init => IInv
<1> SUFFICES ASSUME Init PROVE IInv
  OBVIOUS
<1>1. PICK c \in Configs :
        box = [file |-> c, loaded |-> c, up |-> {}, paused |-> {}, starting |-> {},
               sessions |-> "none", rotated |-> FALSE, depth |-> 0, done |-> 0, popped |-> FALSE]
  BY DEF Init
<1>2. box \in Boxes
  BY <1>1 DEF Boxes, Box
<1>3. /\ at = "idle" /\ fault = NoFault /\ active = NoFault /\ todo = <<>> /\ half = NoAnswer
      /\ snaps = <<>> /\ quiet = FALSE /\ mock = NoFault /\ agent = NoActs /\ intact = FALSE
      /\ settled = 0
  BY DEF Init
<1>4. <<>> \in Seq(Snaps) /\ <<>> \in Seq(Commands) /\ NoActs \in [acts : 0..MaxActs, harmless : BOOLEAN]
      /\ 0 \in 0..CaptureProbes /\ FALSE \in BOOLEAN /\ Len(<<>>) = 0
  BY HarnessAssumption DEF NoActs
<1>5. TypeInv
  BY <1>2, <1>3, <1>4, Zenon DEF TypeInv, Phases
<1>6. PhaseInv
  BY <1>3, <1>4 DEF PhaseInv, Wanted, Faulty
<1>7. ResetInv /\ InjectInv
  BY <1>3 DEF ResetInv, InjectInv
<1> QED
  BY <1>5, <1>6, <1>7 DEF IInv

LEMMA INext == IInv /\ [Next]_vars => IInv'
BY TypeNext, ResetNext, InjectNext DEF IInv

LEMMA Invariance == Spec => []IInv
BY IInit, INext, PTL DEF Spec

\* The components have their types; in particular the probes of a phase are never
\* more than it takes, and cleanup knows of no fault but the scenario's.
THEOREM TypeCorrect == Spec => []TypeOK
<1>1. IInv => TypeOK
  <2> SUFFICES ASSUME IInv PROVE TypeOK
    OBVIOUS
  <2>1. TypeInv /\ PhaseInv
    BY DEF IInv
  <2>2. box \in Box /\ box.starting \union box.paused \subseteq box.up
    BY <2>1 DEF TypeInv, Boxes
  <2>3. half # NoAnswer => half[1] = NoAnswer \/ half[1] \subseteq {"db", "queue"}
    BY <2>1, HalfIs DEF Healths
  <2>4. fault \in FaultIds \union {NoFault}
    BY <2>1, HarnessAssumption DEF TypeInv
  <2>5. Len(snaps) <= Wanted \/ at = "captured"
    BY <2>1 DEF PhaseInv
  <2>6. /\ at \in Phases /\ active \in {fault, NoFault} /\ todo \in Seq(Commands)
        /\ quiet \in BOOLEAN /\ mock \in Mock \union {NoFault}
        /\ agent \in [acts : 0..MaxActs, harmless : BOOLEAN]
        /\ intact \in BOOLEAN /\ settled \in 0..CaptureProbes
    BY <2>1 DEF TypeInv
  <2> QED
    BY <2>2, <2>3, <2>4, <2>5, <2>6 DEF TypeOK
<1> QED
  BY <1>1, Invariance, PTL

\* Injections differ from what is left of one by their length.
LEMMA InjectionsAre ==
  \A f \in FaultIds :
    /\ FAULTS(f).inject # <<>>
    /\ f = "bad_config_rollout" => FAULTS(f).inject # <<"restart app">>
    /\ f = "config_rollout_worker_wedge" =>
         /\ FAULTS(f).inject # <<"seed", "rollout", "restart app">>
         /\ FAULTS(f).inject # <<"rollout", "restart app">>
         /\ FAULTS(f).inject # <<"restart app">>
<1> DEFINE Short == {"downstream_timeout", "queue_consumer_stall", "expired_credential",
                     "worker_scaled_to_zero"} \union PoolFaults
<1>1. \A a : Len(<<a>>) = 1
  OBVIOUS
<1>2. \A a, b : Len(<<a, b>>) = 2
  OBVIOUS
<1>3. \A a, b, c : Len(<<a, b, c>>) = 3
  OBVIOUS
<1>4. \A a, b, c, d : Len(<<a, b, c, d>>) = 4
  OBVIOUS
<1>5. Len(<<>>) = 0
  OBVIOUS
<1>6. ASSUME NEW f \in Short PROVE \E c : FAULTS(f).inject = <<c>>
  BY FaultsAre
<1>7. ASSUME NEW f \in Short PROVE FAULTS(f).inject # <<>>
  <2>1. PICK c : FAULTS(f).inject = <<c>>
    BY <1>6
  <2>2. Len(FAULTS(f).inject) = 1
    BY <2>1, <1>1, Zenon
  <2> QED
    BY <2>2, <1>5
<1>8. /\ Len(FAULTS("bad_config_rollout").inject) = 2
      /\ Len(FAULTS("config_rollout_worker_wedge").inject) = 4
  <2>1. Len(FAULTS("bad_config_rollout").inject) = 2
    <3>1. FAULTS("bad_config_rollout").inject = <<"rollout", "restart app">>
      BY FaultsAre
    <3> QED
      BY <3>1, <1>2, Zenon
  <2>2. Len(FAULTS("config_rollout_worker_wedge").inject) = 4
    <3>1. FAULTS("config_rollout_worker_wedge").inject
            = <<"pause worker", "seed", "rollout", "restart app">>
      BY FaultsAre
    <3> QED
      BY <3>1, <1>4, Zenon
  <2> QED
    BY <2>1, <2>2
<1>9. /\ Len(<<"restart app">>) = 1 /\ Len(<<"rollout", "restart app">>) = 2
      /\ Len(<<"seed", "rollout", "restart app">>) = 3
  BY <1>1, <1>2, <1>3, Zenon
<1>10. FaultIds = Short \union {"bad_config_rollout", "config_rollout_worker_wedge"}
  BY DEF FaultIds, PoolFaults
<1>11. 1 # 2 /\ 1 # 4 /\ 2 # 4 /\ 3 # 4 /\ 0 # 1 /\ 0 # 2 /\ 0 # 4
  OBVIOUS
<1>12. "bad_config_rollout" \notin Short /\ "config_rollout_worker_wedge" \notin Short
       /\ "bad_config_rollout" # "config_rollout_worker_wedge"
  BY DEF PoolFaults
<1> HIDE DEF Short
<1> QED
  BY <1>5, <1>7, <1>8, <1>9, <1>10, <1>11, <1>12, Zenon

\* The runner's reset is a hard guarantee: whatever the last scenario, its agent,
\* a failed revert or a crash left behind, the first command of an injection
\* (ScenarioRunner.run) meets a stack with nothing wrong and no job but the one
\* its own probe pushed.
THEOREM InjectsIntoACleanStack == Spec => []StartsClean
<1>1. IInv => StartsClean
  <2> SUFFICES ASSUME IInv, at = "injecting", todo = FAULTS(fault).inject
               PROVE  /\ Sound(box) /\ box.file = Canonical
                      /\ box.starting \subseteq {"worker"} /\ box.depth <= 1
    BY DEF StartsClean
  <2>1. fault \in FaultIds
    BY HarnessAssumption DEF IInv, TypeInv, PhaseInv, Faulty
  <2>2. InjectInv
    BY DEF IInv
  <2>3. Near(box, Canonical, {}) /\ box.depth <= 1
    BY <2>1, <2>2, InjectionsAre DEF InjectInv
  <2> QED
    BY <2>3 DEF Near, Sound
<1> QED
  BY <1>1, Invariance, PTL

-----------------------------------------------------------------------------
(* The verdict. *)

\* A stack that serves goes on serving until a command is run on it.
LEMMA ServingDrifts ==
  ASSUME NEW b \in Boxes, NEW c, Drifts(b, c), b.sessions # "opening"
  PROVE  /\ c.sessions # "opening"
         /\ Serving(b) => Serving(c)
         /\ Sound(b) => Sound(c)
         /\ Idle(c) <=> Idle(b)
<1>1. c.sessions # "opening" /\ (b.sessions # "held" => c.sessions # "held")
  BY DEF Drifts
<1>2. \A s \in {"app", "db", "downstream", "queue"} : Answers(b, s) => Answers(c, s)
  BY DEF Drifts, Answers
<1>3. c.loaded = b.loaded /\ c.up = b.up /\ c.paused = b.paused /\ c.rotated = b.rotated
  BY DEF Drifts
<1> QED
  BY <1>1, <1>2, <1>3 DEF Serving, DbOk, Sound, Idle

\* Of a stack that serves, only the worker may be missing.
LEMMA ServingIsSound ==
  ASSUME NEW b \in Boxes, Serving(b), ~Idle(b), b.sessions # "opening"
  PROVE  Sound(b)
<1>1. /\ b.up \subseteq Services /\ b.paused \subseteq b.up
      /\ b.sessions # "held" /\ ~b.rotated /\ b.loaded = Canonical
  BY DEF Boxes, Box, Serving, DbOk
<1>2. {"app", "db", "downstream", "queue", "worker"} \subseteq b.up \ b.paused
  BY DEF Serving, DbOk, Answers, Idle
<1>3. b.up = Services /\ b.paused = {}
  BY <1>1, <1>2, ServicesType
<1> QED
  BY <1>1, <1>3 DEF Sound

\* A probe that finds the stack healthy finds it serving.
LEMMA HealthyIsServing ==
  ASSUME NEW b \in Boxes, NEW metrics, Healthy(Snapshot(Healthz(b), Work(b), metrics))
  PROVE  Serving(b)
<1>1. Work(b) = "done"
  BY DEF Healthy, Snapshot
<1> QED
  BY <1>1, WorkIsServing

LEMMA EndsOfInterval ==
  ASSUME NEW n \in Nat \ {0}
  PROVE  Min(1..n) = 1 /\ Max(1..n) = n
<1>1. 1 \in 1..n /\ n \in 1..n
  OBVIOUS
<1>2. \A x \in 1..n : (\A y \in 1..n : x =< y) <=> x = 1
  BY <1>1
<1>3. \A x \in 1..n : (\A y \in 1..n : x >= y) <=> x = n
  BY <1>1
<1>4. Min(1..n) = CHOOSE x \in 1..n : x = 1
  BY <1>2 DEF Min
<1>5. Max(1..n) = CHOOSE x \in 1..n : x = n
  BY <1>3 DEF Max
<1> QED
  BY <1>1, <1>4, <1>5

\* A series over a stack that serves while its worker is idle shows a backlog
\* that grows and no job done.
LEMMA GrowingShows ==
  ASSUME TypeInv, Growing, Len(snaps) \in Nat \ {0, 1}
  PROVE  /\ WithMetrics(snaps) = 1..Len(snaps)
         /\ DepthDelta(snaps) > 0 /\ DoneDelta(snaps) = 0
<1> DEFINE n == Len(snaps)
<1>1. DOMAIN snaps = 1..n /\ \A i \in 1..n : snaps[i] \in Snaps
  BY DEF TypeInv
<1>2. WithMetrics(snaps) = 1..n
  BY <1>1 DEF WithMetrics, Growing
<1>3. FirstMetrics(snaps) = snaps[1].metrics /\ LastMetrics(snaps) = snaps[n].metrics
  BY <1>2, EndsOfInterval DEF FirstMetrics, LastMetrics
<1>4. 1 \in 1..n /\ n \in 1..n /\ 1 < n
  OBVIOUS
<1>5. /\ snaps[1].metrics \in [depth : Nat, done : Nat]
      /\ snaps[n].metrics \in [depth : Nat, done : Nat]
  BY <1>1, <1>4 DEF Growing, Snaps
<1>6. /\ snaps[1].metrics.depth < snaps[n].metrics.depth
      /\ snaps[1].metrics.done = 0 /\ snaps[n].metrics.done = 0
  BY <1>4 DEF Growing
<1> QED
  BY <1>2, <1>3, <1>5, <1>6 DEF DepthDelta, DoneDelta

\* What a series holds.
LEMMA SnapType ==
  ASSUME TypeInv, NEW i \in 1..Len(snaps)
  PROVE  /\ snaps[i].healthz \in Healths /\ snaps[i].work \in Works
         /\ snaps[i].metrics # NoAnswer =>
              /\ snaps[i].metrics \in [depth : Nat, done : Nat]
              /\ snaps[i].metrics.depth \in Nat /\ snaps[i].metrics.done \in Nat
<1>1. snaps[i] \in Snaps
  BY DEF TypeInv
<1>2. /\ snaps[i].healthz \in Healths /\ snaps[i].work \in Works
      /\ snaps[i].metrics \in [depth : Nat, done : Nat] \union {NoAnswer}
  BY <1>1 DEF Snaps
<1> QED
  BY <1>2

\* While the worker is idle, each probe of a stack that serves adds a job.
LEMMA GrowingProbes ==
  ASSUME TypeInv, Growing, Serving(box),
         \/ /\ half = NoAnswer /\ half' # NoAnswer
            /\ box' = Worked(box) /\ UNCHANGED snaps
         \/ ProbeMetrics
  PROVE  Growing'
<1>0. box \in Boxes /\ box.depth \in Nat /\ box.done = 0
  BY DEF TypeInv, Growing, Boxes, Box
<1>1. CASE half = NoAnswer /\ half' # NoAnswer /\ box' = Worked(box) /\ UNCHANGED snaps
  <2>1. box'.done = 0 /\ box'.depth = box.depth + 1
    BY <1>0, <1>1, WorkedIs
  <2>2. Pending = 0 /\ Pending' = 1
    BY <1>1 DEF Pending
  <2>3. \A i \in 1..Len(snaps) : snaps[i].metrics.depth \in Nat
    BY SnapType DEF Growing
  <2> QED
    BY <1>0, <1>1, <2>1, <2>2, <2>3 DEF Growing
<1>2. CASE ProbeMetrics
  <2> DEFINE n == Len(snaps)
             snap == Snapshot(half[1], half[2], Metrics(box))
  <2>1. Pending = 1 /\ Pending' = 0 /\ box' = box /\ snaps' = Append(snaps, snap)
    BY <1>2 DEF ProbeMetrics, Pending
  <2>2. snap.metrics = [depth |-> box.depth, done |-> box.done]
    BY DEF Snapshot, Metrics, Serving
  <2>3. snap.metrics # NoAnswer /\ snap.metrics.depth = box.depth /\ snap.metrics.done = 0
    <3>1. [depth |-> box.depth, done |-> box.done] \in [depth : Nat, done : Nat]
      BY <1>0
    <3> QED
      BY <1>0, <2>2, <3>1, NoAnswerAssumption
  <2> HIDE DEF snap
  <2>4. /\ Len(snaps') = n + 1 /\ snaps'[n + 1] = snap
        /\ \A i \in 1..n : snaps'[i] = snaps[i]
        /\ n \in Nat
    BY <2>1 DEF TypeInv
  <2>5. \A i \in 1..n : snaps[i].metrics.depth \in Nat /\ snaps[i].metrics.depth + 1 <= box.depth
    <3>1. \A i \in 1..n : snaps[i].metrics # NoAnswer /\ snaps[i].metrics.depth + Pending <= box.depth
      BY DEF Growing
    <3> QED
      BY <2>1, <3>1, SnapType
  <2>6. \A i \in 1..(n + 1) : i \in 1..n \/ i = n + 1
    BY <2>4
  <2>7. \A i \in 1..(n + 1) :
          /\ snaps'[i].metrics # NoAnswer /\ snaps'[i].metrics.done = 0
          /\ snaps'[i].metrics.depth <= box.depth
    <3>1. \A i \in 1..n : /\ snaps'[i].metrics # NoAnswer /\ snaps'[i].metrics.done = 0
                          /\ snaps'[i].metrics.depth <= box.depth
      BY <1>0, <2>4, <2>5 DEF Growing
    <3> QED
      BY <1>0, <2>3, <2>4, <2>6, <3>1
  <2>8. ASSUME NEW i \in 1..(n + 1), NEW j \in 1..(n + 1), i < j
        PROVE  snaps'[i].metrics.depth < snaps'[j].metrics.depth
    <3>1. i \in 1..n
      BY <2>4, <2>8
    <3>2. CASE j \in 1..n
      BY <2>4, <2>8, <3>1, <3>2 DEF Growing
    <3>3. CASE j = n + 1
      BY <1>0, <2>3, <2>4, <2>5, <3>1, <3>3
    <3> QED
      BY <2>6, <3>2, <3>3
  <2>9. \A i \in 1..(n + 1) : snaps'[i].metrics.depth + 0 = snaps'[i].metrics.depth
    <3>1. \A i \in 1..n : snaps'[i].metrics.depth \in Nat
      BY <2>4, <2>5
    <3> QED
      BY <1>0, <2>3, <2>4, <2>6, <3>1
  <2> QED
    BY <1>0, <2>1, <2>4, <2>7, <2>8, <2>9 DEF Growing
<1> QED
  BY <1>1, <1>2

LEMMA NoAlertsAppend ==
  ASSUME NEW series \in Seq(Snaps), NEW snap, NoAlerts(Append(series, snap))
  PROVE  Healthy(snap)
<1>1. /\ Len(series) + 1 \in DOMAIN Append(series, snap)
      /\ Append(series, snap)[Len(series) + 1] = snap
  OBVIOUS
<1> QED
  BY <1>1 DEF NoAlerts

LEMMA VerdictNext ==
  ASSUME TypeInv, PhaseInv, VerdictInv, [Next]_vars
  PROVE  VerdictInv'
<1> DEFINE Verifying == {"captured", "open", "alerts", "metrics", "resolved", "unresolved"}
<1>0. /\ box \in Boxes /\ snaps \in Seq(Snaps)
      /\ VerifySamples \in Nat \ {0, 1}
  BY HarnessAssumption DEF TypeInv
<1>1. ASSUME at' \notin Verifying PROVE VerdictInv'
  BY <1>1 DEF VerdictInv, VerdictIsTrue
<1>2. ASSUME NEW step \in AgentSteps, Act(step) PROVE VerdictInv'
  <2>1. step \in Step
    BY HarnessAssumption
  <2>2. PICK r \in Call(box, step) : box' = r.stack
    BY <1>2 DEF Act
  <2>3. box'.sessions \in {box.sessions, "none"}
    BY <1>0, <2>1, <2>2, CallType
  <2>4. at \in Verifying /\ at' = "open"
    BY <1>2 DEF Act
  <2> QED
    BY <2>3, <2>4 DEF VerdictInv, VerdictIsTrue
<1>3. CASE Captured \/ OpenWorld
  BY <1>3 DEF Captured, OpenWorld, VerdictInv, VerdictIsTrue
<1>4. CASE StartVerification
  <2>1. snaps' = <<>> /\ at' = "alerts" /\ box' = box /\ at = "open"
    BY <1>4 DEF StartVerification, PhaseInv, Wanted, TypeInv
  <2> QED
    BY <2>1 DEF VerdictInv, VerdictIsTrue
<1>5. CASE ReadAlerts
  <2>1. /\ at = "alerts" /\ at' = "metrics" /\ snaps # <<>> /\ snaps' = <<>>
        /\ quiet' = NoAlerts(snaps) /\ half' = half
        /\ box' = [box EXCEPT !.done = 0]
    BY <1>0, <1>5 DEF ReadAlerts, NewSeries
  <2>2. /\ box'.done = 0 /\ box'.sessions = box.sessions /\ (Serving(box) => Serving(box'))
    BY <1>0, <2>1 DEF Serving, DbOk, Answers, Boxes, Box
  <2>3. Growing'
    BY <2>1, <2>2 DEF Growing
  <2> QED
    BY <2>1, <2>2, <2>3 DEF VerdictInv, VerdictIsTrue
<1>6. CASE Judge
  <2>1. /\ at = "metrics" /\ box' = box /\ snaps' = <<>> /\ Len(snaps) = VerifySamples
        /\ quiet' = FALSE
        /\ at' = "resolved" => quiet /\ BacklogDraining(snaps)
        /\ at' \in {"resolved", "unresolved", "alerts"}
    BY <1>6 DEF Judge
  <2>2. CASE at' = "resolved"
    <3>1. Serving(box) /\ (Idle(box) => Growing) /\ box.sessions # "opening"
      BY <2>1, <2>2 DEF VerdictInv
    <3>2. ~Idle(box)
      <4> SUFFICES ASSUME Growing PROVE FALSE
        BY <3>1
      <4>1. /\ WithMetrics(snaps) = 1..Len(snaps)
            /\ DepthDelta(snaps) > 0 /\ DoneDelta(snaps) = 0
        BY <1>0, <2>1, GrowingShows
      <4>2. WithMetrics(snaps) # {}
        BY <1>0, <2>1, <4>1
      <4> QED
        BY <2>1, <2>2, <4>1, <4>2 DEF BacklogDraining
    <3>3. Sound(box)
      BY <1>0, <3>1, <3>2, ServingIsSound
    <3>4. Sound(box')
      BY <2>1, <3>3
    <3> QED
      BY <2>1, <2>2, <3>1, <3>4 DEF VerdictInv, VerdictIsTrue
  <2>3. CASE at' # "resolved"
    BY <2>1, <2>3 DEF VerdictInv, VerdictIsTrue
  <2> QED
    BY <2>2, <2>3
<1>7. CASE ProbeStatus
  <2> SUFFICES ASSUME at \in Verifying PROVE VerdictInv'
    BY <1>1, <1>7 DEF ProbeStatus, runner
  <2>1. /\ box' = Worked(box) /\ at' = at /\ quiet' = quiet /\ half = NoAnswer
        /\ at \in {"alerts", "metrics"}
    BY <1>7 DEF ProbeStatus, runner, Wanted, TypeInv
  <2>2. /\ Serving(box) => Serving(box')
        /\ box'.sessions = box.sessions /\ (Idle(box') <=> Idle(box))
    BY <1>0, <2>1, WorkedIs DEF Serving, DbOk, Answers, Idle
  <2>3. CASE at = "alerts"
    <3>1. snaps' = Append(snaps, Snapshot(Healthz(box), Work(box), NoAnswer))
      BY <1>7, <2>3 DEF ProbeStatus
    <3>2. NoAlerts(snaps') => Serving(box)
      BY <1>0, <3>1, NoAlertsAppend, HealthyIsServing
    <3> QED
      BY <2>1, <2>2, <2>3, <3>2 DEF VerdictInv, VerdictIsTrue
  <2>4. CASE at = "metrics"
    <3>1. half' # NoAnswer /\ snaps' = snaps
      BY <1>7, <2>4, HalfIs DEF ProbeStatus
    <3>2. Serving(box) /\ Growing => Growing'
      BY <2>1, <3>1, GrowingProbes
    <3> QED
      BY <2>1, <2>2, <2>4, <3>2 DEF VerdictInv, VerdictIsTrue
  <2> QED
    BY <2>1, <2>3, <2>4
<1>8. CASE ProbeMetrics
  <2>1. /\ box' = box /\ at' = at /\ quiet' = quiet /\ at \in {"capturing", "metrics"}
    BY <1>8 DEF ProbeMetrics, runner, PhaseInv
  <2>2. Serving(box) /\ Growing => Growing'
    BY <1>8, GrowingProbes
  <2> QED
    BY <2>1, <2>2 DEF VerdictInv, VerdictIsTrue
<1>9. CASE Background
  <2>1. Drifts(box, box') /\ UNCHANGED <<at, quiet, half, snaps>>
    BY <1>9, BackgroundDrifts DEF runner, probing
  <2> SUFFICES ASSUME at \in Verifying PROVE VerdictInv'
    BY <1>1, <2>1
  <2>2. box.sessions # "opening"
    BY DEF VerdictInv
  <2>3. /\ box'.sessions # "opening" /\ (Serving(box) => Serving(box'))
        /\ Sound(box) => Sound(box')
        /\ Idle(box') <=> Idle(box)
    BY <1>0, <2>1, <2>2, ServingDrifts
  <2>4. Idle(box) /\ Growing => Growing'
    <3> SUFFICES ASSUME Idle(box), Growing PROVE Growing'
      OBVIOUS
    <3>1. box'.depth = box.depth /\ box'.done = box.done
      BY <2>1 DEF Drifts
    <3>2. Pending' = Pending
      BY <2>1 DEF Pending
    <3> QED
      BY <2>1, <3>1, <3>2 DEF Growing
  <2> QED
    BY <2>1, <2>3, <2>4 DEF VerdictInv, VerdictIsTrue
<1>10. CASE UNCHANGED vars
  <2>1. Growing => Growing'
    BY <1>10 DEF vars, probing, Growing, Pending
  <2> QED
    BY <1>10, <2>1 DEF vars, runner, probing, VerdictInv, VerdictIsTrue, Serving, Sound, Idle
<1>11. CASE Command
  BY <1>1, <1>11 DEF Command
<1> QED
  BY <1>1, <1>2, <1>3, <1>4, <1>5, <1>6, <1>7, <1>8, <1>9, <1>10, <1>11
  DEF Next, Background, Start, BeginInjection, Injected, FailCapture, Cleanup, Reverted, Crash

-----------------------------------------------------------------------------
(* The capture. *)

LEMMA SmallestOf ==
  ASSUME NEW S \in SUBSET Nat, S # {}
  PROVE  Min(S) \in S
<1>1. PICK x \in S : \A y \in S : ~(<<y, x>> \in OpToRel(<, Nat))
  BY NatLessThanWellFounded, WFMin
<1>2. OpToRel(<, Nat) = {ss \in Nat \X Nat : ss[1] < ss[2]}
  BY DEF OpToRel
<1>3. ASSUME NEW y \in S PROVE x =< y
  <2>1. ~(<<y, x>> \in {ss \in Nat \X Nat : ss[1] < ss[2]})
    BY <1>1, <1>2, Zenon
  <2>2. <<y, x>> \in Nat \X Nat
    OBVIOUS
  <2> QED
    BY <2>1, <2>2
<1> QED
  BY <1>3 DEF Min

LEMMA LargestOf ==
  ASSUME NEW n \in Nat, NEW S \in SUBSET (1..n), n \in S
  PROVE  Max(S) = n
<1>1. \A x \in S : (\A y \in S : x >= y) <=> x = n
  OBVIOUS
<1>2. Max(S) = CHOOSE x \in S : x = n
  BY <1>1 DEF Max
<1> QED
  BY <1>2

LEMMA AtLeastTwo ==
  ASSUME NEW n \in Nat \ {0, 1}, NEW S \in SUBSET (1..n), n \in S, n - 1 \in S
  PROVE  Cardinality(S) >= 2
<1>1. n - 1 \in Int /\ n \in Int /\ n - 1 <= n
  OBVIOUS
<1>2. IsFiniteSet((n - 1)..n) /\ Cardinality((n - 1)..n) = 2
  BY <1>1, FS_Interval
<1>3. IsFiniteSet(1..n)
  BY FS_Interval
<1>4. IsFiniteSet(S)
  BY <1>3, FS_Subset
<1>5. (n - 1)..n \subseteq S
  <2>1. \A x \in (n - 1)..n : x = n - 1 \/ x = n
    OBVIOUS
  <2> QED
    BY <2>1
<1>6. Cardinality((n - 1)..n) <= Cardinality(S) /\ Cardinality(S) \in Nat
  BY <1>4, <1>5, FS_Subset, FS_CardinalityType
<1> QED
  BY <1>2, <1>6

\* The signature of each fault.
LEMMA SymptomsAre ==
  ASSUME NEW series
  PROVE  /\ \A f \in PoolFaults \union {"expired_credential"} :
              Symptoms(f, series) <=> ComponentDown(series, "db")
         /\ Symptoms("bad_config_rollout", series) <=> WorkAnswered(series, "feature_mode")
         /\ Symptoms("downstream_timeout", series) <=> WorkAnswered(series, "downstream_timeout")
         /\ \A f \in {"queue_consumer_stall", "worker_scaled_to_zero"} :
              Symptoms(f, series) <=> BacklogGrows(series)
         /\ Symptoms("config_rollout_worker_wedge", series) <=>
              WorkAnswered(series, "feature_mode") /\ BacklogStuck(series)
<1>1. \A f \in PoolFaults \union {"expired_credential"} : FAULTS(f).sign = "db down"
  BY FaultsAre
<1>2. \A f \in {"queue_consumer_stall", "worker_scaled_to_zero"} : FAULTS(f).sign = "backlog grows"
  BY FaultsAre
<1>3. /\ FAULTS("bad_config_rollout").sign = "config rejected"
      /\ FAULTS("downstream_timeout").sign = "downstream timeout"
      /\ FAULTS("config_rollout_worker_wedge").sign = "config rejected, backlog stuck"
  BY FaultsAre
<1> QED
  BY <1>1, <1>2, <1>3 DEF Symptoms

\* A fault that has settled shows in each probe.
LEMMA BrokenShows ==
  ASSUME NEW b \in Boxes, NEW f \in FaultIds, Broken(f, b), FaultSettled(b)
  PROVE  /\ Shows(f, Healthz(b), Work(b))
         /\ f = "config_rollout_worker_wedge" =>
              Metrics(b) = [depth |-> b.depth, done |-> b.done]
<1>1. Answers(b, "app") /\ b.sessions # "opening"
  BY DEF FaultSettled
<1>2. ~DbOk(b) => Healthz(b) # NoAnswer /\ "db" \in Healthz(b)
  <2>1. Healthz(b) = {c \in {"db"} : ~DbOk(b)} \union {c \in {"queue"} : ~Answers(b, c)}
    BY <1>1 DEF Healthz
  <2>2. Healthz(b) \in SUBSET {"db", "queue"}
    BY <2>1
  <2> QED
    BY <2>1, <2>2, NoAnswerAssumption
<1>3. f \in PoolFaults \union {"expired_credential"} => ~DbOk(b)
  BY <1>1 DEF Broken, DbOk
<1>4. f \in ConfigFaults => Work(b) = "feature_mode"
  <2> SUFFICES ASSUME f \in ConfigFaults PROVE Work(b) = "feature_mode"
    OBVIOUS
  <2>1. b.loaded["feature_mode"] # Known
    BY ServicesType DEF Broken, Afflicted, ConfigFaults
  <2> QED
    BY <1>1, <2>1 DEF Work
<1>5. f = "downstream_timeout" => Work(b) = "downstream_timeout"
  <2> SUFFICES ASSUME f = "downstream_timeout" PROVE Work(b) = "downstream_timeout"
    OBVIOUS
  <2>1. Near(b, Canonical, {"downstream"})
    BY DEF Broken
  <2>2. DbOk(b) /\ b.loaded = Canonical /\ "downstream" \in b.paused
    BY <2>1, ServicesType DEF Near, DbOk, Answers
  <2>3. b.loaded["feature_mode"] = Known /\ b.loaded["downstream_url"] = Known
    BY <2>2, ServicesType DEF ConfigKeys
  <2>4. Downstream(b) = "downstream_timeout"
    BY <2>2, <2>3 DEF Downstream
  <2> QED
    BY <1>1, <2>2, <2>3, <2>4 DEF Work
<1>6. f = "config_rollout_worker_wedge" => Answers(b, "queue")
  BY ServicesType DEF Broken, Answers
<1> QED
  BY <1>1, <1>2, <1>3, <1>4, <1>5, <1>6 DEF Shows, Metrics

\* A stack whose worker alone is missing serves.
LEMMA StalledServes ==
  ASSUME NEW b \in Boxes, NEW f \in {"queue_consumer_stall", "worker_scaled_to_zero"}, Broken(f, b)
  PROVE  Serving(b) /\ Idle(b)
<1>1. /\ b.loaded = Canonical /\ b.sessions = "none" /\ ~b.rotated
      /\ b.starting \subseteq {"worker"} /\ b.paused \subseteq {"worker"}
      /\ Services \ {"worker"} \subseteq b.up /\ Idle(b)
  BY DEF Broken, Near, Idle
<1>2. \A s \in {"app", "db", "downstream", "queue"} : Answers(b, s)
  BY <1>1, ServicesType DEF Answers
<1> QED
  BY <1>1, <1>2 DEF Serving, DbOk

\* A probe, and what starts meanwhile, leave a settled fault settled.
LEMMA SettledStays ==
  ASSUME NEW b \in Boxes, FaultSettled(b)
  PROVE  /\ FaultSettled(Worked(b))
         /\ \A c : Drifts(b, c) => FaultSettled(c)
<1>1. FaultSettled(Worked(b))
  BY WorkedIs DEF FaultSettled, Answers
<1>2. ASSUME NEW c, Drifts(b, c) PROVE FaultSettled(c)
  BY <1>2 DEF FaultSettled, Answers, Drifts
<1> QED
  BY <1>1, <1>2

LEMMA CaptureStarts ==
  ASSUME TypeInv, PhaseInv, InjectInv, Injected
  PROVE  CaptureInv'
<1>0. box \in Boxes /\ fault \in FaultIds
  BY HarnessAssumption DEF TypeInv, PhaseInv, Faulty, Injected
<1>1. at = "injecting" /\ todo = <<>> /\ fault' = fault /\ settled' = 0 /\ snaps' = <<>>
      /\ half' = NoAnswer /\ box' = [box EXCEPT !.done = 0]
  BY DEF Injected, PhaseInv, TypeInv, Wanted, NewSeries, probing, history
<1>2. Broken(fault, box)
  <2>1. FAULTS(fault).inject # <<>>
    BY <1>0, InjectionsAre
  <2> QED
    BY <1>1, <2>1 DEF InjectInv
<1>3. /\ box'.file = box.file /\ box'.loaded = box.loaded /\ box'.up = box.up
      /\ box'.paused = box.paused /\ box'.starting = box.starting /\ box'.sessions = box.sessions
      /\ box'.rotated = box.rotated /\ box'.depth = box.depth /\ box'.done = 0
  BY <1>0, <1>1 DEF Boxes, Box
<1>4. Broken(fault', box')
  <2>1. Afflicted(NewMock(fault), box')
    BY <1>2, <1>3, AfflictedSame DEF Broken
  <2> QED
    BY <1>1, <1>2, <1>3, <2>1 DEF Broken, Near
<1>5. Growing'
  BY <1>1, <1>3 DEF Growing
<1>6. ~(settled' >= 1) /\ Len(snaps') = 0
  BY <1>1
<1> QED
  BY <1>1, <1>3, <1>4, <1>5, <1>6 DEF CaptureInv

LEMMA CaptureProbed ==
  ASSUME TypeInv, PhaseInv, CaptureInv, ProbeStatus, at = "capturing"
  PROVE  CaptureInv'
<1>0. box \in Boxes /\ fault \in FaultIds /\ settled \in Nat /\ Len(snaps) \in Nat
  BY HarnessAssumption DEF TypeInv, PhaseInv, Faulty
<1>1. /\ half = NoAnswer /\ half' = <<Healthz(box), Work(box)>> /\ half' # NoAnswer
      /\ snaps' = snaps /\ fault' = fault /\ box' = Worked(box)
      /\ settled' = IF FaultSettled(box) THEN settled + 1 ELSE settled
  BY HalfIs DEF ProbeStatus, runner
<1>2. Broken(fault, box) /\ (settled >= 1 => FaultSettled(box))
  BY DEF CaptureInv
<1>3. /\ box'.file = box.file /\ box'.loaded = box.loaded /\ box'.up = box.up
      /\ box'.paused = box.paused /\ box'.starting = box.starting /\ box'.sessions = box.sessions
      /\ box'.rotated = box.rotated /\ box'.done = box.done
      /\ box'.depth \in {box.depth, box.depth + 1} /\ box.depth \in Nat
  BY <1>0, <1>1, WorkedIs DEF Boxes, Box
<1>4. Broken(fault', box')
  <2>1. Afflicted(NewMock(fault), box')
    BY <1>2, <1>3, AfflictedSame DEF Broken
  <2> QED
    BY <1>1, <1>2, <1>3, <2>1 DEF Broken, Near
<1>5. settled' >= 1 => FaultSettled(box) /\ FaultSettled(box')
  BY <1>0, <1>1, <1>2, SettledStays
<1>6. settled' >= 1 => Shows(fault', half'[1], half'[2])
  <2>1. half'[1] = Healthz(box) /\ half'[2] = Work(box)
    BY <1>1
  <2> QED
    BY <1>0, <1>1, <1>2, <1>5, <2>1, BrokenShows
<1>7. Pending = 0 /\ Pending' = 1
  BY <1>1 DEF Pending
<1>8. ASSUME NEW i \in 1..Len(snaps'), i + settled' > Len(snaps') + Pending'
      PROVE  /\ Shows(fault', snaps'[i].healthz, snaps'[i].work)
             /\ fault' = "config_rollout_worker_wedge" => snaps'[i].metrics # NoAnswer
  <2>1. i \in 1..Len(snaps) /\ i + settled > Len(snaps) + Pending
    BY <1>0, <1>1, <1>7, <1>8
  <2> QED
    BY <1>1, <2>1 DEF CaptureInv
<1>9. fault' \in {"queue_consumer_stall", "worker_scaled_to_zero"} => Growing'
  <2> SUFFICES ASSUME fault \in {"queue_consumer_stall", "worker_scaled_to_zero"} PROVE Growing'
    BY <1>1
  <2>1. Serving(box) /\ Growing
    BY <1>0, <1>2, StalledServes DEF CaptureInv
  <2> QED
    BY <1>1, <2>1, GrowingProbes
<1>10. fault' = "config_rollout_worker_wedge" =>
         /\ box'.done = 0
         /\ \A i \in 1..Len(snaps') : snaps'[i].metrics # NoAnswer =>
              snaps'[i].metrics.depth >= 1 /\ snaps'[i].metrics.done = 0
  BY <1>1, <1>3 DEF CaptureInv
<1> QED
  BY <1>4, <1>5, <1>6, <1>8, <1>9, <1>10 DEF CaptureInv

LEMMA CaptureMeasured ==
  ASSUME TypeInv, PhaseInv, CaptureInv, ProbeMetrics, at = "capturing"
  PROVE  CaptureInv'
<1> DEFINE n == Len(snaps)
           snap == Snapshot(half[1], half[2], Metrics(box))
<1>0. /\ box \in Boxes /\ fault \in FaultIds /\ settled \in Nat /\ n \in Nat
      /\ snaps \in Seq(Snaps) /\ box.depth \in Nat /\ box.done \in Nat
  BY HarnessAssumption DEF TypeInv, PhaseInv, Faulty, Boxes, Box
<1>1. /\ half # NoAnswer /\ half' = NoAnswer /\ snaps' = Append(snaps, snap)
      /\ fault' = fault /\ box' = box /\ settled' = settled
  BY DEF ProbeMetrics, runner, history
<1>2. Broken(fault, box) /\ (settled >= 1 => FaultSettled(box) /\ Shows(fault, half[1], half[2]))
  BY <1>1 DEF CaptureInv
<1>3. Broken(fault', box') /\ (settled' >= 1 => FaultSettled(box'))
  BY <1>1, <1>2
<1>4. snap.healthz = half[1] /\ snap.work = half[2] /\ snap.metrics = Metrics(box)
  BY DEF Snapshot
<1>5. [depth |-> box.depth, done |-> box.done] # NoAnswer
  <2>1. [depth |-> box.depth, done |-> box.done] \in [depth : Nat, done : Nat]
    BY <1>0
  <2> QED
    BY <2>1, NoAnswerAssumption
<1> HIDE DEF snap
<1>6. /\ Len(snaps') = n + 1 /\ snaps'[n + 1] = snap
      /\ \A i \in 1..n : snaps'[i] = snaps[i]
      /\ \A i \in 1..(n + 1) : i \in 1..n \/ i = n + 1
  BY <1>0, <1>1
<1>7. Pending = 1 /\ Pending' = 0
  BY <1>1 DEF Pending
<1>8. ASSUME NEW i \in 1..(n + 1), i + settled > n + 1
      PROVE  /\ Shows(fault, snaps'[i].healthz, snaps'[i].work)
             /\ fault = "config_rollout_worker_wedge" => snaps'[i].metrics # NoAnswer
  <2>1. CASE i \in 1..n
    BY <1>6, <1>7, <1>8, <2>1 DEF CaptureInv
  <2>2. CASE i = n + 1
    <3>1. settled >= 1
      BY <1>0, <1>8, <2>2
    <3>2. fault = "config_rollout_worker_wedge" => snap.metrics # NoAnswer
      BY <1>0, <1>2, <1>4, <1>5, <3>1, BrokenShows
    <3> QED
      BY <1>2, <1>4, <1>6, <2>2, <3>1, <3>2
  <2> QED
    BY <1>6, <2>1, <2>2
<1>9. fault \in {"queue_consumer_stall", "worker_scaled_to_zero"} => Growing'
  <2> SUFFICES ASSUME fault \in {"queue_consumer_stall", "worker_scaled_to_zero"} PROVE Growing'
    OBVIOUS
  <2>1. Serving(box) /\ Growing
    BY <1>0, <1>2, StalledServes DEF CaptureInv
  <2> QED
    BY <2>1, GrowingProbes
<1>10. ASSUME fault = "config_rollout_worker_wedge"
       PROVE  /\ box'.done = 0
              /\ \A i \in 1..(n + 1) : snaps'[i].metrics # NoAnswer =>
                   snaps'[i].metrics.depth >= 1 /\ snaps'[i].metrics.done = 0
  <2>1. box.done = 0 /\ box.depth >= 1
    BY <1>2, <1>10 DEF CaptureInv, Broken
  <2>2. snap.metrics # NoAnswer => snap.metrics.depth = box.depth /\ snap.metrics.done = box.done
    BY <1>4 DEF Metrics
  <2>3. \A i \in 1..n : snaps'[i].metrics # NoAnswer =>
          snaps'[i].metrics.depth >= 1 /\ snaps'[i].metrics.done = 0
    BY <1>6, <1>10 DEF CaptureInv
  <2>4. box'.done = 0
    BY <1>1, <2>1
  <2>5. snaps'[n + 1].metrics # NoAnswer =>
          snaps'[n + 1].metrics.depth >= 1 /\ snaps'[n + 1].metrics.done = 0
    BY <1>6, <2>1, <2>2
  <2> QED
    BY <1>6, <2>3, <2>4, <2>5
<1>11. /\ half' = NoAnswer /\ fault' = fault /\ settled' = settled
       /\ Len(snaps') + Pending' = n + 1
  BY <1>0, <1>1, <1>6, <1>7
<1> QED
  BY <1>3, <1>6, <1>8, <1>9, <1>10, <1>11 DEF CaptureInv

LEMMA CaptureDrifts ==
  ASSUME TypeInv, PhaseInv, CaptureInv, Background, at = "capturing"
  PROVE  CaptureInv'
<1>0. box \in Boxes /\ fault \in FaultIds
  BY HarnessAssumption DEF TypeInv, PhaseInv, Faulty
<1>1. /\ Drifts(box, box') /\ UNCHANGED <<at, fault, half, snaps, settled>>
      /\ ~(box.sessions = "held" /\ box'.sessions = "expired")
  BY BackgroundDrifts DEF runner, probing, history
<1>2. Broken(fault, box)
  BY DEF CaptureInv
<1>3. Broken(fault', box')
  BY <1>0, <1>1, <1>2, BrokenDrifts
<1>4. settled' >= 1 => FaultSettled(box')
  BY <1>0, <1>1, SettledStays DEF CaptureInv
<1>5. Pending' = Pending
  BY <1>1 DEF Pending
<1>6. fault \in {"queue_consumer_stall", "worker_scaled_to_zero"} => Growing'
  <2> SUFFICES ASSUME fault \in {"queue_consumer_stall", "worker_scaled_to_zero"} PROVE Growing'
    OBVIOUS
  <2>1. Idle(box) /\ Growing
    BY <1>0, <1>2, StalledServes DEF CaptureInv
  <2>2. box'.depth = box.depth /\ box'.done = box.done
    BY <1>1, <2>1 DEF Drifts
  <2> QED
    BY <1>1, <1>5, <2>1, <2>2 DEF Growing
<1>7. fault = "config_rollout_worker_wedge" => box'.done = box.done
  BY <1>1, <1>2 DEF Broken, Drifts, Idle
<1> QED
  BY <1>1, <1>3, <1>4, <1>5, <1>6, <1>7 DEF CaptureInv

LEMMA CaptureNext ==
  ASSUME TypeInv, PhaseInv, InjectInv, CaptureInv, [Next]_vars
  PROVE  CaptureInv'
<1> SUFFICES ASSUME at' = "capturing" PROVE CaptureInv'
  BY DEF CaptureInv
<1>1. CASE Injected
  BY <1>1, CaptureStarts
<1>2. CASE ProbeStatus
  BY <1>2, CaptureProbed DEF ProbeStatus, runner
<1>3. CASE ProbeMetrics
  BY <1>3, CaptureMeasured DEF ProbeMetrics, runner
<1>4. CASE Background
  <2>1. at = "capturing"
    BY <1>4, BackgroundDrifts DEF runner
  <2> QED
    BY <1>4, <2>1, CaptureDrifts
<1>5. CASE UNCHANGED vars
  <2>1. Growing => Growing'
    BY <1>5 DEF vars, probing, Growing, Pending
  <2> QED
    BY <1>5, <2>1 DEF vars, runner, probing, history, CaptureInv, Broken, Near, FaultSettled, Shows,
                      Pending
<1> QED
  BY <1>1, <1>2, <1>3, <1>4, <1>5 DEF Next, Background, Start, Command, BeginInjection, Captured,
     FailCapture, OpenWorld, Act, StartVerification, ReadAlerts, Judge, Cleanup, Reverted, Crash

\* A capture in which two probes met the settled fault shows its signature.
LEMMA CaptureShows ==
  ASSUME TypeInv, PhaseInv, CaptureInv, at = "capturing", Len(snaps) = CaptureProbes, settled >= 2
  PROVE  Symptoms(fault, snaps)
<1> DEFINE n == Len(snaps)
<1>0. /\ fault \in FaultIds /\ n \in Nat \ {0, 1} /\ DOMAIN snaps = 1..n
      /\ settled \in Nat /\ n - 1 \in 1..n /\ n \in 1..n
  BY HarnessAssumption DEF TypeInv, PhaseInv, Faulty
<1>1. half = NoAnswer /\ Pending = 0
  BY DEF PhaseInv, Wanted, Pending, TypeInv
<1>2. ASSUME NEW i \in {n - 1, n}
      PROVE  /\ Shows(fault, snaps[i].healthz, snaps[i].work)
             /\ fault = "config_rollout_worker_wedge" => snaps[i].metrics # NoAnswer
  <2>1. i \in 1..n /\ i + settled > n + Pending
    BY <1>0, <1>1
  <2> QED
    BY <2>1 DEF CaptureInv
<1>3. Shows(fault, snaps[n].healthz, snaps[n].work)
  BY <1>2
<1>4. CASE fault \in PoolFaults \union {"expired_credential"}
  BY <1>0, <1>3, <1>4, SymptomsAre DEF Shows, ComponentDown
<1>5. fault \in ConfigFaults => WorkAnswered(snaps, "feature_mode")
  BY <1>0, <1>3 DEF Shows, WorkAnswered
<1>6. CASE fault = "bad_config_rollout"
  BY <1>5, <1>6, SymptomsAre DEF ConfigFaults
<1>7. CASE fault = "downstream_timeout"
  BY <1>0, <1>3, <1>7, SymptomsAre DEF Shows, WorkAnswered
<1>8. CASE fault \in {"queue_consumer_stall", "worker_scaled_to_zero"}
  <2>1. Growing
    BY <1>8 DEF CaptureInv
  <2>2. /\ WithMetrics(snaps) = 1..n /\ DepthDelta(snaps) > 0 /\ DoneDelta(snaps) = 0
    BY <1>0, <2>1, GrowingShows
  <2>3. Cardinality(WithMetrics(snaps)) >= 2
    BY <1>0, <2>2, AtLeastTwo
  <2> QED
    BY <1>8, <2>2, <2>3, SymptomsAre DEF BacklogGrows
<1>9. CASE fault = "config_rollout_worker_wedge"
  <2> DEFINE S == WithMetrics(snaps)
  <2>1. S \in SUBSET (1..n) /\ n \in S /\ n - 1 \in S
    BY <1>0, <1>2, <1>9 DEF WithMetrics
  <2>2. \A i \in S : snaps[i].metrics # NoAnswer
    BY DEF WithMetrics
  <2> HIDE DEF S
  <2>3. Cardinality(S) >= 2
    BY <1>0, <2>1, AtLeastTwo
  <2>4. Min(S) \in S
    <3>1. S \in SUBSET Nat /\ S # {}
      BY <1>0, <2>1
    <3> QED
      BY <3>1, SmallestOf
  <2>5. Max(S) = n
    BY <1>0, <2>1, LargestOf
  <2>6. \A i \in S : /\ snaps[i].metrics.depth >= 1 /\ snaps[i].metrics.done = 0
                     /\ snaps[i].metrics.depth \in Nat
    BY <1>9, <2>1, <2>2, SnapType DEF CaptureInv
  <2>7. /\ LastMetrics(snaps).depth > 0 /\ LastMetrics(snaps).done = 0
        /\ FirstMetrics(snaps).done = 0
    BY <2>1, <2>4, <2>5, <2>6 DEF LastMetrics, FirstMetrics, S
  <2>8. BacklogStuck(snaps)
    BY <2>3, <2>7 DEF BacklogStuck, DoneDelta, S
  <2> QED
    BY <1>5, <1>9, <2>8, SymptomsAre DEF ConfigFaults
<1> QED
  BY <1>0, <1>4, <1>6, <1>7, <1>8, <1>9 DEF FaultIds, PoolFaults

LEMMA VisibleNext ==
  ASSUME TypeInv, PhaseInv, CaptureInv, FaultIsVisible, [Next]_vars
  PROVE  FaultIsVisible'
<1> SUFFICES ASSUME at' = "captured", settled' >= 2 PROVE Symptoms(fault', snaps')
  BY DEF FaultIsVisible
<1>1. CASE Captured
  <2>1. /\ at = "capturing" /\ Len(snaps) = CaptureProbes
        /\ fault' = fault /\ snaps' = snaps /\ settled' = settled
    BY <1>1 DEF Captured, probing, history
  <2>2. Symptoms(fault, snaps)
    BY <2>1, CaptureShows
  <2> QED
    BY <2>1, <2>2
<1>2. CASE Background \/ UNCHANGED vars
  <2>1. UNCHANGED <<at, fault, snaps, settled>>
    BY <1>2, BackgroundDrifts DEF runner, probing, history, vars
  <2> QED
    BY <2>1 DEF FaultIsVisible
<1>3. CASE ProbeStatus \/ ProbeMetrics
  BY <1>3 DEF ProbeStatus, ProbeMetrics, PhaseInv, Wanted, runner, TypeInv
<1> QED
  BY <1>1, <1>2, <1>3 DEF Next, Background, Start, Command, BeginInjection, Injected,
     FailCapture, OpenWorld, Act, StartVerification, ReadAlerts, Judge, Cleanup, Reverted, Crash

-----------------------------------------------------------------------------
(* The mock agrees with the stack. *)

LEMMA SamePair == \A a, b, c, d : <<a, b>> = <<c, d>> <=> a = c /\ b = d
OBVIOUS

\* The fixing steps of each fault.
LEMMA RequiredAre ==
  ASSUME NEW f \in FaultIds
  PROVE  LET R == UNION REQUIRED_FIX_STEPS(f)
         IN  /\ <<"restart_service", "db">> \in R <=> f \in PoolFaults
             /\ <<"restart_service", "downstream">> \in R <=> f = "downstream_timeout"
             /\ <<"restart_service", "worker">> \in R <=>
                  f \in {"queue_consumer_stall", "config_rollout_worker_wedge"}
             /\ RollbackApp \in R <=> f \in ConfigFaults
             /\ <<"scale_service", "worker">> \in R <=> f = "worker_scaled_to_zero"
<1> DEFINE R == UNION REQUIRED_FIX_STEPS(f)
<1>1. /\ f \in PoolFaults => R = {<<"restart_service", "db">>}
      /\ f = "bad_config_rollout" => R = {RollbackApp}
      /\ f = "downstream_timeout" => R = {<<"restart_service", "downstream">>}
      /\ f = "queue_consumer_stall" => R = {<<"restart_service", "worker">>}
      /\ f = "expired_credential" => R = {}
      /\ f = "config_rollout_worker_wedge" => R = {RollbackApp, <<"restart_service", "worker">>}
      /\ f = "worker_scaled_to_zero" => R = {<<"scale_service", "worker">>}
  BY DEF REQUIRED_FIX_STEPS, PoolFaults
<1>2. /\ RollbackApp \notin {<<"restart_service", "db">>, <<"restart_service", "downstream">>,
                             <<"restart_service", "worker">>, <<"scale_service", "worker">>}
      /\ <<"restart_service", "db">> \notin {<<"restart_service", "downstream">>,
                             <<"restart_service", "worker">>, <<"scale_service", "worker">>}
      /\ <<"restart_service", "downstream">> \notin {<<"restart_service", "worker">>,
                             <<"scale_service", "worker">>}
      /\ <<"restart_service", "worker">> # <<"scale_service", "worker">>
  BY SamePair DEF RollbackApp
<1>3. f \in PoolFaults \union {"bad_config_rollout", "downstream_timeout", "queue_consumer_stall",
        "expired_credential", "config_rollout_worker_wedge", "worker_scaled_to_zero"}
  BY DEF FaultIds, PoolFaults
<1> HIDE DEF R
<1>4. /\ <<"restart_service", "db">> \in R <=> f \in PoolFaults
      /\ <<"restart_service", "downstream">> \in R <=> f = "downstream_timeout"
      /\ <<"restart_service", "worker">> \in R <=>
           f \in {"queue_consumer_stall", "config_rollout_worker_wedge"}
      /\ RollbackApp \in R <=> f \in ConfigFaults
      /\ <<"scale_service", "worker">> \in R <=> f = "worker_scaled_to_zero"
  BY <1>1, <1>2, <1>3 DEF PoolFaults, ConfigFaults
<1> QED
  BY <1>4 DEF R

\* A fault is fixed when all its steps have been seen.
LEMMA FixedIs ==
  ASSUME NEW m \in Mock
  PROVE  fixed(m) <=>
           \/ m.fault \in PoolFaults /\ Restored(m, "db")
           \/ m.fault = "bad_config_rollout" /\ RolledBack(m)
           \/ m.fault = "downstream_timeout" /\ Restored(m, "downstream")
           \/ m.fault = "queue_consumer_stall" /\ Restored(m, "worker")
           \/ m.fault = "config_rollout_worker_wedge" /\ RolledBack(m) /\ Restored(m, "worker")
           \/ m.fault = "worker_scaled_to_zero" /\ ScaledUp(m)
<1> DEFINE Alternatives == REQUIRED_FIX_STEPS(m.fault)
<1>1. m.fault \in PoolFaults \union {"bad_config_rollout", "downstream_timeout",
        "queue_consumer_stall", "expired_credential", "config_rollout_worker_wedge",
        "worker_scaled_to_zero"}
  BY DEF Mock, FaultIds, PoolFaults
<1>2. /\ m.fault \in PoolFaults => Alternatives = {{<<"restart_service", "db">>}}
      /\ m.fault = "bad_config_rollout" => Alternatives = {{RollbackApp}}
      /\ m.fault = "downstream_timeout" => Alternatives = {{<<"restart_service", "downstream">>}}
      /\ m.fault = "queue_consumer_stall" => Alternatives = {{<<"restart_service", "worker">>}}
      /\ m.fault = "expired_credential" => Alternatives = {}
      /\ m.fault = "config_rollout_worker_wedge" =>
           Alternatives = {{RollbackApp, <<"restart_service", "worker">>}}
      /\ m.fault = "worker_scaled_to_zero" => Alternatives = {{<<"scale_service", "worker">>}}
  BY DEF REQUIRED_FIX_STEPS, PoolFaults
<1>3. fixed(m) <=> \E alt \in Alternatives : alt \subseteq m.satisfied
  BY DEF fixed, steps_fix
<1> HIDE DEF Alternatives
<1>4. \A x : (\E alt \in {{x}} : alt \subseteq m.satisfied) <=> x \in m.satisfied
  OBVIOUS
<1>5. \A x, y : (\E alt \in {{x, y}} : alt \subseteq m.satisfied) <=>
                x \in m.satisfied /\ y \in m.satisfied
  OBVIOUS
<1>6. ASSUME NEW x, Alternatives = {{x}} PROVE fixed(m) <=> x \in m.satisfied
  BY <1>3, <1>4, <1>6
<1>7. ASSUME NEW x, NEW y, Alternatives = {{x, y}}
      PROVE  fixed(m) <=> x \in m.satisfied /\ y \in m.satisfied
  BY <1>3, <1>5, <1>7
<1>8. m.fault \in PoolFaults => (fixed(m) <=> Restored(m, "db"))
  BY <1>2, <1>6 DEF Restored
<1>9. m.fault = "bad_config_rollout" => (fixed(m) <=> RolledBack(m))
  BY <1>2, <1>6 DEF RolledBack
<1>10. m.fault = "downstream_timeout" => (fixed(m) <=> Restored(m, "downstream"))
  BY <1>2, <1>6 DEF Restored
<1>11. m.fault = "queue_consumer_stall" => (fixed(m) <=> Restored(m, "worker"))
  BY <1>2, <1>6 DEF Restored
<1>12. m.fault = "expired_credential" => ~fixed(m)
  BY <1>2, <1>3
<1>13. m.fault = "config_rollout_worker_wedge" =>
         (fixed(m) <=> RolledBack(m) /\ Restored(m, "worker"))
  BY <1>2, <1>7 DEF RolledBack, Restored
<1>14. m.fault = "worker_scaled_to_zero" => (fixed(m) <=> ScaledUp(m))
  BY <1>2, <1>6 DEF ScaledUp
<1> QED
  BY <1>1, <1>8, <1>9, <1>10, <1>11, <1>12, <1>13, <1>14 DEF PoolFaults

\* What the capture of each fault shows.
LEMMA SyntheticIs ==
  ASSUME NEW i
  PROVE  /\ \A f \in PoolFaults \union {"expired_credential"} :
              SyntheticSnap(f, i).work = "db_error"
         /\ \A f \in ConfigFaults : SyntheticSnap(f, i).work = "feature_mode"
         /\ SyntheticSnap("downstream_timeout", i).work = "downstream_timeout"
         /\ SyntheticSnap("queue_consumer_stall", i).metrics = [depth |-> 2 + 3 * i, done |-> 37]
         /\ SyntheticSnap("worker_scaled_to_zero", i).metrics = [depth |-> 3 + 4 * i, done |-> 52]
<1>1. \A f \in PoolFaults \union {"expired_credential"} :
        SyntheticSnap(f, i) = Snapshot({"db"}, "db_error", NoAnswer)
  <2>1. /\ SyntheticSnap("db_pool_exhaustion", i) = Snapshot({"db"}, "db_error", NoAnswer)
        /\ SyntheticSnap("db_outage_ambiguous", i) = Snapshot({"db"}, "db_error", NoAnswer)
        /\ SyntheticSnap("expired_credential", i) = Snapshot({"db"}, "db_error", NoAnswer)
    BY DEF SyntheticSnap, PoolFaults
  <2> QED
    BY <2>1 DEF PoolFaults
<1>2. /\ SyntheticSnap("bad_config_rollout", i) = Snapshot({}, "feature_mode", NoAnswer)
      /\ SyntheticSnap("config_rollout_worker_wedge", i)
           = Snapshot({}, "feature_mode", [depth |-> 12, done |-> 37])
      /\ SyntheticSnap("downstream_timeout", i) = Snapshot({}, "downstream_timeout", NoAnswer)
      /\ SyntheticSnap("queue_consumer_stall", i)
           = Snapshot({}, "done", [depth |-> 2 + 3 * i, done |-> 37])
      /\ SyntheticSnap("worker_scaled_to_zero", i)
           = Snapshot({}, "done", [depth |-> 3 + 4 * i, done |-> 52])
  BY DEF SyntheticSnap, PoolFaults
<1>3. \A h, w, x : Snapshot(h, w, x).work = w /\ Snapshot(h, w, x).metrics = x
  BY DEF Snapshot
<1> QED
  BY <1>1, <1>2, <1>3 DEF ConfigFaults

\* The verifier passes the mock when it is fixed: till then a probe fails, or
\* its backlog grows or stands still.
LEMMA MockVerdictIs ==
  ASSUME NEW m \in Mock
  PROVE  MockVerdict(m) <=> fixed(m)
<1> DEFINE n == VerifySamples
           series == [i \in 1..n |-> MockProbe(m, i)]
<1>1. n \in Nat \ {0, 1} /\ 1 \in 1..n /\ n \in 1..n
  BY HarnessAssumption
<1>2. Min(1..n) = 1 /\ Max(1..n) = n
  BY <1>1, EndsOfInterval
<1>3. \A h, w, x : Snapshot(h, w, x).healthz = h /\ Snapshot(h, w, x).work = w
                   /\ Snapshot(h, w, x).metrics = x
  BY DEF Snapshot
<1>4. MockVerdict(m) <=> NoAlerts(series) /\ BacklogDraining(series)
  BY DEF MockVerdict
<1>5. DOMAIN series = 1..n /\ \A i \in 1..n : series[i] = MockProbe(m, i)
  OBVIOUS
<1> HIDE DEF series, n
<1>6. ASSUME NEW D \in [1..n -> Nat], NEW k \in Nat,
             \A i \in 1..n : series[i].metrics = [depth |-> D[i], done |-> k]
      PROVE  /\ WithMetrics(series) # {} /\ LastMetrics(series).depth = D[n]
             /\ DepthDelta(series) = D[n] - D[1] /\ DoneDelta(series) = 0
  <2>1. \A i \in 1..n : series[i].metrics # NoAnswer
    <3>1. ASSUME NEW i \in 1..n PROVE series[i].metrics \in [depth : Nat, done : Nat]
      <4>1. D[i] \in Nat
        OBVIOUS
      <4>2. [depth |-> D[i], done |-> k] \in [depth : Nat, done : Nat]
        BY <4>1
      <4> QED
        BY <1>6, <4>2
    <3> QED
      BY <3>1, NoAnswerAssumption
  <2>2. WithMetrics(series) = 1..n
    BY <1>5, <2>1 DEF WithMetrics
  <2>3. /\ FirstMetrics(series) = [depth |-> D[1], done |-> k]
        /\ LastMetrics(series) = [depth |-> D[n], done |-> k]
    BY <1>1, <1>2, <1>6, <2>2 DEF FirstMetrics, LastMetrics
  <2>4. D[1] \in Nat /\ D[n] \in Nat /\ 1..n # {}
    BY <1>1
  <2>5. /\ FirstMetrics(series).depth = D[1] /\ FirstMetrics(series).done = k
        /\ LastMetrics(series).depth = D[n] /\ LastMetrics(series).done = k
    BY <2>3
  <2> QED
    BY <2>2, <2>4, <2>5 DEF DepthDelta, DoneDelta
<1>7. CASE fixed(m)
  <2>1. \A i \in 1..n : series[i] = Snapshot({}, "done", [depth |-> 0, done |-> 0])
    BY <1>5, <1>7 DEF MockProbe
  <2>2. NoAlerts(series)
    BY <1>3, <1>5, <2>1 DEF NoAlerts, Healthy
  <2>3. LastMetrics(series).depth = 0 /\ DepthDelta(series) = 0
    <3> DEFINE D == [i \in 1..n |-> 0]
               k == 0
    <3>1. \A i \in 1..n : series[i].metrics = [depth |-> D[i], done |-> k]
      BY <1>3, <2>1
    <3>2. D \in [1..n -> Nat] /\ D[1] = 0 /\ D[n] = 0 /\ k \in Nat
      BY <1>1
    <3> HIDE DEF D, k
    <3>3. LastMetrics(series).depth = D[n] /\ DepthDelta(series) = D[n] - D[1]
      BY <1>6, <3>1, <3>2
    <3> QED
      BY <3>2, <3>3
  <2> QED
    BY <1>4, <1>7, <2>2, <2>3 DEF BacklogDraining
<1>8. CASE ~fixed(m) /\ m.fault \in PoolFaults \union {"expired_credential", "downstream_timeout",
             "bad_config_rollout"}
  <2>1. series[1].work # "done"
    <3>1. series[1] = SyntheticSnap(m.fault, 1)
      BY <1>1, <1>5, <1>8 DEF MockProbe, PoolFaults
    <3>2. m.fault \in PoolFaults \union {"expired_credential"} \/ m.fault \in ConfigFaults
          \/ m.fault = "downstream_timeout"
      BY <1>8 DEF ConfigFaults
    <3>3. SyntheticSnap(m.fault, 1).work \in {"db_error", "feature_mode", "downstream_timeout"}
      BY <3>2, SyntheticIs
    <3> QED
      BY <3>1, <3>3
  <2> QED
    BY <1>1, <1>4, <1>5, <1>8, <2>1 DEF NoAlerts, Healthy
<1>9. CASE ~fixed(m) /\ m.fault = "config_rollout_worker_wedge"
  <2>1. CASE RollbackApp \notin m.satisfied
    <3>1. series[1].work = "feature_mode"
      <4>1. series[1] = SyntheticSnap(m.fault, 1) /\ m.fault \in ConfigFaults
        BY <1>1, <1>5, <1>9, <2>1 DEF MockProbe, ConfigFaults
      <4>2. \A f \in ConfigFaults : SyntheticSnap(f, 1).work = "feature_mode"
        BY SyntheticIs
      <4> QED
        BY <4>1, <4>2
    <3> QED
      BY <1>1, <1>4, <1>5, <1>9, <3>1 DEF NoAlerts, Healthy
  <2>2. CASE RollbackApp \in m.satisfied
    <3> DEFINE D == [i \in 1..n |-> 12]
               k == 37
    <3>1. \A i \in 1..n : series[i].metrics = [depth |-> D[i], done |-> k]
      BY <1>3, <1>5, <1>9, <2>2 DEF MockProbe
    <3>2. D \in [1..n -> Nat] /\ D[1] = 12 /\ D[n] = 12 /\ k \in Nat
      BY <1>1
    <3> HIDE DEF D, k
    <3>3. /\ WithMetrics(series) # {} /\ LastMetrics(series).depth = D[n]
          /\ DepthDelta(series) = D[n] - D[1] /\ DoneDelta(series) = 0
      BY <1>6, <3>1, <3>2
    <3>4. LastMetrics(series).depth = 12 /\ DepthDelta(series) = 0
      BY <3>2, <3>3
    <3> QED
      BY <1>4, <1>9, <3>3, <3>4 DEF BacklogDraining
  <2> QED
    BY <2>1, <2>2
<1>10. CASE ~fixed(m) /\ m.fault \in {"queue_consumer_stall", "worker_scaled_to_zero"}
  <2> DEFINE D == [i \in 1..n |-> IF m.fault = "queue_consumer_stall" THEN 2 + 3 * i ELSE 3 + 4 * i]
             k == IF m.fault = "queue_consumer_stall" THEN 37 ELSE 52
  <2>1. \A i \in 1..n : series[i].metrics = [depth |-> D[i], done |-> k]
    <3>1. \A i \in 1..n : series[i] = SyntheticSnap(m.fault, i)
      BY <1>5, <1>10 DEF MockProbe
    <3> QED
      BY <1>10, <3>1, SyntheticIs
  <2>2. k \in Nat /\ D \in [1..n -> Nat]
    BY <1>1
  <2>3. D[n] - D[1] > 0
    BY <1>1
  <2> HIDE DEF D, k
  <2>4. /\ WithMetrics(series) # {}
        /\ DepthDelta(series) = D[n] - D[1] /\ DoneDelta(series) = 0
    BY <1>6, <2>1, <2>2
  <2> QED
    BY <1>4, <1>10, <2>3, <2>4 DEF BacklogDraining
<1>11. m.fault \in FaultIds
  BY DEF Mock
<1> QED
  BY <1>7, <1>8, <1>9, <1>10, <1>11 DEF FaultIds, PoolFaults

\* What a call adds to what the mock has seen.
LEMMA MarkIs ==
  ASSUME NEW m \in Mock, NEW action, NEW target, NEW arg
  PROVE  /\ Mark(m, action, target, arg).fault = m.fault
         /\ Mark(m, action, target, arg).config = m.config
         /\ Mark(m, action, target, arg).satisfied
              = m.satisfied \union FixingSteps(m.fault, action, target, arg)
BY DEF Mark, Mock

\* A restart counts as a fix of what it mends.
LEMMA RestartMarks ==
  ASSUME NEW m \in Mock, NEW s \in Services, NEW arg, NEW n,
         n = Mark(m, "restart_service", s, arg)
  PROVE  /\ n.fault = m.fault /\ n.config = m.config
         /\ RolledBack(n) <=> RolledBack(m)
         /\ ScaledUp(n) <=> ScaledUp(m)
         /\ Restored(n, "db") <=> Restored(m, "db") \/ (s = "db" /\ m.fault \in PoolFaults)
         /\ Restored(n, "downstream") <=>
              Restored(m, "downstream") \/ (s = "downstream" /\ m.fault = "downstream_timeout")
         /\ Restored(n, "worker") <=>
              \/ Restored(m, "worker")
              \/ s = "worker" /\ m.fault \in {"queue_consumer_stall", "config_rollout_worker_wedge"}
<1> DEFINE R == UNION REQUIRED_FIX_STEPS(m.fault)
           key == <<"restart_service", s>>
<1>1. FixingSteps(m.fault, "restart_service", s, arg) = {key} \intersect R
  BY DEF FixingSteps
<1>2. /\ key # RollbackApp /\ key # <<"scale_service", "worker">>
      /\ \A t : <<"restart_service", t>> = key <=> t = s
  BY SamePair DEF RollbackApp
<1>3. m.fault \in FaultIds
  BY DEF Mock
<1>4. /\ <<"restart_service", "db">> \in R <=> m.fault \in PoolFaults
      /\ <<"restart_service", "downstream">> \in R <=> m.fault = "downstream_timeout"
      /\ <<"restart_service", "worker">> \in R <=>
           m.fault \in {"queue_consumer_stall", "config_rollout_worker_wedge"}
  BY <1>3, RequiredAre
<1> HIDE DEF R, key
<1>5. n.fault = m.fault /\ n.config = m.config /\ n.satisfied = m.satisfied \union ({key} \intersect R)
  BY <1>1, MarkIs
<1>6. \A t : Restored(n, t) <=> Restored(m, t) \/ (t = s /\ <<"restart_service", t>> \in R)
  BY <1>2, <1>5 DEF Restored
<1>7. (RolledBack(n) <=> RolledBack(m)) /\ (ScaledUp(n) <=> ScaledUp(m))
  BY <1>2, <1>5 DEF RolledBack, ScaledUp
<1> QED
  BY <1>4, <1>5, <1>6, <1>7

LEMMA ScaleMarks ==
  ASSUME NEW m \in Mock, NEW s \in Services, NEW n, n = Mark(m, "scale_service", s, 1)
  PROVE  /\ n.fault = m.fault /\ n.config = m.config
         /\ RolledBack(n) <=> RolledBack(m)
         /\ \A t : Restored(n, t) <=> Restored(m, t)
         /\ ScaledUp(n) <=> ScaledUp(m) \/ (s = "worker" /\ m.fault = "worker_scaled_to_zero")
<1> DEFINE R == UNION REQUIRED_FIX_STEPS(m.fault)
           key == <<"scale_service", s>>
<1>1. FixingSteps(m.fault, "scale_service", s, 1) = {key} \intersect R
  <2>1. {1} \ {0, NoArg} = {1}
    BY VocabularyAssumption
  <2>2. {key : k \in {1} \ {0, NoArg}} = {key}
    BY <2>1
  <2> QED
    BY <2>2 DEF FixingSteps
<1>2. /\ key # RollbackApp /\ \A t : key # <<"restart_service", t>>
      /\ key = <<"scale_service", "worker">> <=> s = "worker"
  BY SamePair DEF RollbackApp
<1>3. m.fault \in FaultIds
  BY DEF Mock
<1>4. <<"scale_service", "worker">> \in R <=> m.fault = "worker_scaled_to_zero"
  BY <1>3, RequiredAre
<1> HIDE DEF R, key
<1>5. n.fault = m.fault /\ n.config = m.config /\ n.satisfied = m.satisfied \union ({key} \intersect R)
  BY <1>1, MarkIs
<1>6. \A t : Restored(n, t) <=> Restored(m, t)
  BY <1>2, <1>5 DEF Restored
<1>7. RolledBack(n) <=> RolledBack(m)
  BY <1>2, <1>5 DEF RolledBack
<1>8. ScaledUp(n) <=> ScaledUp(m) \/ (s = "worker" /\ <<"scale_service", "worker">> \in R)
  BY <1>2, <1>5 DEF ScaledUp
<1> QED
  BY <1>4, <1>5, <1>6, <1>7, <1>8

\* Writing the canonical config is the rollback.
LEMMA WriteMarks ==
  ASSUME NEW m \in Mock, m.config # Canonical, NEW n, n = MockWrite(m, Canonical)
  PROVE  /\ n.fault = m.fault /\ n.config = Canonical
         /\ m.fault \in ConfigFaults => RolledBack(n)
         /\ ScaledUp(n) <=> ScaledUp(m)
         /\ \A t : Restored(n, t) <=> Restored(m, t)
<1> DEFINE R == UNION REQUIRED_FIX_STEPS(m.fault)
           new == [m EXCEPT !.config = Canonical]
<1>1. FixingSteps(m.fault, "apply_config", "app", Canonical) = {RollbackApp} \intersect R
  <2>1. "feature_mode" \in DOMAIN Canonical /\ Canonical["feature_mode"] = Known
    BY ServicesType DEF ConfigKeys
  <2>2. {s \in {RollbackApp} : "feature_mode" \in DOMAIN Canonical
                               /\ Canonical["feature_mode"] = Known} = {RollbackApp}
    BY <2>1
  <2> QED
    BY <2>2 DEF FixingSteps
<1>2. RollbackApp # <<"scale_service", "worker">> /\ \A t : RollbackApp # <<"restart_service", t>>
  BY SamePair DEF RollbackApp
<1>3. m.fault \in FaultIds
  BY DEF Mock
<1>4. RollbackApp \in R <=> m.fault \in ConfigFaults
  BY <1>3, RequiredAre
<1>5. new \in Mock /\ new.fault = m.fault /\ new.config = Canonical /\ new.satisfied = m.satisfied
  BY ServicesType DEF Mock
<1>6. n = Mark(new, "apply_config", "app", Canonical)
  BY DEF MockWrite
<1> HIDE DEF R, new
<1>7. /\ n.fault = m.fault /\ n.config = Canonical
      /\ n.satisfied = m.satisfied \union ({RollbackApp} \intersect R)
  BY <1>1, <1>5, <1>6, MarkIs
<1>8. (\A t : Restored(n, t) <=> Restored(m, t)) /\ (ScaledUp(n) <=> ScaledUp(m))
  BY <1>2, <1>7 DEF Restored, ScaledUp
<1>9. m.fault \in ConfigFaults => RolledBack(n)
  BY <1>4, <1>7 DEF RolledBack
<1> QED
  BY <1>7, <1>8, <1>9

LEMMA RenewedIs ==
  ASSUME NEW b \in Box, NEW S
  PROVE  /\ Renewed(b, S).file = b.file /\ Renewed(b, S).loaded = b.loaded
         /\ Renewed(b, S).up = b.up /\ Renewed(b, S).paused = b.paused \ S
         /\ "db" \notin S \ b.up => Renewed(b, S).rotated = b.rotated
         /\ Renewed(b, S).sessions = IF "db" \in S THEN "none" ELSE b.sessions
BY DEF Renewed, Box

\* What is left of a fault is its config, its paused container, its missing
\* worker, its credential or its sessions, and nothing else.
LEMMA AfflictedShape ==
  ASSUME NEW m, NEW b, Afflicted(m, b)
  PROVE  /\ b.up = Services \/ b.up = Services \ {"worker"}
         /\ b.up # Services => b.paused = {}
         /\ b.paused \subseteq {"downstream", "worker"}
         /\ b.file = m.config /\ b.loaded = m.config
         /\ m.config \in {Canonical, BadConfig}
         /\ m.config # Canonical => m.fault \in ConfigFaults
         /\ "app" \in b.up /\ "db" \in b.up
BY ServicesType DEF Afflicted

LEMMA HarmlessRestart ==
  ASSUME NEW b \in Boxes, NEW m \in Mock, Afflicted(m, b), NEW step \in Step,
         step.action = "restart_service", NEW r \in Call(b, step), r.ok
  PROVE  Afflicted(MockCall(m, step), r.stack)
<1> DEFINE s == step.target
           n == MockCall(m, step)
           S == {s} \intersect b.up
<1>1. PICK q \in Invoke(b, step, FALSE) :
        r = Result(q.ok, Renewed(q.stack, Touched(b, step, q)))
  BY DEF Call
<1>2. s \in Services /\ b \in Box /\ b.paused \subseteq b.up
  BY DEF Step, Boxes
<1>3. q.ok /\ r.stack = Renewed(q.stack, Touched(b, step, q))
  BY <1>1 DEF Result
<1>4. q.stack = Restarted(b, s)
  <2>1. q \in {Result(TRUE, Restarted(b, s)), Result(FALSE, b)}
    BY DEF Invoke, RestartService
  <2> QED
    BY <1>3, <2>1, ResultFields
<1>5. Touched(b, step, q) = S
  BY <1>3 DEF Touched
<1>6. /\ q.stack \in Box /\ q.stack.file = b.file /\ q.stack.loaded = b.loaded /\ q.stack.up = b.up
      /\ q.stack.paused = b.paused /\ q.stack.rotated = b.rotated /\ q.stack.sessions = b.sessions
  BY <1>2, <1>4, AfflictedShape DEF Restarted, Box
<1>7. n = Mark(m, "restart_service", s, step.arg)
  BY DEF MockCall
<1> HIDE DEF n
<1>8. /\ n.fault = m.fault /\ n.config = m.config
      /\ RolledBack(n) <=> RolledBack(m)
      /\ ScaledUp(n) <=> ScaledUp(m)
      /\ Restored(n, "db") <=> Restored(m, "db") \/ (s = "db" /\ m.fault \in PoolFaults)
      /\ Restored(n, "downstream") <=>
           Restored(m, "downstream") \/ (s = "downstream" /\ m.fault = "downstream_timeout")
      /\ Restored(n, "worker") <=>
           \/ Restored(m, "worker")
           \/ s = "worker" /\ m.fault \in {"queue_consumer_stall", "config_rollout_worker_wedge"}
  BY <1>2, <1>7, RestartMarks
<1>9. /\ r.stack.file = b.file /\ r.stack.loaded = b.loaded /\ r.stack.up = b.up
      /\ r.stack.paused = b.paused \ S /\ r.stack.rotated = b.rotated
      /\ r.stack.sessions = IF "db" \in S THEN "none" ELSE b.sessions
  BY <1>3, <1>5, <1>6, RenewedIs
<1>10. b.paused \ S = b.paused \ {s} /\ ("db" \in S <=> s = "db")
  BY <1>2, AfflictedShape
<1> HIDE DEF S, s
<1>11. Afflicted(n, r.stack)
  BY <1>8, <1>9, <1>10 DEF Afflicted
<1> QED
  BY <1>11 DEF n

LEMMA HarmlessScale ==
  ASSUME NEW b \in Boxes, NEW m \in Mock, Afflicted(m, b), NEW step \in Step,
         step.action = "scale_service", step.arg = 1, NEW r \in Call(b, step), r.ok
  PROVE  Afflicted(MockCall(m, step), r.stack)
<1> DEFINE s == step.target
           n == MockCall(m, step)
           after == Scaled(b, s, 1)
           S == (after.up \ b.up) \union (b.up \ after.up)
<1>1. PICK q \in Invoke(b, step, FALSE) :
        r = Result(q.ok, Renewed(q.stack, Touched(b, step, q)))
  BY DEF Call
<1>2. s \in Services /\ b \in Box /\ b.paused \subseteq b.up
  BY DEF Step, Boxes
<1>3. q.ok /\ r.stack = Renewed(q.stack, Touched(b, step, q))
  BY <1>1 DEF Result
<1>4. q.stack = after
  <2>1. q \in ScaleService(b, s, 1, FALSE)
    BY DEF Invoke
  <2>2. 1 \in 0..3 /\ 1 \notin 2..3 /\ 1 \in 0..1
    OBVIOUS
  <2>3. q \in {Result(TRUE, after), Result(FALSE, b)}
    BY <2>1, <2>2 DEF ScaleService
  <2> HIDE DEF after
  <2> QED
    BY <1>3, <2>3, ResultFields
<1>5. Touched(b, step, q) = S
  BY <1>4 DEF Touched
<1>6. /\ after.file = b.file /\ after.loaded = b.loaded
      /\ after.up = b.up \union {s} \union DependsOn[s]
      /\ after.paused = b.paused /\ after.rotated = b.rotated /\ after.sessions = b.sessions
  BY <1>2, AfflictedShape DEF Scaled, Box
<1>7. after \in Box
  BY <1>2, ScaledType
<1>8. n = Mark(m, "scale_service", s, 1)
  BY DEF MockCall
<1> HIDE DEF n, after
<1>9. /\ n.fault = m.fault /\ n.config = m.config
      /\ RolledBack(n) <=> RolledBack(m)
      /\ \A t : Restored(n, t) <=> Restored(m, t)
      /\ ScaledUp(n) <=> ScaledUp(m) \/ (s = "worker" /\ m.fault = "worker_scaled_to_zero")
  BY <1>2, <1>8, ScaleMarks
<1>10. after.up = IF s = "worker" THEN Services ELSE b.up
  <2>1. DependsOn[s] \subseteq Services /\ "worker" \notin DependsOn[s] /\ "worker" \in Services
    BY <1>2, ServicesType, SandboxAssumption
  <2>2. b.up = Services \/ b.up = Services \ {"worker"}
    BY AfflictedShape
  <2> QED
    BY <1>2, <1>6, <2>1, <2>2
<1>11. "db" \notin S /\ b.paused \ S = b.paused
  <2>1. "db" \in b.up /\ (b.up = Services \/ b.up = Services \ {"worker"})
        /\ (b.up # Services => b.paused = {})
    BY AfflictedShape
  <2>2. CASE b.up = Services
    <3>1. S = {}
      BY <1>10, <2>2
    <3> QED
      BY <3>1
  <2>3. CASE b.up = Services \ {"worker"} /\ b.paused = {}
    BY <1>10, <2>3
  <2> QED
    BY <2>1, <2>2, <2>3
<1>12. /\ r.stack.file = b.file /\ r.stack.loaded = b.loaded /\ r.stack.up = after.up
       /\ r.stack.paused = b.paused /\ r.stack.rotated = b.rotated
       /\ r.stack.sessions = b.sessions
  <2> HIDE DEF S
  <2>1. r.stack = Renewed(after, S)
    BY <1>3, <1>4, <1>5
  <2>2. /\ Renewed(after, S).file = after.file /\ Renewed(after, S).loaded = after.loaded
        /\ Renewed(after, S).up = after.up /\ Renewed(after, S).paused = after.paused \ S
        /\ Renewed(after, S).rotated = after.rotated
        /\ Renewed(after, S).sessions = after.sessions
    BY <1>7, <1>11, RenewedIs
  <2> QED
    BY <1>6, <1>11, <2>1, <2>2
<1> HIDE DEF S, s
<1>13. Afflicted(n, r.stack)
  <2>1. r.stack.up = IF n.fault = "worker_scaled_to_zero" /\ ~ScaledUp(n) THEN Services \ {"worker"}
                     ELSE Services
    BY <1>9, <1>10, <1>12 DEF Afflicted
  <2> QED
    BY <1>9, <1>12, <2>1 DEF Afflicted
<1> QED
  BY <1>13 DEF n

\* Known-good values make the default config, or change nothing, of the configs
\* that are left of a fault.
LEMMA HarmlessPatch ==
  ASSUME NEW b \in Boxes, NEW m \in Mock, Afflicted(m, b), NEW step \in Step,
         step.action = "apply_config", \A key \in DOMAIN step.arg : step.arg[key] = Known
  PROVE  Patched(b.file, step.arg) \in {b.file, Canonical}
<1> DEFINE patched == Patched(b.file, step.arg)
<1>1. b.file \in Configs /\ b.file \in {Canonical, BadConfig}
  BY AfflictedShape DEF Boxes, Box
<1>2. step.arg \in Patches
  BY DEF Step
<1>3. /\ patched \in Configs
      /\ \A key \in ConfigKeys :
           patched[key] = IF key \in DOMAIN step.arg THEN step.arg[key] ELSE b.file[key]
  BY <1>1, <1>2, PatchedIs
<1> HIDE DEF patched
<1>4. ASSUME NEW key \in ConfigKeys, key # "feature_mode" PROVE b.file[key] = Known
  BY <1>1, <1>4, ServicesType, BadConfigIs
<1>5. CASE patched["feature_mode"] = Known
  <2>1. \A key \in ConfigKeys : patched[key] = Known
    BY <1>3, <1>4, <1>5
  <2> QED
    BY <1>3, <2>1, CanonicalIs DEF patched
<1>6. CASE patched["feature_mode"] # Known
  <2>1. "feature_mode" \in ConfigKeys
    BY DEF ConfigKeys
  <2>2. \A key \in ConfigKeys : patched[key] = b.file[key]
    BY <1>3, <1>4, <1>6, <2>1
  <2>3. patched = b.file
    BY <1>1, <1>3, <2>2 DEF Configs
  <2> QED
    BY <2>3 DEF patched
<1> QED
  BY <1>5, <1>6

LEMMA HarmlessWrite ==
  ASSUME NEW b \in Boxes, NEW m \in Mock, Afflicted(m, b), NEW step \in Step,
         step.action \in {"apply_config", "rollback"},
         step.action = "apply_config" => \A key \in DOMAIN step.arg : step.arg[key] = Known,
         NEW r \in Call(b, step), r.ok
  PROVE  Afflicted(MockCall(m, step), r.stack)
<1> DEFINE n == MockCall(m, step)
<1>1. PICK q \in Invoke(b, step, FALSE) :
        r = Result(q.ok, Renewed(q.stack, Touched(b, step, q)))
  BY DEF Call
<1>2. b \in Box /\ b.file \in Configs
  BY DEF Boxes, Box
<1>3. q.ok /\ r.stack = Renewed(q.stack, Touched(b, step, q))
  BY <1>1 DEF Result
<1>4. \/ q \in WriteConfig(b, b.file, FALSE) /\ n = m
      \/ q \in WriteConfig(b, Canonical, FALSE) /\ n = MockWrite(m, Canonical)
  <2>1. CASE step.action = "rollback"
    BY <2>1 DEF Invoke, Rollback, MockCall
  <2>2. CASE step.action = "apply_config"
    <3> DEFINE patched == Patched(b.file, step.arg)
    <3>1. q \in ApplyConfig(b, step.arg, FALSE)
      BY <2>2 DEF Invoke
    <3>2. DOMAIN step.arg \subseteq ConfigKeys
      BY <1>3, <3>1, ResultFields DEF ApplyConfig
    <3>3. q \in WriteConfig(b, patched, FALSE)
      BY <3>1, <3>2 DEF ApplyConfig
    <3>4. m.config = b.file
      BY AfflictedShape
    <3>5. n = MockWrite(m, patched)
      BY <2>2, <3>2, <3>4 DEF MockCall
    <3>6. patched \in {b.file, Canonical}
      BY <1>2, <2>2, HarmlessPatch
    <3>7. MockWrite(m, b.file) = m
      BY <3>4 DEF MockWrite
    <3> HIDE DEF patched, n
    <3> QED
      BY <3>3, <3>5, <3>6, <3>7
  <2> QED
    BY <2>1, <2>2
<1>5. CASE q = Result(TRUE, b) /\ n = m
  <2>1. q.stack = b
    BY <1>5, ResultFields
  <2>2. Touched(b, step, q) = {}
    BY <2>1 DEF Touched
  <2> DEFINE S == {}
  <2>3. r.stack = Renewed(b, S) /\ b.paused \ S = b.paused /\ "db" \notin S
    BY <1>3, <2>1, <2>2
  <2> HIDE DEF S
  <2>4. /\ r.stack.file = b.file /\ r.stack.loaded = b.loaded /\ r.stack.up = b.up
        /\ r.stack.paused = b.paused /\ r.stack.rotated = b.rotated
        /\ r.stack.sessions = b.sessions
    <3>1. /\ Renewed(b, S).file = b.file /\ Renewed(b, S).loaded = b.loaded
          /\ Renewed(b, S).up = b.up /\ Renewed(b, S).paused = b.paused \ S
          /\ Renewed(b, S).rotated = b.rotated /\ Renewed(b, S).sessions = b.sessions
      BY <1>2, <2>3, RenewedIs
    <3> QED
      BY <2>3, <3>1
  <2>5. Afflicted(m, r.stack)
    BY <2>4, AfflictedSame
  <2> QED
    BY <1>5, <2>5
<1>6. CASE q \in WriteConfig(b, Canonical, FALSE) /\ n = MockWrite(m, Canonical) /\ b.file # Canonical
  <2> DEFINE written == [b EXCEPT !.file = Canonical]
  <2>1. /\ written \in Box /\ written.file = Canonical /\ written.up = b.up
        /\ written.paused = b.paused /\ written.rotated = b.rotated
        /\ written.sessions = b.sessions
    BY <1>2, ServicesType DEF Box
  <2>2. q.stack = Restarted(written, "app")
    <3>1. q \in {Result(TRUE, Restarted(written, "app")), Result(FALSE, written)}
      BY <1>6 DEF WriteConfig
    <3> HIDE DEF written
    <3> QED
      BY <1>3, <3>1, ResultFields
  <2> HIDE DEF written
  <2>3. /\ q.stack \in Box /\ q.stack.file = Canonical /\ q.stack.loaded = Canonical
        /\ q.stack.up = b.up /\ q.stack.paused = b.paused /\ q.stack.rotated = b.rotated
        /\ q.stack.sessions = b.sessions
    BY <2>1, <2>2, AfflictedShape DEF Restarted, Box
  <2>4. Touched(b, step, q) = {"app"}
    BY <1>3, <1>6, <2>3, AfflictedShape DEF Touched
  <2>5. /\ r.stack.file = Canonical /\ r.stack.loaded = Canonical /\ r.stack.up = b.up
        /\ r.stack.paused = b.paused /\ r.stack.rotated = b.rotated
        /\ r.stack.sessions = b.sessions
    <3> DEFINE S == {"app"}
    <3>1. b.paused \ S = b.paused /\ "db" \notin S
      BY AfflictedShape
    <3>2. r.stack = Renewed(q.stack, S)
      BY <1>3, <2>4
    <3> HIDE DEF S
    <3>3. /\ Renewed(q.stack, S).file = q.stack.file /\ Renewed(q.stack, S).loaded = q.stack.loaded
          /\ Renewed(q.stack, S).up = q.stack.up
          /\ Renewed(q.stack, S).paused = q.stack.paused \ S
          /\ Renewed(q.stack, S).rotated = q.stack.rotated
          /\ Renewed(q.stack, S).sessions = q.stack.sessions
      BY <2>3, <3>1, RenewedIs
    <3> QED
      BY <2>3, <3>1, <3>2, <3>3
  <2>6. m.config # Canonical /\ m.fault \in ConfigFaults
    BY <1>6, AfflictedShape
  <2>7. /\ n.fault = m.fault /\ n.config = Canonical /\ RolledBack(n)
        /\ ScaledUp(n) <=> ScaledUp(m)
        /\ \A t : Restored(n, t) <=> Restored(m, t)
    BY <1>6, <2>6, WriteMarks
  <2> HIDE DEF n
  <2>8. Afflicted(n, r.stack)
    BY <2>5, <2>7 DEF Afflicted
  <2> QED
    BY <2>8 DEF n
<1>7. b.file = m.config
  BY AfflictedShape
<1>8. q \in WriteConfig(b, b.file, FALSE) => q = Result(TRUE, b)
  BY DEF WriteConfig
<1>9. b.file = Canonical => MockWrite(m, Canonical) = m
  BY <1>7 DEF MockWrite
<1> HIDE DEF n
<1> QED
  BY <1>4, <1>5, <1>6, <1>8, <1>9

LEMMA HarmlessCall ==
  ASSUME NEW b \in Boxes, NEW m \in Mock, Afflicted(m, b), NEW step \in Step, Harmless(step),
         NEW r \in Call(b, step), r.ok
  PROVE  Afflicted(MockCall(m, step), r.stack)
<1>1. step.action \in {"restart_service", "rollback", "scale_service", "apply_config"}
  BY DEF Step
<1>2. /\ step.action = "scale_service" => step.arg = 1
      /\ step.action = "apply_config" => \A key \in DOMAIN step.arg : step.arg[key] = Known
  BY DEF Harmless
<1>3. CASE step.action = "restart_service"
  BY <1>3, HarmlessRestart
<1>4. CASE step.action = "scale_service"
  BY <1>2, <1>4, HarmlessScale
<1>5. CASE step.action \in {"apply_config", "rollback"}
  BY <1>2, <1>5, HarmlessWrite
<1> QED
  BY <1>1, <1>3, <1>4, <1>5

Agreeing == {"captured", "open", "alerts", "metrics", "resolved", "unresolved"}

\* The agent's call mends, or leaves, what is left of the fault on both sides.
LEMMA ActAgrees ==
  ASSUME TypeInv, PhaseInv, AgreeInv, NEW step \in AgentSteps, Act(step),
         intact', agent'.harmless
  PROVE  Afflicted(mock', box')
<1>1. PICK r \in Call(box, step) : box' = r.stack /\ intact' = (intact /\ r.ok)
  BY DEF Act
<1>2. intact /\ r.ok
  BY <1>1
<1>3. mock' = MockCall(mock, step) /\ at \in {"open", "resolved", "unresolved"}
  BY DEF Act
<1>4. agent.harmless /\ Harmless(step)
  BY DEF Act
<1>5. mock \in Mock /\ box \in Boxes /\ step \in Step
  BY <1>2, <1>3, HarnessAssumption DEF TypeInv, PhaseInv, Faulty
<1>6. Afflicted(mock, box)
  BY <1>2, <1>3, <1>4 DEF AgreeInv
<1>7. Afflicted(MockCall(mock, step), r.stack)
  BY <1>2, <1>4, <1>5, <1>6, HarmlessCall
<1> QED
  BY <1>1, <1>3, <1>7

LEMMA AgreeNext ==
  ASSUME TypeInv, PhaseInv, CaptureInv, AgreeInv, [Next]_vars
  PROVE  AgreeInv'
<1>0. box \in Boxes /\ box \in Box
  BY DEF TypeInv, Boxes
<1>1. ASSUME at' \in {"injecting", "capturing"} PROVE mock' = NewMock(fault')
  <2>1. ASSUME NEW f \in Scenarios, BeginInjection(f) PROVE mock' = NewMock(fault')
    BY <2>1 DEF BeginInjection
  <2>2. CASE Command \/ Injected \/ ProbeStatus \/ ProbeMetrics
    BY <1>1, <2>2 DEF Command, Injected, ProbeStatus, ProbeMetrics, runner, probing, history, AgreeInv
  <2>3. CASE Background \/ UNCHANGED vars
    <3>1. UNCHANGED <<at, fault, mock>>
      BY <2>3, BackgroundDrifts DEF runner, history, vars
    <3> QED
      BY <1>1, <3>1 DEF AgreeInv
  <2> QED
    BY <1>1, <2>1, <2>2, <2>3 DEF Next, Background, Start, Captured, FailCapture, OpenWorld, Act,
       StartVerification, ReadAlerts, Judge, Cleanup, Reverted, Crash
<1>2. ASSUME at' \in Agreeing, intact', agent'.harmless PROVE Afflicted(mock', box')
  <2> USE DEF Agreeing
  <2>1. CASE Captured
    <3>1. /\ at = "capturing" /\ mock' = mock /\ box' = box
      BY <2>1 DEF Captured, history
    <3>2. Afflicted(NewMock(fault), box) /\ mock = NewMock(fault)
      BY <3>1 DEF CaptureInv, Broken, AgreeInv
    <3> QED
      BY <3>1, <3>2
  <2>2. ASSUME NEW step \in AgentSteps, Act(step) PROVE Afflicted(mock', box')
    BY <1>2, <2>2, ActAgrees
  <2>3. CASE \/ at \in Agreeing /\ UNCHANGED <<mock, intact, agent>>
                /\ box' \in {box, NewSeries, Worked(box)}
    <3>1. Afflicted(mock, box)
      BY <1>2, <2>3 DEF AgreeInv
    <3>2. /\ box'.file = box.file /\ box'.loaded = box.loaded /\ box'.up = box.up
          /\ box'.paused = box.paused /\ box'.rotated = box.rotated
          /\ box'.sessions = box.sessions
      <4>1. CASE box' = NewSeries
        BY <1>0, <4>1 DEF NewSeries, Box
      <4>2. CASE box' = Worked(box)
        BY <1>0, <4>2, WorkedIs
      <4> QED
        BY <2>3, <4>1, <4>2
    <3> QED
      BY <2>3, <3>1, <3>2, AfflictedSame
  <2>4. CASE Background
    <3>1. Drifts(box, box') /\ UNCHANGED <<at, mock, intact, agent>>
      BY <2>4, BackgroundDrifts DEF runner, history
    <3>2. Afflicted(mock, box)
      BY <1>2, <3>1 DEF AgreeInv
    <3> QED
      BY <3>1, <3>2, AfflictedDrifts
  <2>5. CASE ProbeStatus
    <3>1. UNCHANGED <<at, mock, intact, agent>> /\ box' = Worked(box)
      BY <2>5 DEF ProbeStatus, runner
    <3> QED
      BY <1>2, <2>3, <3>1
  <2>6. CASE \/ ProbeMetrics \/ OpenWorld \/ StartVerification \/ ReadAlerts \/ Judge
             \/ UNCHANGED vars
    <3>1. UNCHANGED <<mock, intact, agent>> /\ at \in Agreeing /\ box' \in {box, NewSeries}
      BY <1>2, <2>6 DEF ProbeMetrics, OpenWorld, StartVerification, ReadAlerts, Judge, vars,
         runner, probing, history
    <3> QED
      BY <1>2, <2>3, <3>1
  <2> QED
    BY <1>2, <2>1, <2>2, <2>4, <2>5, <2>6 DEF Next, Background, Start, Command, BeginInjection,
       Injected, FailCapture, Cleanup, Reverted, Crash
<1> QED
  BY <1>1, <1>2 DEF AgreeInv, Agreeing

LEMMA ShownInit == Init => ShownInv
<1> SUFFICES ASSUME Init PROVE ShownInv
  OBVIOUS
<1>1. at = "idle"
  BY DEF Init
<1> QED
  BY <1>1, IInit DEF ShownInv, CaptureInv, FaultIsVisible, VerdictInv, VerdictIsTrue,
     AgreeInv

LEMMA ShownNext == ShownInv /\ [Next]_vars => ShownInv'
<1> SUFFICES ASSUME ShownInv, [Next]_vars PROVE ShownInv'
  OBVIOUS
<1>1. TypeInv /\ PhaseInv /\ ResetInv /\ InjectInv /\ CaptureInv /\ FaultIsVisible /\ VerdictInv
      /\ AgreeInv
  BY DEF ShownInv, IInv
<1>2. IInv'
  BY INext DEF ShownInv
<1>3. CaptureInv'
  BY <1>1, CaptureNext
<1>4. FaultIsVisible'
  BY <1>1, VisibleNext
<1>5. VerdictInv'
  BY <1>1, VerdictNext
<1>6. AgreeInv'
  BY <1>1, AgreeNext
<1> QED
  BY <1>2, <1>3, <1>4, <1>5, <1>6 DEF ShownInv

LEMMA Shown == Spec => []ShownInv
BY ShownInit, ShownNext, PTL DEF Spec

\* If two probes of a capture met the settled fault (harness/runner.py), the
\* capture has the symptoms that the fault library (harness/faults.py) lists for
\* that fault, whatever the worker, the clients and the containers that start did
\* between the probes.
THEOREM FaultsAreVisible == Spec => []FaultIsVisible
<1>1. ShownInv => FaultIsVisible
  BY DEF ShownInv
<1> QED
  BY <1>1, Shown, PTL

\* When the verifier (pipeline/verify.py) passes all checks, the stack it
\* measured has nothing wrong with it: alerts that were quiet stay so, and a
\* worker that takes no job would have shown a backlog that grows.
THEOREM VerdictsAreTrue == Spec => []VerdictIsTrue
<1>1. ShownInv => VerdictIsTrue
  BY DEF ShownInv, VerdictInv
<1> QED
  BY <1>1, Shown, PTL

\* The mock (benchmark/mockenv.py) speaks for the stack: after harmless calls
\* that all worked, the verifier passes the mock exactly when nothing is wrong
\* with the stack, whatever the calls were and however often it was verified.
THEOREM MockSpeaksForTheStack == Spec => []MockAgrees
<1>1. ShownInv => MockAgrees
  <2> SUFFICES ASSUME ShownInv, at \in {"open", "resolved", "unresolved"}, intact,
                      agent.harmless, box.sessions # "expired"
               PROVE  MockVerdict(mock) <=> Sound(box)
    BY DEF MockAgrees
  <2>1. mock \in Mock /\ box \in Boxes
    BY DEF ShownInv, IInv, TypeInv, PhaseInv, Faulty
  <2>2. Afflicted(mock, box)
    BY DEF ShownInv, AgreeInv
  <2>3. MockVerdict(mock) <=> fixed(mock)
    BY <2>1, MockVerdictIs
  <2>4. box.sessions \notin {"opening", "held"} <=> box.sessions = "none"
    BY <2>1 DEF Boxes, Box
  <2>5. "worker" \in Services /\ BadConfig # Canonical
    BY ServicesType
  <2>6. Sound(box) <=>
          /\ ~(mock.fault \in ConfigFaults /\ ~RolledBack(mock))
          /\ ~(mock.fault = "worker_scaled_to_zero" /\ ~ScaledUp(mock))
          /\ ~(mock.fault = "downstream_timeout" /\ ~Restored(mock, "downstream"))
          /\ ~(mock.fault \in {"queue_consumer_stall", "config_rollout_worker_wedge"}
               /\ ~Restored(mock, "worker"))
          /\ mock.fault # "expired_credential"
          /\ ~(mock.fault \in PoolFaults /\ ~Restored(mock, "db"))
    BY <2>2, <2>4, <2>5 DEF Sound, Afflicted
  <2>7. mock.fault \in FaultIds
    BY <2>1 DEF Mock
  <2> QED
    BY <2>1, <2>3, <2>6, <2>7, FixedIs DEF FaultIds, PoolFaults, ConfigFaults
<1> QED
  BY <1>1, Shown, PTL

=============================================================================
