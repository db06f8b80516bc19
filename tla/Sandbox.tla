------------------------------- MODULE Sandbox -------------------------------
(***************************************************************************)
(* The compose stack that the faults break and the tools mend: what each   *)
(* command of SandboxController does to it, what its app answers, and the  *)
(* worker's two steps.                                                     *)
(*                                                                         *)
(* A box is InfraTools' stack with what that one leaves out: the paused    *)
(* containers, those that run and do not answer yet, the connections held  *)
(* by idle sessions, the rotated credential, and the job queue.            *)
(***************************************************************************)
EXTENDS InfraTools

CONSTANTS
  RolledOut,   \* the feature_mode that the faults roll out
  Backlog,     \* the jobs that the wedge seeds
  NoAnswer     \* a field of a snapshot that stayed None

\* No service of docker-compose.yml depends on the worker.
ASSUME SandboxAssumption ==
  /\ {"app", "worker", "downstream", "db", "queue"} = Services
  /\ RolledOut \in Values \ {Known}
  /\ Backlog \in Nat \ {0}
  /\ \A s \in Services : "worker" \notin DependsOn[s]

BadConfig == [Canonical EXCEPT !["feature_mode"] = RolledOut]

\* The sessions are "opening" while the detached clients connect, and "expired"
\* when their pg_sleep has returned.
Box == [file : Configs, loaded : Configs, up : SUBSET Services,
        paused : SUBSET Services, starting : SUBSET Services,
        sessions : {"none", "opening", "held", "expired"}, rotated : BOOLEAN,
        depth : Nat, done : Nat, popped : BOOLEAN]

\* After `down -v`: nothing is left but the config file.
Emptied(b) ==
  [b EXCEPT !.up = {}, !.paused = {}, !.starting = {}, !.sessions = "none",
            !.rotated = FALSE, !.depth = 0, !.done = 0, !.popped = FALSE]

\* After `up --wait`: whatever has a healthcheck answers.
Created(b) ==
  [b EXCEPT !.up = Services, !.starting = {"worker"},
            !.loaded = IF "app" \notin b.up THEN b.file ELSE @]

Answers(b, s) == s \in b.up \ (b.paused \union b.starting)

\* What a restart, a creation or a removal of these services' containers ends.
\* The stack has no volumes: with its container, db and queue lose their data.
Renewed(b, services) ==
  LET removed == services \ b.up
  IN  [b EXCEPT !.paused = @ \ services,
                !.starting = (@ \union services) \intersect b.up,
                !.sessions = IF "db" \in services THEN "none" ELSE @,
                !.rotated = @ /\ "db" \notin removed,
                !.depth = IF "queue" \in removed THEN 0 ELSE @,
                !.done = IF "queue" \in removed THEN 0 ELSE @,
                !.popped = @ /\ "worker" \notin services]

-----------------------------------------------------------------------------
(* The worker, and the clocks of the stack. *)

\* A container that was started answers.
Starts(b, s) == s \in b.starting /\ s \notin b.paused
Started(b, s) == [b EXCEPT !.starting = @ \ {s}]

\* brpop, then incr: between them the job is in neither counter.
CanPop(b) == /\ Answers(b, "worker") /\ Answers(b, "queue")
             /\ ~b.popped /\ b.depth > 0
Popped(b) == [b EXCEPT !.depth = @ - 1, !.popped = TRUE]
CanCount(b) == Answers(b, "worker") /\ Answers(b, "queue") /\ b.popped
Counted(b) == [b EXCEPT !.done = @ + 1, !.popped = FALSE]

-----------------------------------------------------------------------------
(* What the app answers. *)

DbOk(b) == Answers(b, "db") /\ b.sessions # "held" /\ ~b.rotated

\* /healthz: the components that fail; it does not look at the config.
Healthz(b) ==
  IF ~Answers(b, "app") THEN NoAnswer
  ELSE {c \in {"db"} : ~DbOk(b)} \union {c \in {"queue"} : ~Answers(b, c)}

WorkAnswers == {"feature_mode", "db_error", "downstream_timeout", "downstream_error",
                "queue_error", "done"}

\* Of the downstream keys a value that is not the known-good one does not serve:
\* the url leads nowhere, or the timeout is too short.
Downstream(b) ==
  IF b.loaded["downstream_url"] # Known THEN "downstream_error"
  ELSE IF "downstream" \in b.paused THEN "downstream_timeout"
  ELSE IF ~Answers(b, "downstream") THEN "downstream_error"
  ELSE IF b.loaded["downstream_timeout_s"] # Known THEN "downstream_timeout"
  ELSE "done"

Work(b) ==
  CASE ~Answers(b, "app") -> NoAnswer
    [] Answers(b, "app") /\ b.loaded["feature_mode"] # Known -> "feature_mode"
    [] Answers(b, "app") /\ b.loaded["feature_mode"] = Known ->
         IF ~DbOk(b) THEN "db_error"
         ELSE IF Downstream(b) # "done" THEN Downstream(b)
         ELSE IF ~Answers(b, "queue") THEN "queue_error"
         ELSE "done"

\* A request that is done pushes a job.
Worked(b) == IF Work(b) = "done" THEN [b EXCEPT !.depth = @ + 1] ELSE b

Metrics(b) ==
  IF Answers(b, "app") /\ Answers(b, "queue") THEN [depth |-> b.depth, done |-> b.done]
  ELSE NoAnswer

\* ProbeSnapshot.healthy.
Healthy(snap) == snap.healthz = {} /\ snap.work = "done"

-----------------------------------------------------------------------------
(* The controller's commands.  A compose command that fails raises. *)

Attempt(b, after) == {Result(TRUE, after), Result(FALSE, b)}

\* Seeded fault: a reset leaves the config file as it is.
ForgetDefault(b) == {Result(TRUE, b)}

WriteDefault(b) == {Result(TRUE, [b EXCEPT !.file = Canonical])}

Down(b) == Attempt(b, Emptied(b)) \union {Result(FALSE, Emptied(b))}

\* It also fails when a container does not become healthy in time.
Up(b) == Attempt(b, Created(b)) \union {Result(FALSE, Created(b))}

\* Pausing what is paused, and unpausing what is not, is refused; without a
\* container there is nothing to do.
Pause(b, s) ==
  CASE s \in b.up \ b.paused -> Attempt(b, [b EXCEPT !.paused = @ \union {s}])
    [] s \in b.up \intersect b.paused -> {Result(FALSE, b)}
    [] s \notin b.up -> Attempt(b, b)

Unpause(b, s) ==
  CASE s \in b.paused -> Attempt(b, [b EXCEPT !.paused = @ \ {s}])
    [] s \in b.up \ b.paused -> {Result(FALSE, b)}
    [] s \notin b.up -> Attempt(b, b)

Restart(b, s) == Attempt(b, Renewed(Restarted(b, s), {s} \intersect b.up))

Scale(b, s, replicas) ==
  LET after == Scaled(b, s, replicas)
  IN  Attempt(b, Renewed(after, (after.up \ b.up) \union (b.up \ after.up)))

\* psql inside the db container.
Psql(b, after) == IF Answers(b, "db") THEN Attempt(b, after) ELSE {Result(FALSE, b)}

\* Eight detached clients, of which seven take the slots: the last may fail with
\* the slots taken.
HoldSlots(b) ==
  IF Answers(b, "db")
  THEN LET opening == [b EXCEPT !.sessions = "opening"]
       IN  Attempt(b, opening) \union {Result(FALSE, opening)}
  ELSE {Result(FALSE, b)}

\* pg_terminate_backend ends the sessions there are.
EndSessions(b) == Psql(b, [b EXCEPT !.sessions = IF @ = "held" THEN "none" ELSE @])

SetPassword(b, rotated) == Psql(b, [b EXCEPT !.rotated = rotated])

\* One lpush per job.
Seed(b) ==
  IF Answers(b, "queue")
  THEN {Result(TRUE, [b EXCEPT !.depth = @ + Backlog])}
         \union {Result(FALSE, [b EXCEPT !.depth = @ + k]) : k \in 0..(Backlog - 1)}
  ELSE {Result(FALSE, b)}

-----------------------------------------------------------------------------

\* The services whose container a tool call restarted, created or removed.
Touched(b, step, r) ==
  CASE step.action = "restart_service" /\ r.ok -> {step.target} \intersect b.up
    [] step.action = "scale_service" -> (r.stack.up \ b.up) \union (b.up \ r.stack.up)
    [] step.action \in {"apply_config", "rollback"} /\ r.ok /\ r.stack.file # b.file ->
         {"app"} \intersect b.up
    [] OTHER -> {}

\* A tool of the Infra server, on a box.
Call(b, step) ==
  {Result(r.ok, Renewed(r.stack, Touched(b, step, r))) : r \in Invoke(b, step, FALSE)}

\* Nothing is wrong with the stack; a backlog that drains is nothing wrong.
Sound(b) ==
  /\ b.loaded = Canonical
  /\ b.up = Services
  /\ b.paused = {}
  /\ b.sessions \notin {"opening", "held"}
  /\ ~b.rotated

=============================================================================
