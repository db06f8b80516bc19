----------------------------- MODULE InfraTools -----------------------------
(***************************************************************************)
(* The mutating tools of the Infra/Ops server over the compose stack.      *)
(*                                                                         *)
(* A stack is the app's config file, the config that the running app       *)
(* loaded when it started, and the services that have a running container. *)
(* A call returns an OpResult; a compose command may fail (rc # 0), and    *)
(* then raises: scale_service turns that into success=False itself, the    *)
(* executor turns the ToolError of the other tools into the same.          *)
(***************************************************************************)
EXTENDS Remediation, FiniteSets

CONSTANT DependsOn      \* depends_on of the compose file, service by service

ASSUME DependsOnAssumption == DependsOn \in [Services -> SUBSET Services]

Stack == [file : Configs, loaded : Configs, up : SUBSET Services]

Result(ok, st) == [ok |-> ok, stack |-> st]

\* Restarting reads the config file again; it is a no-op at zero replicas.
Restarted(st, service) ==
  IF service = "app" /\ "app" \in st.up THEN [st EXCEPT !.loaded = st.file] ELSE st

\* `up --scale s=1 s` creates the container and those it depends on; a new app
\* container reads the config file.
Scaled(st, service, replicas) ==
  IF replicas = 0 THEN [st EXCEPT !.up = @ \ {service}]
  ELSE LET up == st.up \union {service} \union DependsOn[service]
       IN  [st EXCEPT !.up = up,
                      !.loaded = IF "app" \in up \ st.up THEN st.file ELSE @]

-----------------------------------------------------------------------------

RestartService(st, service, dry) ==
  IF dry THEN {Result(TRUE, st)}
  ELSE {Result(TRUE, Restarted(st, service)), Result(FALSE, st)}

\* Out of 0..3 the schema refuses the call; compose refuses more than one
\* replica, because container names are pinned.
ScaleService(st, service, replicas, dry) ==
  CASE replicas \notin 0..3 -> {Result(FALSE, st)}
    [] replicas \in 0..3 /\ dry -> {Result(TRUE, st)}
    [] replicas \in 2..3 /\ ~dry -> {Result(FALSE, st)}
    [] replicas \in 0..1 /\ ~dry ->
         {Result(TRUE, Scaled(st, service, replicas)), Result(FALSE, st)}

\* Seeded fault: the app is not restarted after the file was written.
WriteConfigOnly(st, config, dry) ==
  IF config = st.file \/ dry THEN {Result(TRUE, st)}
  ELSE {Result(TRUE, [st EXCEPT !.file = config])}

\* Write the file, then restart the app: when the restart fails, the file has
\* been written.  The comparison is against the file, not the running app.
WriteConfig(st, config, dry) ==
  LET written == [st EXCEPT !.file = config]
  IN  IF config = st.file \/ dry THEN {Result(TRUE, st)}
      ELSE {Result(TRUE, Restarted(written, "app")), Result(FALSE, written)}

Patched(config, patch) ==
  [key \in ConfigKeys |-> IF key \in DOMAIN patch THEN patch[key] ELSE config[key]]

\* AppConfigPatch refuses keys that it does not have, before anything is read.
ApplyConfig(st, patch, dry) ==
  IF DOMAIN patch \subseteq ConfigKeys THEN WriteConfig(st, Patched(st.file, patch), dry)
  ELSE {Result(FALSE, st)}

Rollback(st, dry) == WriteConfig(st, Canonical, dry)

Invoke(st, step, dry) ==
  CASE step.action = "restart_service" -> RestartService(st, step.target, dry)
    [] step.action = "scale_service" -> ScaleService(st, step.target, step.arg, dry)
    [] step.action = "apply_config" -> ApplyConfig(st, step.arg, dry)
    [] step.action = "rollback" -> Rollback(st, dry)

-----------------------------------------------------------------------------

\* The verifier's measurement.  The app answers /work and the backlog drains
\* only with the one valid mode loaded and every service running; a config with
\* another downstream_url may do without the sandbox's own downstream, and with
\* another timeout it may work or not.  Whatever else may ail the stack (a held
\* connection, a rotated credential, a paused container, a start still in
\* progress) is not part of Stack.
CanBeHealthy(st) ==
  /\ st.loaded["feature_mode"] \in VALID_FEATURE_MODES
  /\ Services \ {s \in {"downstream"} : st.loaded["downstream_url"] # Known} \subseteq st.up

RunChecks(st) == IF CanBeHealthy(st) THEN BOOLEAN ELSE {FALSE}

=============================================================================
