------------------------------ MODULE Registry ------------------------------
(***************************************************************************)
(* Which runs and scenarios the web API knows: the endpoints are plain     *)
(* functions, each served by a thread of a pool, and they share a lazily   *)
(* created RunManager whose catalog is lazily filled, neither under a      *)
(* lock.  A thread makes one manager at most, by whose name it goes here.  *)
(***************************************************************************)
EXTENDS Naturals, FiniteSets, Sequences

CONSTANTS
  Threads,     \* the threads that serve requests
  Faults,      \* FAULT_IDS, in order
  RunIds,      \* bound: the runs that can be started
  NoManager,
  NoRun

ASSUME RegistryAssumption ==
  /\ Faults \in Seq({Faults[i] : i \in DOMAIN Faults}) /\ Len(Faults) > 0
  /\ \A i, j \in DOMAIN Faults : Faults[i] = Faults[j] => i = j
  /\ NoManager \notin Threads /\ NoRun \notin RunIds

VARIABLES
  manager,     \* _MANAGER
  catalog,     \* per manager: _catalog
  runs,        \* per manager: the keys of _runs
  driven,      \* the runs that have a worker thread
  request,     \* what each thread is doing
  accepted,    \* history: the runs answered with 201
  sure,        \* history: those whose request came once _MANAGER was settled
  overlapped,  \* history: the managers whose catalog two requests filled at once
  abandoned    \* history: those whose catalog was left by a request that failed

managers == <<manager, catalog, runs, driven>>
history == <<accepted, sure, overlapped, abandoned>>
vars == <<managers, request, history>>

FaultSet == {Faults[i] : i \in DOMAIN Faults}

NoRequest == [at |-> "idle", starts |-> FALSE, manager |-> NoManager,
              filled |-> 0, run |-> NoRun, settled |-> FALSE]

Init ==
  /\ manager = NoManager
  /\ catalog = [m \in Threads |-> <<>>]
  /\ runs = [m \in Threads |-> {}]
  /\ driven = {}
  /\ request = [t \in Threads |-> NoRequest]
  /\ accepted = {} /\ sure = {} /\ overlapped = {} /\ abandoned = {}

\* No request that found no manager has yet to make one.
Settled == manager # NoManager /\ \A t \in Threads : request[t].at # "make"

Filling(m) == {t \in Threads : request[t].at = "fill" /\ request[t].manager = m}

\* A request of any kind.
Arrive(t) ==
  /\ request[t].at = "idle"
  /\ request' = [request EXCEPT ![t].at = "check", ![t].settled = Settled]
  /\ UNCHANGED <<managers, history>>

\* Seeded fault: every request makes its manager.
CheckNothing(t) ==
  /\ request[t].at = "check"
  /\ request' = [request EXCEPT ![t].at = "make"]
  /\ UNCHANGED <<managers, history>>

\* if _MANAGER is None
CheckManager(t) ==
  /\ request[t].at = "check"
  /\ request' = [request EXCEPT ![t].at = IF manager = NoManager THEN "make" ELSE "take"]
  /\ UNCHANGED <<managers, history>>

\* _MANAGER = RunManager()
MakeManager(t) ==
  /\ request[t].at = "make"
  /\ manager' = t
  /\ catalog' = [catalog EXCEPT ![t] = <<>>]
  /\ runs' = [runs EXCEPT ![t] = {}]
  /\ request' = [request EXCEPT ![t].at = "take"]
  /\ UNCHANGED <<driven, history>>

FreeIds == RunIds \ UNION {runs[m] : m \in Threads}

Starting == {t \in Threads : request[t].starts /\ request[t].at # "launch"}

\* What is returned is the manager of this moment.  A run, or all runs, are read
\* off it at once; an unknown fault is refused.
AnswerAtOnce(t) ==
  /\ request[t].at = "take"
  /\ request' = [request EXCEPT ![t] = NoRequest]
  /\ UNCHANGED <<managers, history>>

\* The scenarios, or a run to start, need the manager's catalog.
TakeManager(t) ==
  /\ request[t].at = "take"
  /\ \E starts \in {FALSE} \union {Cardinality(Starting) < Cardinality(FreeIds)} :
       request' = [request EXCEPT ![t].at = "look", ![t].manager = manager,
                                  ![t].starts = starts]
  /\ UNCHANGED <<managers, history>>

\* Seeded fault: the catalog is filled whether or not it is empty.
FillAlways(t) ==
  /\ request[t].at = "look"
  /\ request' = [request EXCEPT ![t].at = "fill"]
  /\ UNCHANGED <<managers, history>>

\* if not self._catalog
LookAtCatalog(t) ==
  /\ request[t].at = "look"
  /\ LET m     == request[t].manager
         empty == catalog[m] = <<>>
     IN  /\ request' = [request EXCEPT ![t].at = IF empty THEN "fill" ELSE "use"]
         /\ overlapped' = overlapped \union {n \in {m} : empty /\ Filling(m) # {}}
  /\ UNCHANGED <<managers, accepted, sure, abandoned>>

\* The next scenario, with the title of its alert.
FillCatalog(t) ==
  /\ request[t].at = "fill"
  /\ LET next == request[t].filled + 1
     IN  /\ catalog' = [catalog EXCEPT ![request[t].manager] = Append(@, Faults[next])]
         /\ request' = [request EXCEPT
                          ![t] = IF next = Len(Faults) THEN [@ EXCEPT !.at = "use", !.filled = 0]
                                 ELSE [@ EXCEPT !.filled = next]]
  /\ UNCHANGED <<manager, runs, driven, history>>

\* Its world cannot be built: what is listed so far stays.
FailFill(t) ==
  /\ request[t].at = "fill"
  /\ abandoned' = abandoned \union {m \in {request[t].manager} : request[t].filled > 0}
  /\ request' = [request EXCEPT ![t] = NoRequest]
  /\ UNCHANGED <<managers, accepted, sure, overlapped>>

\* The scenarios are sent.
SendScenarios(t) ==
  /\ request[t].at = "use" /\ ~request[t].starts
  /\ request' = [request EXCEPT ![t] = NoRequest]
  /\ UNCHANGED <<managers, history>>

\* Under a fresh id, with its title from the catalog.
RegisterRun(t) ==
  /\ request[t].at = "use" /\ request[t].starts
  /\ \E r \in FreeIds :
       /\ runs' = [runs EXCEPT ![request[t].manager] = @ \union {r}]
       /\ request' = [request EXCEPT ![t].at = "launch", ![t].run = r]
  /\ UNCHANGED <<manager, catalog, driven, history>>

\* The worker thread starts; the run is answered with 201.
LaunchRun(t) ==
  /\ request[t].at = "launch"
  /\ driven' = driven \union {request[t].run}
  /\ accepted' = accepted \union {request[t].run}
  /\ sure' = sure \union {r \in {request[t].run} : request[t].settled}
  /\ request' = [request EXCEPT ![t] = NoRequest]
  /\ UNCHANGED <<manager, catalog, runs, overlapped, abandoned>>

\* No thread can be started: the request fails with the run in the registry.
FailLaunch(t) ==
  /\ request[t].at = "launch"
  /\ request' = [request EXCEPT ![t] = NoRequest]
  /\ UNCHANGED <<managers, history>>

Next ==
  \E t \in Threads :
    \/ Arrive(t) \/ CheckManager(t) \/ MakeManager(t)
    \/ AnswerAtOnce(t) \/ TakeManager(t)
    \/ LookAtCatalog(t) \/ FillCatalog(t) \/ FailFill(t) \/ SendScenarios(t)
    \/ RegisterRun(t) \/ LaunchRun(t) \/ FailLaunch(t)

Spec == Init /\ [][Next]_vars

-----------------------------------------------------------------------------

\* The components have their types.
TypeOK ==
  /\ manager \in Threads \union {NoManager}
  /\ catalog \in [Threads -> Seq(FaultSet)]
  /\ runs \in [Threads -> SUBSET RunIds]
  /\ sure \subseteq accepted /\ accepted \subseteq driven /\ driven \subseteq RunIds
  /\ overlapped \subseteq Threads /\ abandoned \subseteq Threads
  /\ \A t \in Threads :
       LET r == request[t] IN
       /\ r.at \in {"idle", "check", "make", "take", "look", "fill", "use", "launch"}
       /\ r.starts \in BOOLEAN /\ r.settled \in BOOLEAN
       /\ r.at \in {"look", "fill", "use", "launch"} => r.manager \in Threads /\ manager # NoManager
       /\ r.filled \in 0..(Len(Faults) - 1)
       /\ r.at = "launch" => r.run \in runs[r.manager]

\* A run that was accepted is driven and kept for good by a manager; when its
\* request came after the first ones had settled on a manager, it is that of all
\* later requests, so that the run is found.
AcceptedIsFound ==
  /\ accepted \subseteq driven \intersect UNION {runs[m] : m \in Threads}
  /\ sure \subseteq IF manager = NoManager THEN {} ELSE runs[manager]

\* A request that uses a catalog which no other is filling finds every scenario
\* in it unless a request failed in the middle of filling it, and none twice
\* unless two first requests filled it at a time; only then, or while it is
\* filled, is a list wrong or a run's title a fault id.
CatalogIsWhole ==
  \A t \in Threads :
    LET m         == request[t].manager
        listed(f) == {i \in DOMAIN catalog[m] : catalog[m][i] = f}
    IN  request[t].at = "use" /\ Filling(m) = {} =>
          \A f \in FaultSet : /\ m \notin abandoned => listed(f) # {}
                              /\ m \notin overlapped => Cardinality(listed(f)) <= 1

=============================================================================
