---------------------------- MODULE RegistryProofs ----------------------------
(***************************************************************************)
(* Proofs about Registry, for any number of threads, faults and runs: what *)
(* was accepted is found, and a catalog that nobody is filling is whole.   *)
(***************************************************************************)
EXTENDS Registry, FiniteSetTheorems, TLAPS

Using == {"look", "fill", "use", "launch"}

Ats == {"idle", "check", "make", "take"} \union Using

Requests == [at : Ats, starts : BOOLEAN, manager : Threads \union {NoManager},
             filled : 0..(Len(Faults) - 1), run : RunIds \union {NoRun}, settled : BOOLEAN]

RequestsOK ==
  /\ request \in [Threads -> Requests]
  /\ \A t \in Threads : request[t].at # "fill" => request[t].filled = 0

\* Nothing exists before the first manager, and a thread that is about to make
\* one has never made one: what MakeManager resets is as it was.
ManagerInv ==
  /\ manager = NoManager =>
       \A t \in Threads : /\ catalog[t] = <<>> /\ runs[t] = {}
                          /\ request[t].at \in {"idle", "check", "make"}
                          /\ request[t].manager = NoManager
  /\ \A t \in Threads : request[t].at = "make" =>
       /\ manager # t /\ catalog[t] = <<>> /\ runs[t] = {}
       /\ \A u \in Threads : request[u].manager # t

\* A request that came once the manager was settled has that manager, and so
\* have the runs it started.
SettledInv ==
  /\ \A t \in Threads : request[t].settled =>
       Settled /\ (request[t].at \in Using => request[t].manager = manager)
  /\ sure # {} => Settled

\* The inductive invariant behind AcceptedIsFound.
IInv == TypeOK /\ RequestsOK /\ ManagerInv /\ SettledInv /\ AcceptedIsFound

Listed(c, f) == \E i \in DOMAIN c : c[i] = f

\* Whoever fills a catalog has listed the scenarios so far; a catalog that has
\* something in it, and that nobody has left or will leave unfinished, is whole;
\* and only one that has something is used.
FillInv ==
  \A t \in Threads :
    /\ request[t].at = "fill" =>
         \A i \in 1..request[t].filled : Listed(catalog[request[t].manager], Faults[i])
    /\ catalog[t] # <<>> /\ t \notin abandoned /\ (\A u \in Filling(t) : request[u].filled = 0) =>
         \A f \in FaultSet : Listed(catalog[t], f)
    /\ request[t].at = "use" => catalog[request[t].manager] # <<>>

\* A catalog that never had two fillers is a beginning of Faults: as long as its
\* one filler has come, or, if that one did not fail, all of it or nothing.
OnceInv ==
  \A m \in Threads : m \notin overlapped =>
    /\ Len(catalog[m]) <= Len(Faults)
    /\ \A i \in 1..Len(catalog[m]) : catalog[m][i] = Faults[i]
    /\ \A t \in Filling(m) : Len(catalog[m]) = request[t].filled
    /\ \A t, u \in Filling(m) : t = u
    /\ Filling(m) = {} /\ m \notin abandoned => Len(catalog[m]) \in {0, Len(Faults)}

\* The inductive invariant behind CatalogIsWhole.
CatalogInv == IInv /\ FillInv /\ OnceInv

-----------------------------------------------------------------------------

LEMMA FaultsType == /\ Len(Faults) \in Nat \ {0} /\ DOMAIN Faults = 1..Len(Faults)
                    /\ \A i \in 1..Len(Faults) : Faults[i] \in FaultSet
BY RegistryAssumption DEF FaultSet

LEMMA NoRequestType == NoRequest \in Requests
BY FaultsType DEF NoRequest, Requests, Ats

LEMMA IInit == Init => IInv
<1> SUFFICES ASSUME Init PROVE IInv
  OBVIOUS
<1> USE DEF Init
<1>1. \A t \in Threads : request[t] = NoRequest
  OBVIOUS
<1>2. RequestsOK
  BY NoRequestType DEF RequestsOK, NoRequest
<1>3. TypeOK
  <2>1. 0 \in 0..(Len(Faults) - 1)
    BY FaultsType
  <2>2. catalog \in [Threads -> Seq(FaultSet)] /\ runs \in [Threads -> SUBSET RunIds]
    OBVIOUS
  <2>3. ASSUME NEW t \in Threads
        PROVE  /\ request[t].at = "idle" /\ request[t].starts = FALSE
               /\ request[t].settled = FALSE /\ request[t].filled = 0
    BY <1>1 DEF NoRequest
  <2> QED
    BY <2>1, <2>2, <2>3 DEF TypeOK
<1>4. ManagerInv /\ SettledInv /\ AcceptedIsFound
  BY <1>1 DEF ManagerInv, SettledInv, AcceptedIsFound, NoRequest
<1> QED
  BY <1>2, <1>3, <1>4 DEF IInv

-----------------------------------------------------------------------------
(* What each action makes of the request it serves. *)

\* Request t goes on to at, with this manager, count, run and settled; no other
\* request moves.
Moved(t, at, mgr, filled, run, settled) ==
  /\ RequestsOK'
  /\ request'[t].at = at /\ request'[t].manager = mgr /\ request'[t].filled = filled
  /\ request'[t].run = run /\ request'[t].settled = settled
  /\ \A u \in Threads : u # t => request'[u] = request[u]

\* It goes on to at and is otherwise what it was.
MovedTo(t, at) ==
  Moved(t, at, request[t].manager, request[t].filled, request[t].run, request[t].settled)

Dropped(t) == Moved(t, "idle", NoManager, 0, NoRun, FALSE)

\* Replacing one request by another of its type.
LEMMA Replace ==
  ASSUME RequestsOK, NEW t \in Threads, NEW q \in Requests,
         q.at # "fill" => q.filled = 0, request' = [request EXCEPT ![t] = q]
  PROVE  Moved(t, q.at, q.manager, q.filled, q.run, q.settled)
BY DEF RequestsOK, Moved

LEMMA ArriveMoves ==
  ASSUME RequestsOK, NEW t \in Threads, Arrive(t)
  PROVE  Moved(t, "check", request[t].manager, request[t].filled, request[t].run, Settled)
<1> DEFINE q == [request[t] EXCEPT !.at = "check", !.settled = Settled]
<1>1. Settled \in BOOLEAN
  BY DEF Settled
<1>2. /\ q \in Requests /\ q.at = "check" /\ q.settled = Settled
      /\ q.manager = request[t].manager /\ q.filled = request[t].filled
      /\ q.run = request[t].run /\ request[t].at = "idle"
  BY <1>1 DEF RequestsOK, Requests, Ats, Arrive
<1>3. request' = [request EXCEPT ![t] = q] /\ q.filled = 0
  BY <1>2 DEF Arrive, RequestsOK
<1> HIDE DEF q
<1> QED
  BY <1>2, <1>3, Replace

LEMMA CheckManagerMoves ==
  ASSUME RequestsOK, NEW t \in Threads, CheckManager(t)
  PROVE  MovedTo(t, IF manager = NoManager THEN "make" ELSE "take")
<1> DEFINE q == [request[t] EXCEPT !.at = IF manager = NoManager THEN "make" ELSE "take"]
<1>1. /\ q \in Requests /\ q.at = (IF manager = NoManager THEN "make" ELSE "take")
      /\ q.settled = request[t].settled /\ q.manager = request[t].manager
      /\ q.filled = request[t].filled /\ q.run = request[t].run /\ request[t].at = "check"
  BY DEF RequestsOK, Requests, Ats, CheckManager
<1>2. request' = [request EXCEPT ![t] = q] /\ q.filled = 0
  BY <1>1 DEF CheckManager, RequestsOK
<1> HIDE DEF q
<1> QED
  BY <1>1, <1>2, Replace DEF MovedTo

LEMMA MakeManagerMoves ==
  ASSUME RequestsOK, NEW t \in Threads, MakeManager(t)
  PROVE  MovedTo(t, "take")
<1> DEFINE q == [request[t] EXCEPT !.at = "take"]
<1>1. /\ q \in Requests /\ q.at = "take"
      /\ q.settled = request[t].settled /\ q.manager = request[t].manager
      /\ q.filled = request[t].filled /\ q.run = request[t].run /\ request[t].at = "make"
  BY DEF RequestsOK, Requests, Ats, MakeManager
<1>2. request' = [request EXCEPT ![t] = q] /\ q.filled = 0
  BY <1>1 DEF MakeManager, RequestsOK
<1> HIDE DEF q
<1> QED
  BY <1>1, <1>2, Replace DEF MovedTo

LEMMA TakeManagerMoves ==
  ASSUME RequestsOK, manager \in Threads \union {NoManager}, NEW t \in Threads, TakeManager(t)
  PROVE  Moved(t, "look", manager, 0, request[t].run, request[t].settled)
<1>1. PICK starts \in BOOLEAN :
        request' = [request EXCEPT ![t].at = "look", ![t].manager = manager, ![t].starts = starts]
  <2>1. {FALSE} \union {Cardinality(Starting) < Cardinality(FreeIds)} \subseteq BOOLEAN
    OBVIOUS
  <2> QED
    BY <2>1, Zenon DEF TakeManager
<1> DEFINE q == [request[t] EXCEPT !.at = "look", !.manager = manager, !.starts = starts]
<1>2. /\ q \in Requests /\ q.at = "look" /\ q.settled = request[t].settled
      /\ q.manager = manager /\ q.filled = request[t].filled /\ q.run = request[t].run
      /\ request[t].at = "take"
  BY DEF RequestsOK, Requests, Ats, Using, TakeManager
<1>3. request' = [request EXCEPT ![t] = q] /\ q.filled = 0 /\ request[t].filled = 0
  BY <1>1, <1>2 DEF RequestsOK
<1> HIDE DEF q
<1> QED
  BY <1>2, <1>3, Replace

LEMMA LookAtCatalogMoves ==
  ASSUME RequestsOK, NEW t \in Threads, LookAtCatalog(t)
  PROVE  MovedTo(t, IF catalog[request[t].manager] = <<>> THEN "fill" ELSE "use")
<1> DEFINE at == IF catalog[request[t].manager] = <<>> THEN "fill" ELSE "use"
           q == [request[t] EXCEPT !.at = at]
<1>1. /\ q \in Requests /\ q.at = at
      /\ q.settled = request[t].settled /\ q.manager = request[t].manager
      /\ q.filled = request[t].filled /\ q.run = request[t].run /\ request[t].at = "look"
  BY DEF RequestsOK, Requests, Ats, Using, LookAtCatalog
<1>2. request' = [request EXCEPT ![t] = q] /\ q.filled = 0
  BY <1>1 DEF LookAtCatalog, RequestsOK
<1> HIDE DEF q
<1> QED
  BY <1>1, <1>2, Replace DEF MovedTo

LEMMA FillCatalogMoves ==
  ASSUME RequestsOK, NEW t \in Threads, FillCatalog(t)
  PROVE  IF request[t].filled + 1 = Len(Faults)
         THEN Moved(t, "use", request[t].manager, 0, request[t].run, request[t].settled)
         ELSE Moved(t, "fill", request[t].manager, request[t].filled + 1,
                    request[t].run, request[t].settled)
<1> DEFINE next == request[t].filled + 1
           q == IF next = Len(Faults) THEN [request[t] EXCEPT !.at = "use", !.filled = 0]
                ELSE [request[t] EXCEPT !.filled = next]
<1>1. request[t] \in Requests /\ request[t].at = "fill"
  BY DEF RequestsOK, FillCatalog
<1>2. CASE next = Len(Faults)
  <2>1. /\ q \in Requests /\ q.at = "use" /\ q.filled = 0
        /\ q.settled = request[t].settled /\ q.manager = request[t].manager
        /\ q.run = request[t].run
    <3>1. q = [request[t] EXCEPT !.at = "use", !.filled = 0] /\ 0 \in 0..(Len(Faults) - 1)
      BY <1>2, FaultsType
    <3> HIDE DEF q
    <3> QED
      BY <1>1, <3>1 DEF Requests, Ats, Using
  <2>2. request' = [request EXCEPT ![t] = q]
    BY <1>2 DEF FillCatalog
  <2> HIDE DEF q
  <2> QED
    BY <1>2, <2>1, <2>2, Replace
<1>3. CASE next # Len(Faults)
  <2>1. next \in 0..(Len(Faults) - 1)
    BY <1>1, <1>3, FaultsType DEF Requests
  <2>2. /\ q \in Requests /\ q.at = "fill" /\ q.filled = next
        /\ q.settled = request[t].settled /\ q.manager = request[t].manager
        /\ q.run = request[t].run
    BY <1>1, <1>3, <2>1 DEF Requests, Ats, Using
  <2>3. request' = [request EXCEPT ![t] = q]
    BY <1>3 DEF FillCatalog
  <2> HIDE DEF q
  <2> QED
    BY <1>3, <2>2, <2>3, Replace
<1> QED
  BY <1>2, <1>3

LEMMA RegisterRunMoves ==
  ASSUME RequestsOK, NEW t \in Threads, RegisterRun(t)
  PROVE  \E r \in FreeIds :
           /\ runs' = [runs EXCEPT ![request[t].manager] = @ \union {r}]
           /\ Moved(t, "launch", request[t].manager, 0, r, request[t].settled)
<1>1. PICK r \in FreeIds :
        /\ runs' = [runs EXCEPT ![request[t].manager] = @ \union {r}]
        /\ request' = [request EXCEPT ![t].at = "launch", ![t].run = r]
  BY DEF RegisterRun
<1> DEFINE q == [request[t] EXCEPT !.at = "launch", !.run = r]
<1>2. /\ q \in Requests /\ q.at = "launch" /\ q.settled = request[t].settled
      /\ q.manager = request[t].manager /\ q.filled = request[t].filled /\ q.run = r
      /\ request[t].at = "use"
  <2>1. r \in RunIds /\ request[t] \in Requests /\ request[t].at = "use"
    BY DEF FreeIds, RequestsOK, RegisterRun
  <2> QED
    BY <2>1 DEF Requests, Ats, Using
<1>3. request' = [request EXCEPT ![t] = q] /\ q.filled = 0 /\ request[t].filled = 0
  BY <1>1, <1>2 DEF RequestsOK
<1> HIDE DEF q
<1> QED
  BY <1>1, <1>2, <1>3, Replace

LEMMA Drops ==
  ASSUME RequestsOK, NEW t \in Threads,
         AnswerAtOnce(t) \/ SendScenarios(t) \/ LaunchRun(t) \/ FailLaunch(t) \/ FailFill(t)
  PROVE  Dropped(t)
<1>1. request' = [request EXCEPT ![t] = NoRequest]
  BY DEF AnswerAtOnce, SendScenarios, LaunchRun, FailLaunch, FailFill
<1>2. RequestsOK' /\ request'[t] = NoRequest /\ \A u \in Threads : u # t => request'[u] = request[u]
  <2>1. NoRequest \in Requests /\ NoRequest.filled = 0
    BY NoRequestType DEF NoRequest
  <2> QED
    BY <1>1, <2>1 DEF RequestsOK
<1> QED
  BY <1>2 DEF Dropped, Moved, NoRequest

-----------------------------------------------------------------------------
(* Every request has one manager. *)

\* Making a manager resets what nobody has used.
LEMMA MakeResetsNothing ==
  ASSUME IInv, NEW t \in Threads, MakeManager(t)
  PROVE  UNCHANGED <<catalog, runs>>
BY DEF IInv, TypeOK, ManagerInv, MakeManager

\* Once settled, the manager is the one there will ever be.
LEMMA SettledStays ==
  ASSUME IInv, [Next]_vars, Settled
  PROVE  Settled' /\ manager' = manager
<1> USE DEF IInv, Settled, managers, Moved, MovedTo, Dropped
<1>1. ASSUME NEW t \in Threads, Arrive(t) PROVE Settled' /\ manager' = manager
  BY <1>1, ArriveMoves DEF Arrive
<1>2. ASSUME NEW t \in Threads, CheckManager(t) PROVE Settled' /\ manager' = manager
  BY <1>2, CheckManagerMoves DEF CheckManager
<1>3. ASSUME NEW t \in Threads, MakeManager(t) PROVE Settled' /\ manager' = manager
  BY <1>3 DEF MakeManager
<1>4. ASSUME NEW t \in Threads,
             AnswerAtOnce(t) \/ SendScenarios(t) \/ LaunchRun(t) \/ FailLaunch(t) \/ FailFill(t)
      PROVE  Settled' /\ manager' = manager
  BY <1>4, Drops DEF AnswerAtOnce, SendScenarios, LaunchRun, FailLaunch, FailFill
<1>5. ASSUME NEW t \in Threads, TakeManager(t) PROVE Settled' /\ manager' = manager
  BY <1>5, TakeManagerMoves DEF TakeManager, TypeOK
<1>6. ASSUME NEW t \in Threads, LookAtCatalog(t) PROVE Settled' /\ manager' = manager
  BY <1>6, LookAtCatalogMoves DEF LookAtCatalog
<1>7. ASSUME NEW t \in Threads, FillCatalog(t) PROVE Settled' /\ manager' = manager
  BY <1>7, FillCatalogMoves DEF FillCatalog
<1>8. ASSUME NEW t \in Threads, RegisterRun(t) PROVE Settled' /\ manager' = manager
  BY <1>8, RegisterRunMoves DEF RegisterRun
<1>9. CASE UNCHANGED vars
  BY <1>9 DEF vars
<1> QED
  BY <1>1, <1>2, <1>3, <1>4, <1>5, <1>6, <1>7, <1>8, <1>9 DEF Next

\* What the steps below need of a request's type.
LEMMA RequestType ==
  ASSUME RequestsOK, NEW t \in Threads
  PROVE  /\ request[t].at \in Ats /\ request[t].starts \in BOOLEAN
         /\ request[t].manager \in Threads \union {NoManager}
         /\ request[t].filled \in 0..(Len(Faults) - 1)
         /\ request[t].settled \in BOOLEAN
BY DEF RequestsOK, Requests

LEMMA RequestsNext == ASSUME IInv, [Next]_vars PROVE RequestsOK'
<1> USE DEF IInv, Moved, MovedTo, Dropped
<1>1. ASSUME NEW t \in Threads,
             \/ Arrive(t) \/ CheckManager(t) \/ MakeManager(t) \/ LookAtCatalog(t)
      PROVE  RequestsOK'
  BY <1>1, ArriveMoves, CheckManagerMoves, MakeManagerMoves, LookAtCatalogMoves
<1>2. ASSUME NEW t \in Threads,
             AnswerAtOnce(t) \/ SendScenarios(t) \/ LaunchRun(t) \/ FailLaunch(t) \/ FailFill(t)
      PROVE  RequestsOK'
  BY <1>2, Drops
<1>3. ASSUME NEW t \in Threads, TakeManager(t) \/ FillCatalog(t) \/ RegisterRun(t)
      PROVE  RequestsOK'
  BY <1>3, TakeManagerMoves, FillCatalogMoves, RegisterRunMoves DEF TypeOK
<1>4. CASE UNCHANGED vars
  BY <1>4 DEF vars, RequestsOK
<1> QED
  BY <1>1, <1>2, <1>3, <1>4 DEF Next

LEMMA TypeNext == ASSUME IInv, [Next]_vars PROVE TypeOK'
<1>1. RequestsOK'
  BY RequestsNext
<1>2. ASSUME NEW t \in Threads
      PROVE  LET r == request'[t] IN
             /\ r.at \in {"idle", "check", "make", "take", "look", "fill", "use", "launch"}
             /\ r.starts \in BOOLEAN /\ r.settled \in BOOLEAN
             /\ r.filled \in 0..(Len(Faults) - 1)
  BY <1>1 DEF RequestsOK, Requests, Ats, Using
<1> DEFINE Rest ==
      /\ manager \in Threads \union {NoManager}
      /\ catalog \in [Threads -> Seq(FaultSet)]
      /\ runs \in [Threads -> SUBSET RunIds]
      /\ sure \subseteq accepted /\ accepted \subseteq driven /\ driven \subseteq RunIds
      /\ overlapped \subseteq Threads /\ abandoned \subseteq Threads
      /\ \A t \in Threads :
           /\ request[t].at \in Using => request[t].manager \in Threads /\ manager # NoManager
           /\ request[t].at = "launch" => request[t].run \in runs[request[t].manager]
<1>3. Rest
  BY DEF IInv, TypeOK, Using
<1>4. Rest'
  <2> USE <1>3, RegistryAssumption DEF Using, Moved, MovedTo, Dropped, managers, history
  <2>0. RequestsOK
    BY DEF IInv
  <2>1. ASSUME NEW t \in Threads, Arrive(t) PROVE Rest'
    BY <2>0, <2>1, ArriveMoves DEF Arrive
  <2>2. ASSUME NEW t \in Threads, CheckManager(t) PROVE Rest'
    BY <2>0, <2>2, CheckManagerMoves DEF CheckManager
  <2>3. ASSUME NEW t \in Threads, MakeManager(t) PROVE Rest'
    <3>1. /\ manager' = t /\ UNCHANGED <<catalog, runs, driven, history>>
      BY <2>3, MakeResetsNothing DEF MakeManager
    <3>2. MovedTo(t, "take")
      BY <2>0, <2>3, MakeManagerMoves
    <3> QED
      BY <3>1, <3>2
  <2>4. ASSUME NEW t \in Threads, AnswerAtOnce(t) \/ SendScenarios(t) \/ FailLaunch(t) \/ FailFill(t)
        PROVE  Rest'
    BY <2>0, <2>4, Drops DEF AnswerAtOnce, SendScenarios, FailLaunch, FailFill
  <2>5. ASSUME NEW t \in Threads, LaunchRun(t) PROVE Rest'
    <3>1. Dropped(t)
      BY <2>0, <2>5, Drops
    <3>2. request[t].run \in RunIds
      BY <2>5 DEF LaunchRun
    <3>3. /\ driven' = driven \union {request[t].run} /\ accepted' = accepted \union {request[t].run}
          /\ sure' \subseteq sure \union {request[t].run}
          /\ UNCHANGED <<manager, catalog, runs, overlapped, abandoned>>
      BY <2>5 DEF LaunchRun
    <3> QED
      BY <3>1, <3>2, <3>3
  <2>6. ASSUME NEW t \in Threads, TakeManager(t) PROVE Rest'
    <3>1. UNCHANGED <<managers, history>> /\ request[t].at = "take"
      BY <2>6 DEF TakeManager
    <3>2. manager \in Threads
      BY <3>1 DEF IInv, ManagerInv
    <3>3. Moved(t, "look", manager, 0, request[t].run, request[t].settled)
      BY <2>0, <2>6, TakeManagerMoves
    <3> QED
      BY <3>1, <3>2, <3>3
  <2>7. ASSUME NEW t \in Threads, LookAtCatalog(t) PROVE Rest'
    BY <2>0, <2>7, LookAtCatalogMoves DEF LookAtCatalog
  <2>8. ASSUME NEW t \in Threads, FillCatalog(t) PROVE Rest'
    <3> DEFINE next == request[t].filled + 1
    <3>1. next \in 1..Len(Faults)
      BY <2>0, RequestType, FaultsType
    <3>2. /\ catalog' = [catalog EXCEPT ![request[t].manager] = Append(@, Faults[next])]
          /\ UNCHANGED <<manager, runs, driven, history>> /\ request[t].at = "fill"
      BY <2>8 DEF FillCatalog
    <3>3. catalog' \in [Threads -> Seq(FaultSet)]
      BY <3>1, <3>2, FaultsType
    <3>4. request'[t].manager = request[t].manager /\ request'[t].at \in {"fill", "use"}
      BY <2>0, <2>8, FillCatalogMoves
    <3>5. \A u \in Threads : u # t => request'[u] = request[u]
      BY <2>0, <2>8, FillCatalogMoves
    <3> QED
      BY <3>2, <3>3, <3>4, <3>5
  <2>9. ASSUME NEW t \in Threads, RegisterRun(t) PROVE Rest'
    <3>1. PICK r \in FreeIds :
            /\ runs' = [runs EXCEPT ![request[t].manager] = @ \union {r}]
            /\ Moved(t, "launch", request[t].manager, 0, r, request[t].settled)
      BY <2>0, <2>9, RegisterRunMoves
    <3>2. UNCHANGED <<manager, catalog, driven, history>> /\ request[t].at = "use"
      BY <2>9 DEF RegisterRun
    <3>3. r \in RunIds
      BY DEF FreeIds
    <3>4. /\ runs' \in [Threads -> SUBSET RunIds]
          /\ r \in runs'[request[t].manager]
          /\ \A m \in Threads : runs[m] \subseteq runs'[m]
      BY <3>1, <3>2, <3>3
    <3> QED
      BY <3>1, <3>2, <3>4
  <2>10. CASE UNCHANGED vars
    BY <2>10 DEF vars
  <2> QED
    BY <2>1, <2>2, <2>3, <2>4, <2>5, <2>6, <2>7, <2>8, <2>9, <2>10 DEF Next
<1> QED
  BY <1>2, <1>4 DEF TypeOK, Using

LEMMA ManagerNext == ASSUME IInv, [Next]_vars PROVE ManagerInv'
<1> USE RegistryAssumption DEF ManagerInv, Moved, MovedTo, Dropped, managers, history
<1>1. RequestsOK /\ ManagerInv /\ manager \in Threads \union {NoManager}
  BY DEF IInv, TypeOK
<1>2. ASSUME NEW t \in Threads, Arrive(t) PROVE ManagerInv'
  <2>1. UNCHANGED managers /\ request[t].at = "idle"
    BY <1>2 DEF Arrive
  <2>2. request'[t].at = "check" /\ request'[t].manager = request[t].manager
    BY <1>1, <1>2, ArriveMoves
  <2>3. \A u \in Threads : u # t => request'[u] = request[u]
    BY <1>1, <1>2, ArriveMoves
  <2> QED
    BY <1>1, <2>1, <2>2, <2>3
<1>3. ASSUME NEW t \in Threads, CheckManager(t) PROVE ManagerInv'
  BY <1>1, <1>3, CheckManagerMoves DEF CheckManager
<1>4. ASSUME NEW t \in Threads, MakeManager(t) PROVE ManagerInv'
  <2>1. /\ manager' = t /\ UNCHANGED <<catalog, runs>>
        /\ request[t].at = "make" /\ \A u \in Threads : request[u].manager # t
    BY <1>1, <1>4, MakeResetsNothing DEF MakeManager
  <2>2. MovedTo(t, "take")
    BY <1>1, <1>4, MakeManagerMoves
  <2> QED
    BY <1>1, <2>1, <2>2
<1>5. ASSUME NEW t \in Threads,
             AnswerAtOnce(t) \/ SendScenarios(t) \/ LaunchRun(t) \/ FailLaunch(t) \/ FailFill(t)
      PROVE  ManagerInv'
  <2>1. Dropped(t) /\ UNCHANGED <<manager, catalog, runs>>
    BY <1>1, <1>5, Drops DEF AnswerAtOnce, SendScenarios, LaunchRun, FailLaunch, FailFill
  <2> QED
    BY <1>1, <2>1
<1>6. ASSUME NEW t \in Threads, TakeManager(t) PROVE ManagerInv'
  <2>1. UNCHANGED managers /\ request[t].at = "take"
    BY <1>6 DEF TakeManager
  <2>2. Moved(t, "look", manager, 0, request[t].run, request[t].settled)
    BY <1>1, <1>6, TakeManagerMoves
  <2> QED
    BY <1>1, <2>1, <2>2
<1>7. ASSUME NEW t \in Threads, LookAtCatalog(t) PROVE ManagerInv'
  BY <1>1, <1>7, LookAtCatalogMoves DEF LookAtCatalog
<1>8. ASSUME NEW t \in Threads, FillCatalog(t) PROVE ManagerInv'
  <2>1. /\ UNCHANGED <<manager, runs>> /\ request[t].at = "fill"
        /\ \A m \in Threads : m # request[t].manager => catalog'[m] = catalog[m]
    BY <1>8 DEF FillCatalog, IInv, TypeOK
  <2>2. request'[t].manager = request[t].manager /\ request'[t].at \in {"fill", "use"}
    BY <1>1, <1>8, FillCatalogMoves
  <2>3. \A u \in Threads : u # t => request'[u] = request[u]
    BY <1>1, <1>8, FillCatalogMoves
  <2> QED
    BY <1>1, <2>1, <2>2, <2>3
<1>9. ASSUME NEW t \in Threads, RegisterRun(t) PROVE ManagerInv'
  <2>1. PICK r \in FreeIds :
          /\ runs' = [runs EXCEPT ![request[t].manager] = @ \union {r}]
          /\ Moved(t, "launch", request[t].manager, 0, r, request[t].settled)
    BY <1>1, <1>9, RegisterRunMoves
  <2>2. /\ UNCHANGED <<manager, catalog>> /\ request[t].at = "use"
        /\ \A m \in Threads : m # request[t].manager => runs'[m] = runs[m]
    BY <1>9, <2>1 DEF RegisterRun, IInv, TypeOK
  <2> QED
    BY <1>1, <2>1, <2>2
<1>10. CASE UNCHANGED vars
  BY <1>1, <1>10 DEF vars
<1> QED
  BY <1>2, <1>3, <1>4, <1>5, <1>6, <1>7, <1>8, <1>9, <1>10 DEF Next

\* Runs are never forgotten.
LEMMA RunsKept == ASSUME IInv, [Next]_vars PROVE \A m \in Threads : runs[m] \subseteq runs'[m]
<1>1. ASSUME NEW t \in Threads, MakeManager(t) PROVE UNCHANGED runs
  BY <1>1, MakeResetsNothing
<1>2. ASSUME NEW t \in Threads, RegisterRun(t)
      PROVE  \A m \in Threads : runs[m] \subseteq runs'[m]
  BY <1>2 DEF RegisterRun, IInv, TypeOK
<1>3. ASSUME NEW t \in Threads,
             \/ Arrive(t) \/ CheckManager(t) \/ AnswerAtOnce(t) \/ TakeManager(t)
             \/ LookAtCatalog(t) \/ FillCatalog(t) \/ SendScenarios(t)
             \/ LaunchRun(t) \/ FailLaunch(t) \/ FailFill(t)
      PROVE  UNCHANGED runs
  BY <1>3 DEF Arrive, CheckManager, AnswerAtOnce, TakeManager, LookAtCatalog, FillCatalog,
              SendScenarios, LaunchRun, FailLaunch, FailFill, managers
<1>4. CASE UNCHANGED vars
  BY <1>4 DEF vars, managers
<1> QED
  BY <1>1, <1>2, <1>3, <1>4 DEF Next

LEMMA FoundNext == ASSUME IInv, [Next]_vars PROVE SettledInv' /\ AcceptedIsFound'
<1> DEFINE Known(t) == request[t].settled =>
                         Settled /\ (request[t].at \in Using => request[t].manager = manager)
           SureInv  == (sure # {} => Settled) /\ sure \subseteq (IF manager = NoManager THEN {} ELSE runs[manager])
           Kept     == accepted \subseteq driven \intersect UNION {runs[m] : m \in Threads}
<1>1. RequestsOK /\ (\A t \in Threads : Known(t)) /\ SureInv /\ Kept
  BY DEF IInv, SettledInv, AcceptedIsFound
<1>2. Settled => Settled' /\ manager' = manager /\ manager # NoManager
  BY SettledStays DEF Settled
<1>3. ASSUME NEW t \in Threads, request'[t] = request[t] PROVE Known(t)'
  BY <1>1, <1>2, <1>3
<1>4. ASSUME NEW t \in Threads, request'[t].settled = request[t].settled,
             request'[t].manager = request[t].manager,
             request'[t].at \in Using => request[t].at \in Using
      PROVE  Known(t)'
  BY <1>1, <1>2, <1>4
<1>5. (\A t \in Threads : Known(t))'
  <2> USE <1>1 DEF Moved, MovedTo, Dropped, Using
  <2>1. ASSUME NEW t \in Threads, Arrive(t) PROVE \A u \in Threads : Known(u)'
    BY <2>1, <1>2, <1>3, ArriveMoves DEF Settled
  <2>2. ASSUME NEW t \in Threads, CheckManager(t) PROVE \A u \in Threads : Known(u)'
    BY <2>2, <1>3, <1>4, CheckManagerMoves
  <2>3. ASSUME NEW t \in Threads, MakeManager(t) PROVE \A u \in Threads : Known(u)'
    BY <2>3, <1>3, <1>4, MakeManagerMoves
  <2>4. ASSUME NEW t \in Threads,
               AnswerAtOnce(t) \/ SendScenarios(t) \/ LaunchRun(t) \/ FailLaunch(t) \/ FailFill(t)
        PROVE  \A u \in Threads : Known(u)'
    BY <2>4, <1>3, Drops
  <2>5. ASSUME NEW t \in Threads, TakeManager(t) PROVE \A u \in Threads : Known(u)'
    <3>1. Moved(t, "look", manager, 0, request[t].run, request[t].settled)
      BY <2>5, TakeManagerMoves DEF IInv, TypeOK
    <3> QED
      BY <3>1, <1>2, <1>3
  <2>6. ASSUME NEW t \in Threads, LookAtCatalog(t) PROVE \A u \in Threads : Known(u)'
    BY <2>6, <1>3, <1>4, LookAtCatalogMoves DEF LookAtCatalog
  <2>7. ASSUME NEW t \in Threads, FillCatalog(t) PROVE \A u \in Threads : Known(u)'
    BY <2>7, <1>3, <1>4, FillCatalogMoves DEF FillCatalog
  <2>8. ASSUME NEW t \in Threads, RegisterRun(t) PROVE \A u \in Threads : Known(u)'
    BY <2>8, <1>3, <1>4, RegisterRunMoves DEF RegisterRun
  <2>9. CASE UNCHANGED vars
    BY <2>9, <1>3 DEF vars
  <2> QED
    BY <2>1, <2>2, <2>3, <2>4, <2>5, <2>6, <2>7, <2>8, <2>9 DEF Next
<1>6. ASSUME NEW t \in Threads, LaunchRun(t) PROVE SureInv' /\ Kept'
  <2>1. /\ request[t].at = "launch" /\ UNCHANGED <<manager, runs>>
        /\ driven' = driven \union {request[t].run}
        /\ accepted' = accepted \union {request[t].run}
        /\ sure' = sure \union {r \in {request[t].run} : request[t].settled}
    BY <1>6 DEF LaunchRun
  <2>2. request[t].run \in runs[request[t].manager] /\ request[t].manager \in Threads
    BY <2>1 DEF IInv, TypeOK
  <2>3. request[t].settled => Settled /\ request[t].manager = manager
    BY <1>1, <2>1 DEF Using
  <2>4. Kept'
    BY <1>1, <2>1, <2>2
  <2>5. SureInv'
    BY <1>1, <1>2, <2>1, <2>2, <2>3
  <2> QED
    BY <2>4, <2>5
<1>7. ASSUME UNCHANGED <<driven, accepted, sure>> PROVE SureInv' /\ Kept'
  <2>1. Kept'
    BY <1>1, <1>7, RunsKept
  <2>2. SureInv'
    BY <1>1, <1>2, <1>7, RunsKept DEF IInv, TypeOK
  <2> QED
    BY <2>1, <2>2
<1>8. UNCHANGED <<driven, accepted, sure>> \/ \E t \in Threads : LaunchRun(t)
  BY DEF Next, vars, managers, history, Arrive, CheckManager, MakeManager, AnswerAtOnce,
         TakeManager, LookAtCatalog, FillCatalog, SendScenarios, RegisterRun, FailLaunch, FailFill
<1> QED
  BY <1>5, <1>6, <1>7, <1>8 DEF SettledInv, AcceptedIsFound

LEMMA INext == IInv /\ [Next]_vars => IInv'
BY TypeNext, RequestsNext, ManagerNext, FoundNext DEF IInv

LEMMA Invariance == Spec => []IInv
BY IInit, INext, PTL DEF Spec

\* The state of the registry has its types, and a request that needs a manager
\* has one.
THEOREM TypeCorrect == Spec => []TypeOK
BY Invariance, PTL DEF IInv

\* Whatever threads race to make the manager: an accepted run is driven and kept
\* by a manager, and one whose request came after the race is in the manager
\* that all later requests get.
THEOREM AcceptedRunsAreFound == Spec => []AcceptedIsFound
BY Invariance, PTL DEF IInv

-----------------------------------------------------------------------------
(* Every catalog that is used is whole. *)

\* What a filler adds is the next scenario.
LEMMA FillAppends ==
  ASSUME IInv, NEW t \in Threads, FillCatalog(t)
  PROVE  LET m    == request[t].manager
             next == request[t].filled + 1
         IN  /\ m \in Threads /\ next \in 1..Len(Faults) /\ request[t].at = "fill"
             /\ \A n \in Threads : n # m => catalog'[n] = catalog[n]
             /\ catalog'[m] = Append(catalog[m], Faults[next])
             /\ catalog[m] \in Seq(FaultSet) /\ Faults[next] \in FaultSet
             /\ UNCHANGED <<overlapped, abandoned>>
<1>1. request[t].at = "fill" /\ request[t].manager \in Threads
  BY DEF FillCatalog, IInv, TypeOK
<1>2. request[t].filled + 1 \in 1..Len(Faults)
  BY RequestType, FaultsType DEF IInv
<1>3. catalog \in [Threads -> Seq(FaultSet)]
  BY DEF IInv, TypeOK
<1> QED
  BY <1>1, <1>2, <1>3, FaultsType DEF FillCatalog, history

\* A step of a request that neither fills a catalog nor comes to use one leaves
\* the fillings alone.
LEMMA QuietStep ==
  ASSUME FillInv, OnceInv, UNCHANGED <<catalog, overlapped, abandoned>>, NEW t \in Threads,
         request[t].at # "fill", request'[t].at \notin {"fill", "use"},
         \A u \in Threads : u # t => request'[u] = request[u]
  PROVE  FillInv' /\ OnceInv'
<1>1. \A m \in Threads : Filling(m)' = Filling(m)
  BY DEF Filling
<1>2. FillInv'
  <2>1. \A m \in Threads : \A u \in Filling(m) : request'[u] = request[u]
    BY DEF Filling
  <2> QED
    BY <1>1, <2>1 DEF FillInv, Listed
<1>3. OnceInv'
  <2> SUFFICES ASSUME NEW m \in Threads, m \notin overlapped
               PROVE  (/\ Len(catalog[m]) <= Len(Faults)
                       /\ \A i \in 1..Len(catalog[m]) : catalog[m][i] = Faults[i]
                       /\ \A u \in Filling(m) : Len(catalog[m]) = request[u].filled
                       /\ \A u, v \in Filling(m) : u = v
                       /\ Filling(m) = {} /\ m \notin abandoned => Len(catalog[m]) \in {0, Len(Faults)})'
    BY DEF OnceInv
  <2>1. \A u \in Filling(m) : request'[u] = request[u]
    BY DEF Filling
  <2> QED
    BY <1>1, <2>1 DEF OnceInv
<1> QED
  BY <1>2, <1>3

LEMMA LookNext ==
  ASSUME IInv, FillInv, OnceInv, NEW t \in Threads, LookAtCatalog(t)
  PROVE  FillInv' /\ OnceInv'
<1> DEFINE m == request[t].manager
           empty == catalog[m] = <<>>
<1>1. /\ request[t].at = "look" /\ UNCHANGED <<catalog, abandoned>> /\ request[t].filled = 0
      /\ overlapped' = overlapped \union {n \in {m} : empty /\ Filling(m) # {}}
      /\ m \in Threads
  BY DEF LookAtCatalog, IInv, TypeOK, RequestsOK, managers
<1>2. MovedTo(t, IF empty THEN "fill" ELSE "use")
  BY LookAtCatalogMoves DEF IInv
<1>3. \A u \in Threads : u # t => request'[u] = request[u]
  BY <1>2 DEF MovedTo, Moved
<1>4. CASE empty
  <2>1. request'[t].at = "fill" /\ request'[t].filled = 0 /\ request'[t].manager = m
    BY <1>1, <1>2, <1>4 DEF MovedTo, Moved
  <2>2. \A n \in Threads : Filling(n)' = IF n = m THEN Filling(n) \union {t} ELSE Filling(n)
    BY <1>1, <1>3, <2>1 DEF Filling
  <2>22. \A n \in Threads : \A u \in Filling(n) : request'[u] = request[u]
    BY <1>1, <1>3 DEF Filling
  <2>3. FillInv'
    <3> SUFFICES ASSUME NEW u \in Threads
                 PROVE  (/\ request[u].at = "fill" =>
                              \A i \in 1..request[u].filled : Listed(catalog[request[u].manager], Faults[i])
                         /\ catalog[u] # <<>> /\ u \notin abandoned
                            /\ (\A v \in Filling(u) : request[v].filled = 0) =>
                              \A f \in FaultSet : Listed(catalog[u], f)
                         /\ request[u].at = "use" => catalog[request[u].manager] # <<>>)'
      BY DEF FillInv
    <3>1. CASE u = t
      BY <1>1, <1>3, <1>4, <2>1, <2>2, <2>22, <3>1 DEF FillInv
    <3>2. CASE u # t
      BY <1>1, <1>3, <1>4, <2>2, <2>22, <3>2 DEF FillInv
    <3> QED
      BY <3>1, <3>2
  <2>4. ASSUME NEW n \in Threads, n \notin overlapped'
        PROVE  (/\ Len(catalog[n]) <= Len(Faults)
                /\ \A i \in 1..Len(catalog[n]) : catalog[n][i] = Faults[i]
                /\ \A u \in Filling(n) : Len(catalog[n]) = request[u].filled
                /\ \A u, v \in Filling(n) : u = v
                /\ Filling(n) = {} /\ n \notin abandoned => Len(catalog[n]) \in {0, Len(Faults)})'
    <3>1. CASE n = m
      <4>1. Filling(n) = {}
        BY <1>1, <1>4, <2>4, <3>1
      <4>2. Filling(n)' = {t} /\ catalog'[n] = <<>>
        BY <1>1, <1>4, <2>2, <3>1, <4>1
      <4>3. Len(catalog'[n]) = 0
        BY <4>2
      <4> HIDE DEF m
      <4> QED
        BY <2>1, <4>2, <4>3, FaultsType
    <3>2. CASE n # m
      <4>1. Filling(n)' = Filling(n) /\ n \notin overlapped
        BY <1>1, <2>2, <2>4, <3>2
      <4>2. \A u \in Filling(n) : request'[u] = request[u]
        BY <1>1, <1>3 DEF Filling
      <4> QED
        BY <1>1, <4>1, <4>2 DEF OnceInv
    <3> QED
      BY <3>1, <3>2
  <2> QED
    BY <2>3, <2>4 DEF OnceInv
<1>5. CASE ~empty
  <2>1. request'[t].at = "use" /\ request'[t].manager = m /\ overlapped' = overlapped
    BY <1>1, <1>2, <1>5 DEF MovedTo, Moved
  <2>2. \A n \in Threads : Filling(n)' = Filling(n)
    BY <1>1, <1>3, <2>1 DEF Filling
  <2>4. \A n \in Threads : \A u \in Filling(n) : request'[u] = request[u]
    BY <1>1, <1>3 DEF Filling
  <2>3. FillInv'
    BY <1>1, <1>3, <1>5, <2>1, <2>2, <2>4 DEF FillInv, Listed
  <2>5. OnceInv'
    BY <1>1, <2>1, <2>2, <2>4 DEF OnceInv
  <2> QED
    BY <2>3, <2>5
<1> QED
  BY <1>4, <1>5

LEMMA FillNext ==
  ASSUME IInv, FillInv, OnceInv, NEW t \in Threads, FillCatalog(t)
  PROVE  FillInv' /\ OnceInv'
<1>0. PICK m \in Threads : m = request[t].manager
  BY FillAppends
<1>00. PICK next \in 1..Len(Faults) : next = request[t].filled + 1
  BY FillAppends
<1>1. /\ request[t].at = "fill" /\ UNCHANGED <<overlapped, abandoned>>
      /\ \A n \in Threads : n # m => catalog'[n] = catalog[n]
      /\ catalog'[m] = Append(catalog[m], Faults[next])
      /\ catalog[m] \in Seq(FaultSet) /\ Faults[next] \in FaultSet
  BY <1>0, <1>00, FillAppends
<1>2. /\ Len(catalog'[m]) = Len(catalog[m]) + 1 /\ Len(catalog[m]) \in Nat
      /\ \A i \in 1..Len(catalog[m]) : catalog'[m][i] = catalog[m][i]
      /\ catalog'[m][Len(catalog[m]) + 1] = Faults[next]
      /\ DOMAIN catalog[m] = 1..Len(catalog[m])
      /\ DOMAIN catalog'[m] = 1..(Len(catalog[m]) + 1)
  BY <1>1
<1>3. /\ request'[t].manager = m
      /\ IF next = Len(Faults) THEN request'[t].at = "use" /\ request'[t].filled = 0
         ELSE request'[t].at = "fill" /\ request'[t].filled = next
      /\ \A u \in Threads : u # t => request'[u] = request[u]
  BY <1>0, <1>00, FillCatalogMoves DEF Moved, IInv
<1>4. /\ \A n \in Threads : \A f \in FaultSet : Listed(catalog[n], f) => Listed(catalog'[n], f)
      /\ Listed(catalog'[m], Faults[next])
  <2>1. \A n \in Threads : n # m =>
          (\A f \in FaultSet : Listed(catalog[n], f) => Listed(catalog'[n], f))
    BY <1>1
  <2>2. \A f \in FaultSet : Listed(catalog[m], f) => Listed(catalog'[m], f)
    BY <1>2 DEF Listed
  <2>3. Listed(catalog'[m], Faults[next])
    BY <1>2 DEF Listed
  <2> QED
    BY <2>1, <2>2, <2>3
<1>5. \A i \in 1..next : Listed(catalog'[m], Faults[i])
  <2>1. \A i \in 1..(next - 1) : Listed(catalog[m], Faults[i])
    BY <1>0, <1>00, <1>1, FaultsType, RequestType DEF FillInv, IInv
  <2> QED
    BY <1>4, <2>1, FaultsType
<1>6. \A n \in Threads : Filling(n)' = IF n = m /\ next = Len(Faults) THEN Filling(n) \ {t} ELSE Filling(n)
  BY <1>0, <1>1, <1>3 DEF Filling
<1>7. FillInv'
  <2>1. ASSUME NEW u \in Threads, request'[u].at = "fill",
               NEW i \in 1..request'[u].filled
        PROVE  Listed(catalog'[request'[u].manager], Faults[i])
    <3>1. CASE u = t
      BY <1>3, <1>5, <2>1, <3>1
    <3>2. CASE u # t
      <4>1. request'[u] = request[u] /\ request[u].at = "fill" /\ i \in 1..request[u].filled
        BY <1>3, <2>1, <3>2
      <4>11. request[u].manager \in Threads /\ request[u].filled \in 0..(Len(Faults) - 1)
        BY <4>1 DEF IInv, TypeOK
      <4>12. i \in 1..Len(Faults)
        BY <4>1, <4>11, FaultsType
      <4>2. Listed(catalog[request[u].manager], Faults[i])
        BY <4>1 DEF FillInv
      <4> QED
        BY <1>4, <4>1, <4>11, <4>12, <4>2, FaultsType
    <3> QED
      BY <3>1, <3>2
  <2>2. ASSUME NEW n \in Threads, catalog'[n] # <<>>, n \notin abandoned,
               \A u \in Filling(n)' : request'[u].filled = 0, NEW f \in FaultSet
        PROVE  Listed(catalog'[n], f)
    <3>1. CASE n = m /\ next = Len(Faults)
      <4>1. PICK i \in 1..Len(Faults) : f = Faults[i]
        BY FaultsType DEF FaultSet
      <4> QED
        BY <1>5, <3>1, <4>1
    <3>2. CASE n = m /\ next # Len(Faults)
      <4>1. t \in Filling(n)' /\ request'[t].filled = next
        BY <1>0, <1>1, <1>3, <1>6, <3>2 DEF Filling
      <4> QED
        BY <2>2, <4>1, FaultsType
    <3>3. CASE n # m
      <4>0. \A u \in Filling(n) : request'[u] = request[u]
        BY <1>0, <1>3, <3>3 DEF Filling
      <4>1. catalog[n] # <<>> /\ \A u \in Filling(n) : request[u].filled = 0
        BY <1>1, <1>6, <2>2, <3>3, <4>0
      <4>2. Listed(catalog[n], f)
        BY <2>2, <4>1 DEF FillInv
      <4> QED
        BY <1>4, <4>2
    <3> QED
      BY <3>1, <3>2, <3>3
  <2>3. ASSUME NEW u \in Threads, request'[u].at = "use"
        PROVE  catalog'[request'[u].manager] # <<>>
    <3>1. catalog'[m] # <<>>
      BY <1>2
    <3>2. request'[u].manager = m \/ (u # t /\ request'[u] = request[u])
      BY <1>3
    <3>3. u # t /\ request'[u] = request[u] => request[u].manager \in Threads /\ catalog[request[u].manager] # <<>>
      BY <2>3 DEF FillInv, IInv, TypeOK
    <3> QED
      BY <1>1, <3>1, <3>2, <3>3
  <2> QED
    BY <1>1, <2>1, <2>2, <2>3 DEF FillInv
<1>8. OnceInv'
  <2> SUFFICES ASSUME NEW n \in Threads, n \notin overlapped
               PROVE  (/\ Len(catalog[n]) <= Len(Faults)
                       /\ \A i \in 1..Len(catalog[n]) : catalog[n][i] = Faults[i]
                       /\ \A u \in Filling(n) : Len(catalog[n]) = request[u].filled
                       /\ \A u, v \in Filling(n) : u = v
                       /\ Filling(n) = {} /\ n \notin abandoned => Len(catalog[n]) \in {0, Len(Faults)})'
    BY <1>1 DEF OnceInv
  <2>1. CASE n = m
    <3>1. t \in Filling(n) /\ \A u \in Filling(n) : u = t
      BY <1>0, <1>1, <2>1 DEF OnceInv, Filling
    <3>2. Len(catalog[n]) + 1 = next
      BY <1>00, <3>1, FaultsType, RequestType DEF OnceInv, IInv
    <3>3. Len(catalog'[n]) = next /\ \A i \in 1..next : catalog'[n][i] = Faults[i]
      BY <1>2, <2>1, <3>2 DEF OnceInv
    <3>4. Filling(n)' = IF next = Len(Faults) THEN {} ELSE {t}
      BY <1>6, <2>1, <3>1
    <3>5. CASE next = Len(Faults)
      BY <3>3, <3>4, <3>5, FaultsType
    <3>6. CASE next # Len(Faults)
      <4>1. Filling(n)' = {t}
        BY <3>4, <3>6
      <4>2. request'[t].filled = next
        BY <1>3, <3>6
      <4>3. Len(catalog'[n]) = next /\ next <= Len(Faults)
        BY <3>3, FaultsType
      <4> QED
        BY <3>3, <4>1, <4>2, <4>3
    <3> QED
      BY <3>5, <3>6
  <2>2. CASE n # m
    <3>1. Filling(n)' = Filling(n) /\ \A u \in Filling(n) : request'[u] = request[u]
      BY <1>0, <1>3, <1>6, <2>2 DEF Filling
    <3> QED
      BY <1>1, <2>2, <3>1 DEF OnceInv
  <2> QED
    BY <2>1, <2>2
<1> QED
  BY <1>7, <1>8

\* A request that fails before it has listed anything leaves the catalog to the
\* others; one that fails later has abandoned it.
LEMMA FailFillNext ==
  ASSUME IInv, FillInv, OnceInv, NEW t \in Threads, FailFill(t)
  PROVE  FillInv' /\ OnceInv'
<1>0. PICK m \in Threads : m = request[t].manager
  BY DEF FailFill, IInv, TypeOK
<1>1. /\ request[t].at = "fill" /\ UNCHANGED <<catalog, overlapped>>
      /\ abandoned' = abandoned \union {n \in {m} : request[t].filled > 0}
  BY <1>0 DEF FailFill, managers
<1>2. Dropped(t) /\ request[t].filled \in Nat
  BY Drops, RequestType DEF IInv
<1>3. request'[t].at = "idle" /\ \A u \in Threads : u # t => request'[u] = request[u]
  BY <1>2 DEF Dropped, Moved
<1>4. \A n \in Threads : Filling(n)' = IF n = m THEN Filling(n) \ {t} ELSE Filling(n)
  BY <1>0, <1>1, <1>3 DEF Filling
<1>5. \A n \in Threads : \A u \in Filling(n) : u # t => request'[u] = request[u]
  BY <1>3 DEF Filling
<1>6. \A n \in Threads : n # m => t \notin Filling(n)
  BY <1>0 DEF Filling
<1>7. FillInv'
  <2>1. ASSUME NEW u \in Threads
        PROVE  (/\ request[u].at = "fill" =>
                     \A i \in 1..request[u].filled : Listed(catalog[request[u].manager], Faults[i])
                /\ request[u].at = "use" => catalog[request[u].manager] # <<>>)'
    BY <1>1, <1>3 DEF FillInv, Listed
  <2>2. ASSUME NEW n \in Threads, catalog[n] # <<>>, n \notin abandoned',
               \A u \in Filling(n)' : request'[u].filled = 0
        PROVE  \A f \in FaultSet : Listed(catalog[n], f)
    <3>1. n = m => request[t].filled = 0
      BY <1>1, <1>2, <2>2
    <3>2. \A u \in Filling(n) : request[u].filled = 0
      BY <1>4, <1>5, <1>6, <2>2, <3>1
    <3> QED
      BY <1>1, <2>2, <3>2 DEF FillInv
  <2> QED
    BY <1>1, <2>1, <2>2 DEF FillInv, Listed
<1>8. OnceInv'
  <2> SUFFICES ASSUME NEW n \in Threads, n \notin overlapped
               PROVE  (/\ Len(catalog[n]) <= Len(Faults)
                       /\ \A i \in 1..Len(catalog[n]) : catalog[n][i] = Faults[i]
                       /\ \A u \in Filling(n) : Len(catalog[n]) = request[u].filled
                       /\ \A u, v \in Filling(n) : u = v
                       /\ Filling(n) = {} /\ n \notin abandoned => Len(catalog[n]) \in {0, Len(Faults)})'
    BY <1>1 DEF OnceInv
  <2>1. CASE n = m
    <3>1. t \in Filling(n)
      BY <1>0, <1>1, <2>1 DEF Filling
    <3>2. Filling(n)' = {} /\ Len(catalog[n]) = request[t].filled
      BY <1>4, <2>1, <3>1 DEF OnceInv
    <3>3. n \notin abandoned' => Len(catalog[n]) = 0
      BY <1>1, <1>2, <2>1, <3>2
    <3> QED
      BY <1>1, <3>2, <3>3 DEF OnceInv
  <2>2. CASE n # m
    <3>1. Filling(n)' = Filling(n) /\ \A u \in Filling(n) : request'[u] = request[u]
      BY <1>4, <1>5, <1>6, <2>2
    <3>2. n \in abandoned' <=> n \in abandoned
      BY <1>1, <2>2
    <3> QED
      BY <1>1, <3>1, <3>2 DEF OnceInv
  <2> QED
    BY <2>1, <2>2
<1> QED
  BY <1>7, <1>8

LEMMA CatalogInit == Init => CatalogInv
<1> SUFFICES ASSUME Init PROVE CatalogInv
  OBVIOUS
<1>1. \A t \in Threads : request[t].at = "idle" /\ catalog[t] = <<>>
  BY DEF Init, NoRequest
<1>2. \A t \in Threads : Filling(t) = {} /\ Len(catalog[t]) = 0
  BY <1>1 DEF Filling
<1> QED
  BY <1>1, <1>2, IInit, FaultsType DEF CatalogInv, FillInv, OnceInv

LEMMA CatalogNext == CatalogInv /\ [Next]_vars => CatalogInv'
<1> SUFFICES ASSUME IInv, FillInv, OnceInv, [Next]_vars
             PROVE  FillInv' /\ OnceInv'
  BY INext DEF CatalogInv
<1> USE DEF Moved, MovedTo, Dropped, managers, history
<1>0. RequestsOK
  BY DEF IInv
<1>1. ASSUME NEW t \in Threads, Arrive(t) PROVE FillInv' /\ OnceInv'
  BY <1>0, <1>1, ArriveMoves, QuietStep DEF Arrive
<1>2. ASSUME NEW t \in Threads, CheckManager(t) PROVE FillInv' /\ OnceInv'
  BY <1>0, <1>2, CheckManagerMoves, QuietStep DEF CheckManager
<1>3. ASSUME NEW t \in Threads, MakeManager(t) PROVE FillInv' /\ OnceInv'
  <2>1. UNCHANGED <<catalog, overlapped, abandoned>> /\ request[t].at = "make"
    BY <1>3, MakeResetsNothing DEF MakeManager
  <2> QED
    BY <1>0, <1>3, <2>1, MakeManagerMoves, QuietStep
<1>4. ASSUME NEW t \in Threads,
             AnswerAtOnce(t) \/ SendScenarios(t) \/ LaunchRun(t) \/ FailLaunch(t)
      PROVE  FillInv' /\ OnceInv'
  <2>1. UNCHANGED <<catalog, overlapped, abandoned>> /\ request[t].at # "fill"
    BY <1>4 DEF AnswerAtOnce, SendScenarios, LaunchRun, FailLaunch
  <2> QED
    BY <1>0, <1>4, <2>1, Drops, QuietStep
<1>5. ASSUME NEW t \in Threads, TakeManager(t) PROVE FillInv' /\ OnceInv'
  <2>1. UNCHANGED <<catalog, overlapped, abandoned>> /\ request[t].at = "take"
    BY <1>5 DEF TakeManager
  <2>2. Moved(t, "look", manager, 0, request[t].run, request[t].settled)
    BY <1>0, <1>5, TakeManagerMoves DEF IInv, TypeOK
  <2> QED
    BY <2>1, <2>2, QuietStep
<1>6. ASSUME NEW t \in Threads, RegisterRun(t) PROVE FillInv' /\ OnceInv'
  <2>1. UNCHANGED <<catalog, overlapped, abandoned>> /\ request[t].at = "use"
    BY <1>6 DEF RegisterRun
  <2> QED
    BY <1>0, <1>6, <2>1, RegisterRunMoves, QuietStep
<1>7. CASE UNCHANGED vars
  BY <1>7 DEF vars, FillInv, OnceInv, Filling, Listed
<1> QED
  BY <1>1, <1>2, <1>3, <1>4, <1>5, <1>6, <1>7, LookNext, FillNext, FailFillNext DEF Next

LEMMA WholeWhenUsed == CatalogInv => CatalogIsWhole
<1> SUFFICES ASSUME CatalogInv PROVE CatalogIsWhole
  OBVIOUS
<1>0. \A t \in Threads : request[t].at = "use" => request[t].manager \in Threads
  BY DEF CatalogInv, IInv, TypeOK
<1> SUFFICES ASSUME NEW t \in Threads, request[t].at = "use",
                    NEW m \in Threads, m = request[t].manager, Filling(m) = {}, NEW f \in FaultSet
             PROVE  LET listed == {i \in DOMAIN catalog[m] : catalog[m][i] = f} IN
                    /\ m \notin abandoned => listed # {}
                    /\ m \notin overlapped => Cardinality(listed) <= 1
  BY <1>0 DEF CatalogIsWhole
<1> DEFINE listed == {i \in DOMAIN catalog[m] : catalog[m][i] = f}
<1>1. m \notin abandoned => listed # {}
  BY DEF CatalogInv, FillInv, Listed
<1>2. ASSUME m \notin overlapped PROVE Cardinality(listed) <= 1
  <2>1. catalog[m] \in Seq(FaultSet)
    BY DEF CatalogInv, IInv, TypeOK
  <2>2. /\ DOMAIN catalog[m] = 1..Len(catalog[m]) /\ Len(catalog[m]) <= Len(Faults)
        /\ \A i \in 1..Len(catalog[m]) : catalog[m][i] = Faults[i]
    BY <1>2, <2>1 DEF CatalogInv, OnceInv
  <2>3. \A i, j \in listed : i = j
    BY <2>1, <2>2, FaultsType, RegistryAssumption
  <2>4. CASE listed = {}
    <3> HIDE DEF listed
    <3> QED
      BY <2>4, FS_EmptySet
  <2>5. CASE listed # {}
    <3>1. PICK i \in listed : listed = {i}
      BY <2>3, <2>5
    <3> HIDE DEF listed
    <3>2. Cardinality({i}) = 1
      BY FS_Singleton
    <3> QED
      BY <3>1, <3>2
  <2> QED
    BY <2>4, <2>5
<1> QED
  BY <1>1, <1>2

\* Whoever lists the scenarios, or names a run by its fault's title, while no
\* first request is still filling the catalog finds all of them in it unless such a
\* request failed half-way, and none twice unless two of them filled it together.
THEOREM CatalogsAreWhole == Spec => []CatalogIsWhole
BY CatalogInit, CatalogNext, WholeWhenUsed, PTL DEF Spec

\* Once every request that raced to make a manager has done so, the manager is
\* never replaced.
THEOREM ManagerIsKept == Spec => [][Settled => Settled' /\ manager' = manager]_vars
<1>1. IInv /\ [Next]_vars => [Settled => Settled' /\ manager' = manager]_vars
  BY SettledStays
<1> QED
  BY <1>1, Invariance, PTL DEF Spec

=============================================================================
