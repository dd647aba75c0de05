-------------------------- MODULE OperationsProofs --------------------------
(* Proofs about MaintenanceGate, for any finite sets of data workers and   *)
(* of requests; about Restores, for any number of runs, each of which may  *)
(* fail or be killed anywhere, its own undoing included; about CoreLeases, *)
(* for any identities, grace, lease time, bounds on time and on revisions; *)
(* about Exits: what a node leaves through is in the pool, for any         *)
(* addresses, sources and nodes; about Accounts, for any members, links    *)
(* and requests; and about Outbox, for any mails, addresses and workers.   *)
EXTENDS MaintenanceGate, Restores, CoreLeases, Exits, Accounts, Outbox,
        FiniteSetTheorems, TLAPS
-----------------------------------------------------------------------------
(* The gate: its counters, and what was read while the fence was up.       *)

(* The counters count: what is between its Add(1) and its Add(-1).         *)
CountedWorkers == {w \in DataWorkers : crew[w] \in {"counted", "checking", "working"}}
CountedVisits == {v \in GateVisits : visit[v] \in {"counted", "served"}}

Counts == /\ activeWork = Cardinality(CountedWorkers)
          /\ inFlight = Cardinality(CountedVisits)

(* Workers are counted only within a generation, and one that returned     *)
(* while the group still watches met the fence, if the process goes on.    *)
Generations ==
  /\ group \in {"waiting", "ended"} => CountedWorkers = {}
  /\ alive /\ group \in {"starting", "watching"} =>
       skipped \/ \A w \in DataWorkers : crew[w] # "returned"
  /\ group \in {"ending", "ended"} => ~alive

NoWork == \A w \in DataWorkers : crew[w] # "working"
NoVisit == \A v \in GateVisits : visit[v] # "served"

(* What was read stays so: what is checked against the fence after it was  *)
(* raised does not pass, and only what passed begins background jobs.      *)
ReadStaysSo ==
  /\ reading # NoOne \/ acknowledged => fence
  /\ reading \in {"requests", "collecting", "fetching"} => NoWork
  /\ reading \in {"collecting", "fetching"} => NoVisit
  /\ reading = "fetching" => ~collecting
  /\ FrozenIsQuiet

GateInv == GateTypeOK /\ Counts /\ Generations /\ ReadStaysSo
-----------------------------------------------------------------------------
LEMMA CountedAreFinite == IsFiniteSet(CountedWorkers) /\ IsFiniteSet(CountedVisits)
BY GateAssumption, FS_Subset DEF CountedWorkers, CountedVisits

LEMMA GateInitInv == GateInit => GateInv
<1> SUFFICES ASSUME GateInit PROVE GateInv
  OBVIOUS
<1>1. GateTypeOK
  <2>1. crew \in [DataWorkers -> CrewStates] /\ visit \in [GateVisits -> VisitStates]
    BY DEF GateInit, Unstarted, CrewStates, VisitStates
  <2>2. activeWork \in Int /\ inFlight \in Int
    BY DEF GateInit
  <2>3. group \in GroupStates /\ reading \in Readings
    BY DEF GateInit, GroupStates, Readings
  <2> QED
    BY <2>1, <2>2, <2>3 DEF GateInit, GateTypeOK
<1>2. CountedWorkers = {} /\ CountedVisits = {}
  BY DEF GateInit, CountedWorkers, CountedVisits, Unstarted
<1>3. Counts
  BY <1>2, FS_EmptySet DEF GateInit, Counts
<1>4. Generations
  BY <1>2 DEF GateInit, Generations
<1>5. ReadStaysSo
  BY DEF GateInit, ReadStaysSo, FrozenIsQuiet, NoOne
<1> QED
  BY <1>1, <1>3, <1>4, <1>5 DEF GateInv
-----------------------------------------------------------------------------
(* Types.                                                                  *)
LEMMA GateTypeStep == GateTypeOK /\ [GateNext]_GateVars => GateTypeOK'
<1> SUFFICES ASSUME GateTypeOK, [GateNext]_GateVars PROVE GateTypeOK'
  OBVIOUS
<1> USE DEF GateTypeOK, GroupStates, CrewStates, VisitStates, Readings, Unstarted, NoOne
<1> USE DEF WorkVars, VisitVars, JobVars, AskVars
<1>1. CASE BeginGeneration \/ LeaveGroup \/ AllLaunched \/ WatchReturned
             \/ WatchFenced \/ WatchEnds \/ EndGeneration
  BY <1>1 DEF BeginGeneration, LeaveGroup, AllLaunched, WatchReturned, WatchFenced,
              WatchEnds, EndGeneration
<1>2. ASSUME NEW w \in DataWorkers, Return(w) PROVE crew' \in [DataWorkers -> CrewStates]
  BY <1>2 DEF Return
<1>3. ASSUME NEW w \in DataWorkers,
             \/ Launch(w) \/ EnterWork(w) \/ CheckFence(w)
             \/ StopWork(w) \/ FailWork(w) \/ BeginFetch(w)
      PROVE  GateTypeOK'
  <2>1. crew' \in [DataWorkers -> CrewStates]
    BY <1>2, <1>3 DEF Launch, EnterWork, CheckFence, StopWork, FailWork, BeginFetch
  <2>2. activeWork' \in Int
    BY <1>3 DEF Launch, EnterWork, CheckFence, StopWork, FailWork, BeginFetch, Return
  <2>3. skipped' \in BOOLEAN /\ alive' \in BOOLEAN
    BY <1>3 DEF Launch, EnterWork, CheckFence, StopWork, FailWork, BeginFetch
  <2>4. fetching' \in DataWorkers \union {NoOne}
    BY <1>3 DEF Launch, EnterWork, CheckFence, StopWork, FailWork, BeginFetch
  <2>5. UNCHANGED <<fence, group, VisitVars, collecting, AskVars>>
    BY <1>3 DEF Launch, EnterWork, CheckFence, StopWork, FailWork, BeginFetch
  <2> QED
    BY <2>1, <2>2, <2>3, <2>4, <2>5
<1>4. CASE EndFetch \/ BeginCollecting \/ EndCollecting
  BY <1>4 DEF EndFetch, BeginCollecting, EndCollecting
<1>5. ASSUME NEW v \in GateVisits, Arrive(v) \/ Admit(v) \/ Respond(v)
      PROVE  GateTypeOK'
  BY <1>5 DEF Arrive, Admit, Respond, Leave
<1>6. CASE RaiseFence \/ LowerFence \/ AskFrozen \/ StopProcess
  BY <1>6 DEF RaiseFence, LowerFence, AskFrozen, StopProcess
<1>7. CASE ReadActive \/ ReadRequests \/ ReadCollecting \/ Acknowledge
  BY <1>7 DEF ReadActive, ReadRequests, ReadCollecting, Acknowledge, ReadOn
<1>8. CASE RestartProcess
  <2>1. crew' \in [DataWorkers -> CrewStates] /\ visit' \in [GateVisits -> VisitStates]
    BY <1>8 DEF RestartProcess, Boots
  <2>2. activeWork' \in Int /\ inFlight' \in Int
    BY <1>8 DEF RestartProcess, Boots
  <2>3. group' \in GroupStates /\ reading' \in Readings
    BY <1>8 DEF RestartProcess, Boots
  <2>4. /\ alive' \in BOOLEAN /\ skipped' \in BOOLEAN /\ collecting' \in BOOLEAN
        /\ UNCHANGED <<fence, acknowledged>> /\ fetching' \in DataWorkers \union {NoOne}
    BY <1>8 DEF RestartProcess, Boots
  <2> QED
    BY <2>1, <2>2, <2>3, <2>4
<1>9. CASE UNCHANGED GateVars
  BY <1>9 DEF GateVars
<1> QED
  BY <1>1, <1>3, <1>4, <1>5, <1>6, <1>7, <1>8, <1>9 DEF GateNext
-----------------------------------------------------------------------------
(* Counters.                                                               *)
LEMMA CountsKept ==
  ASSUME Counts, UNCHANGED <<crew, activeWork, visit, inFlight>>
  PROVE  Counts'
BY DEF Counts, CountedWorkers, CountedVisits

LEMMA WorkerCounts ==
  ASSUME GateTypeOK, Counts, NEW w \in DataWorkers,
         NEW c \in CrewStates, crew' = [crew EXCEPT ![w] = c],
         activeWork' = activeWork
                         + (IF c \in {"counted", "checking", "working"} THEN 1 ELSE 0)
                         - (IF w \in CountedWorkers THEN 1 ELSE 0),
         UNCHANGED VisitVars
  PROVE  Counts'
<1>1. CountedWorkers' = IF c \in {"counted", "checking", "working"}
                        THEN CountedWorkers \union {w} ELSE CountedWorkers \ {w}
  BY DEF GateTypeOK, CountedWorkers
<1>2. /\ Cardinality(CountedWorkers \union {w}) =
           IF w \in CountedWorkers THEN Cardinality(CountedWorkers)
           ELSE Cardinality(CountedWorkers) + 1
      /\ Cardinality(CountedWorkers \ {w}) =
           IF w \in CountedWorkers THEN Cardinality(CountedWorkers) - 1
           ELSE Cardinality(CountedWorkers)
  BY CountedAreFinite, FS_AddElement, FS_RemoveElement
<1>3. activeWork \in Int /\ activeWork = Cardinality(CountedWorkers)
  BY DEF GateTypeOK, Counts
<1>4. activeWork' = Cardinality(CountedWorkers')
  <2>1. CASE c \in {"counted", "checking", "working"}
    BY <1>1, <1>2, <1>3, <2>1
  <2>2. CASE c \notin {"counted", "checking", "working"}
    BY <1>1, <1>2, <1>3, <2>2
  <2> QED
    BY <2>1, <2>2
<1>5. CountedVisits' = CountedVisits /\ inFlight' = inFlight
  BY DEF VisitVars, CountedVisits
<1> QED
  BY <1>4, <1>5 DEF Counts

LEMMA VisitCounts ==
  ASSUME GateTypeOK, Counts, NEW v \in GateVisits,
         NEW c \in VisitStates, visit' = [visit EXCEPT ![v] = c],
         inFlight' = inFlight + (IF c # "none" THEN 1 ELSE 0)
                       - (IF v \in CountedVisits THEN 1 ELSE 0),
         UNCHANGED WorkVars
  PROVE  Counts'
<1>1. CountedVisits' = IF c # "none" THEN CountedVisits \union {v} ELSE CountedVisits \ {v}
  BY DEF GateTypeOK, CountedVisits, VisitStates
<1>2. /\ Cardinality(CountedVisits \union {v}) =
           IF v \in CountedVisits THEN Cardinality(CountedVisits)
           ELSE Cardinality(CountedVisits) + 1
      /\ Cardinality(CountedVisits \ {v}) =
           IF v \in CountedVisits THEN Cardinality(CountedVisits) - 1
           ELSE Cardinality(CountedVisits)
  BY CountedAreFinite, FS_AddElement, FS_RemoveElement
<1>3. inFlight \in Int /\ inFlight = Cardinality(CountedVisits)
  BY DEF GateTypeOK, Counts
<1>4. inFlight' = Cardinality(CountedVisits')
  <2>1. CASE c # "none"
    BY <1>1, <1>2, <1>3, <2>1
  <2>2. CASE c = "none"
    BY <1>1, <1>2, <1>3, <2>2
  <2> QED
    BY <2>1, <2>2
<1>5. CountedWorkers' = CountedWorkers /\ activeWork' = activeWork
  BY DEF WorkVars, CountedWorkers
<1> QED
  BY <1>4, <1>5 DEF Counts

LEMMA CountsStep ==
  ASSUME GateTypeOK, Counts, Generations, [GateNext]_GateVars
  PROVE  Counts'
<1> USE DEF WorkVars, VisitVars, JobVars, AskVars
<1>1. CASE LeaveGroup \/ AllLaunched \/ WatchReturned \/ WatchFenced \/ WatchEnds
             \/ EndGeneration
  BY <1>1, CountsKept DEF LeaveGroup, AllLaunched, WatchReturned, WatchFenced, WatchEnds,
                          EndGeneration
<1>2. CASE BeginGeneration
  <2>1. CountedWorkers = {} /\ CountedWorkers' = {}
    BY <1>2 DEF BeginGeneration, Generations, CountedWorkers, Unstarted
  <2>2. CountedVisits' = CountedVisits
    BY <1>2 DEF BeginGeneration, CountedVisits
  <2> QED
    BY <1>2, <2>1, <2>2 DEF BeginGeneration, Counts
<1>3. ASSUME NEW w \in DataWorkers, Launch(w) PROVE Counts'
  <2>1. w \notin CountedWorkers
    BY <1>3 DEF Launch, CountedWorkers
  <2>2. activeWork' = activeWork + 1 - 0 /\ "counted" \in CrewStates
    BY <1>3 DEF Launch, GateTypeOK, CrewStates
  <2> QED
    BY <1>3, <2>1, <2>2, WorkerCounts DEF Launch
<1>4. ASSUME NEW w \in DataWorkers, NEW c \in {"checking", "working"},
             crew[w] \in {"counted", "checking"}, crew' = [crew EXCEPT ![w] = c],
             UNCHANGED <<activeWork, VisitVars>>
      PROVE  Counts'
  <2>1. w \in CountedWorkers
    BY <1>4 DEF CountedWorkers
  <2>2. activeWork' = activeWork + 1 - 1 /\ c \in CrewStates
    BY <1>4 DEF GateTypeOK, CrewStates
  <2> QED
    BY <1>4, <2>1, <2>2, WorkerCounts
<1>5. ASSUME NEW w \in DataWorkers, Return(w),
             crew[w] \in {"counted", "checking", "working"}, UNCHANGED VisitVars
      PROVE  Counts'
  <2>1. w \in CountedWorkers
    BY <1>5 DEF CountedWorkers
  <2>2. activeWork' = activeWork + 0 - 1 /\ "returned" \in CrewStates
    BY <1>5 DEF Return, GateTypeOK, CrewStates
  <2> QED
    BY <1>5, <2>1, <2>2, WorkerCounts DEF Return
<1>6. ASSUME NEW w \in DataWorkers, EnterWork(w) PROVE Counts'
  BY <1>4, <1>5, <1>6 DEF EnterWork
<1>7. ASSUME NEW w \in DataWorkers, CheckFence(w) PROVE Counts'
  BY <1>4, <1>5, <1>7 DEF CheckFence
<1>8. ASSUME NEW w \in DataWorkers, StopWork(w) \/ FailWork(w) PROVE Counts'
  BY <1>5, <1>8 DEF StopWork, FailWork
<1>9. ASSUME NEW w \in DataWorkers, BeginFetch(w) PROVE Counts'
  BY <1>9, CountsKept DEF BeginFetch
<1>10. CASE EndFetch \/ BeginCollecting \/ EndCollecting \/ RaiseFence \/ LowerFence
              \/ AskFrozen \/ ReadActive \/ ReadRequests \/ ReadCollecting \/ Acknowledge
              \/ StopProcess
  BY <1>10, CountsKept DEF EndFetch, BeginCollecting, EndCollecting, RaiseFence, LowerFence,
     AskFrozen, ReadActive, ReadRequests, ReadCollecting, Acknowledge, StopProcess
<1>11. ASSUME NEW v \in GateVisits, Arrive(v) PROVE Counts'
  <2>1. v \notin CountedVisits
    BY <1>11 DEF Arrive, CountedVisits
  <2>2. inFlight' = inFlight + 1 - 0 /\ "counted" \in VisitStates
    BY <1>11 DEF Arrive, GateTypeOK, VisitStates
  <2> QED
    BY <1>11, <2>1, <2>2, VisitCounts DEF Arrive
<1>12. ASSUME NEW v \in GateVisits, Leave(v), visit[v] \in {"counted", "served"},
              UNCHANGED WorkVars
       PROVE  Counts'
  <2>1. v \in CountedVisits
    BY <1>12 DEF CountedVisits
  <2>2. inFlight' = inFlight + 0 - 1 /\ "none" \in VisitStates
    BY <1>12 DEF Leave, GateTypeOK, VisitStates
  <2> QED
    BY <1>12, <2>1, <2>2, VisitCounts DEF Leave
<1>13. ASSUME NEW v \in GateVisits, Admit(v) \/ Respond(v) PROVE Counts'
  <2>1. CASE Leave(v)
    BY <1>12, <1>13, <2>1 DEF Admit, Respond
  <2>2. CASE ~Leave(v)
    <3>1. visit' = [visit EXCEPT ![v] = "served"] /\ inFlight' = inFlight
          /\ v \in CountedVisits /\ UNCHANGED WorkVars
      BY <1>13, <2>2 DEF Admit, Respond, CountedVisits
    <3>2. inFlight' = inFlight + 1 - 1 /\ "served" \in VisitStates
      BY <3>1 DEF GateTypeOK, VisitStates
    <3> QED
      BY <3>1, <3>2, VisitCounts
  <2> QED
    BY <2>1, <2>2
<1>14. CASE RestartProcess
  <2>1. CountedWorkers' = {} /\ CountedVisits' = {}
    BY <1>14 DEF RestartProcess, Boots, CountedWorkers, CountedVisits, Unstarted
  <2> QED
    BY <1>14, <2>1, FS_EmptySet DEF RestartProcess, Boots, Counts
<1>15. CASE UNCHANGED GateVars
  BY <1>15, CountsKept DEF GateVars
<1> QED
  BY <1>1, <1>2, <1>3, <1>6, <1>7, <1>8, <1>9, <1>10, <1>11, <1>13, <1>14, <1>15
  DEF GateNext
-----------------------------------------------------------------------------
(* Generations.                                                            *)
LEMMA GenerationsStep ==
  ASSUME GateTypeOK, Generations, [GateNext]_GateVars
  PROVE  Generations'
<1> USE DEF Generations, CountedWorkers, WorkVars, VisitVars, JobVars, AskVars
<1>1. CASE BeginGeneration \/ LeaveGroup \/ AllLaunched \/ WatchFenced \/ WatchEnds
  BY <1>1 DEF BeginGeneration, LeaveGroup, AllLaunched, WatchFenced, WatchEnds, Unstarted
<1>2. CASE WatchReturned
  BY <1>2, GateAssumption DEF WatchReturned, AllReturned
<1>3. CASE EndGeneration
  BY <1>3 DEF EndGeneration, AllReturned
<1>4. ASSUME NEW w \in DataWorkers, Launch(w) \/ EnterWork(w) \/ CheckFence(w)
      PROVE  Generations'
  BY <1>4 DEF Launch, EnterWork, CheckFence, Return, Cancelled, GateTypeOK
<1>5. ASSUME NEW w \in DataWorkers, StopWork(w) \/ FailWork(w) \/ BeginFetch(w)
      PROVE  Generations'
  BY <1>5 DEF StopWork, FailWork, BeginFetch, Return, Cancelled, GateTypeOK
<1>6. CASE EndFetch \/ BeginCollecting \/ EndCollecting \/ RaiseFence \/ LowerFence
             \/ AskFrozen \/ ReadActive \/ ReadRequests \/ ReadCollecting \/ Acknowledge
             \/ StopProcess
  BY <1>6 DEF EndFetch, BeginCollecting, EndCollecting, RaiseFence, LowerFence,
     AskFrozen, ReadActive, ReadRequests, ReadCollecting, Acknowledge, StopProcess
<1>7. ASSUME NEW v \in GateVisits, Arrive(v) \/ Admit(v) \/ Respond(v) PROVE Generations'
  BY <1>7 DEF Arrive, Admit, Respond
<1>8. CASE RestartProcess
  BY <1>8 DEF RestartProcess, Boots, Unstarted
<1>9. CASE UNCHANGED GateVars
  BY <1>9 DEF GateVars
<1> QED
  BY <1>1, <1>2, <1>3, <1>4, <1>5, <1>6, <1>7, <1>8, <1>9 DEF GateNext
-----------------------------------------------------------------------------
(* The answer.                                                             *)
LEMMA ZeroIsQuiet ==
  ASSUME Counts
  PROVE  /\ activeWork = 0 => NoWork
         /\ inFlight = 0 => NoVisit
BY CountedAreFinite, FS_EmptySet DEF Counts, CountedWorkers, CountedVisits, NoWork, NoVisit

LEMMA ReadStaysSoStep ==
  ASSUME GateTypeOK, Counts, ReadStaysSo, [GateNext]_GateVars
  PROVE  ReadStaysSo'
<1> USE DEF ReadStaysSo, FrozenIsQuiet, NoWork, NoVisit, WorkVars, VisitVars, JobVars, AskVars
<1>1. CASE BeginGeneration \/ LeaveGroup \/ AllLaunched \/ WatchReturned
             \/ WatchFenced \/ WatchEnds \/ EndGeneration
  BY <1>1 DEF BeginGeneration, LeaveGroup, AllLaunched, WatchReturned, WatchFenced,
              WatchEnds, EndGeneration, Unstarted
<1>2. ASSUME NEW w \in DataWorkers, Launch(w) \/ EnterWork(w) \/ CheckFence(w)
      PROVE  ReadStaysSo'
  <2>1. fence /\ NoWork => NoWork'
    BY <1>2 DEF Launch, EnterWork, CheckFence, Return, GateTypeOK
  <2>2. UNCHANGED <<fence, VisitVars, JobVars, AskVars>>
    BY <1>2 DEF Launch, EnterWork, CheckFence
  <2> QED
    BY <2>1, <2>2 DEF Readings, NoOne
<1>3. ASSUME NEW w \in DataWorkers, StopWork(w) \/ FailWork(w) \/ BeginFetch(w)
      PROVE  ReadStaysSo'
  BY <1>3 DEF StopWork, FailWork, BeginFetch, Return, GateTypeOK
<1>4. CASE EndFetch \/ BeginCollecting \/ EndCollecting
  BY <1>4 DEF EndFetch, BeginCollecting, EndCollecting
<1>5. ASSUME NEW v \in GateVisits, Arrive(v) \/ Admit(v) \/ Respond(v)
      PROVE  ReadStaysSo'
  BY <1>5 DEF Arrive, Admit, Respond, Leave, GateTypeOK, Readings, NoOne
<1>6. CASE RaiseFence \/ LowerFence \/ AskFrozen \/ StopProcess
  BY <1>6 DEF RaiseFence, LowerFence, AskFrozen, StopProcess, NoOne
<1>7. CASE ReadActive \/ ReadRequests \/ ReadCollecting \/ Acknowledge
  <2>1. CASE ReadActive
    BY <2>1, ZeroIsQuiet DEF ReadActive, ReadOn, NoOne
  <2>2. CASE ReadRequests
    BY <2>2, ZeroIsQuiet DEF ReadRequests, ReadOn, NoOne
  <2>3. CASE ReadCollecting
    BY <2>3 DEF ReadCollecting, ReadOn, NoOne
  <2>4. CASE Acknowledge
    BY <2>4 DEF Acknowledge, NoOne
  <2> QED
    BY <1>7, <2>1, <2>2, <2>3, <2>4
<1>8. CASE RestartProcess
  BY <1>8 DEF RestartProcess, Boots, Unstarted, NoOne
<1>9. CASE UNCHANGED GateVars
  BY <1>9 DEF GateVars
<1> QED
  BY <1>1, <1>2, <1>3, <1>4, <1>5, <1>6, <1>7, <1>8, <1>9 DEF GateNext

(* Every state of MaintenanceGate satisfies its inductive invariant.       *)
THEOREM GateInvariant == GateSpec => []GateInv
<1>1. GateInv /\ [GateNext]_GateVars => GateInv'
  BY GateTypeStep, CountsStep, GenerationsStep, ReadStaysSoStep DEF GateInv
<1> QED
  BY <1>1, GateInitInv, PTL DEF GateSpec

(* Once the panel has called itself frozen, no worker, no request, no      *)
(* fetch and no collection works on its data until the fence is lowered    *)
(* (maintenanceFrozen, maintenanceHandler, maintenanceWorkerGroup).        *)
THEOREM FrozenMeansQuiet == GateSpec => []FrozenIsQuiet
BY GateInvariant, PTL DEF GateInv, ReadStaysSo

(* The group of workers ends only when the process does                    *)
(* (maintenanceWorkerGroup).                                               *)
THEOREM WorkersAlwaysComeBack == GateSpec => []WorkersComeBack
<1>1. GateInv => WorkersComeBack
  BY DEF GateInv, Generations, WorkersComeBack
<1> QED
  BY <1>1, GateInvariant, PTL
-----------------------------------------------------------------------------
(* Restores: where what a run found is at each of its steps.               *)

(* What the run under way found, and what it has done with a file.         *)
Found == before[run]
InPlace(n) == live[n] = Found.live[n] /\ spares[run].live[n] = Gone
Saved(n) ==
  \/ InPlace(n)
  \/ live[n] \in {Gone, run} /\ spares[run].live[n] = Found.live[n]
LogsAgree(tree) ==
  \A n \in Logs : tree[n] = Gone \/ tree["panel.db"] = Gone \/ tree[n] = tree["panel.db"]

FileSteps == {"move", "install", "remove", "return", "copyback"}

(* Contents come from earlier runs, or from the one under way; runs to come*)
(* have put nothing aside.                                                 *)
AgesKept ==
  /\ step # "rest" => run # 0
  /\ database <= run /\ \A n \in RestoredFiles : live[n] <= run
  /\ \A k \in 1 .. run :
       before[k].database < k /\ \A n \in RestoredFiles : before[k].live[n] < k
  /\ \A k \in Runs : k > run =>
       spares[k].database = Gone /\ \A n \in RestoredFiles : spares[k].live[n] = Gone

(* The database, while the run is under way.                               *)
DataPlace ==
  /\ step \in {"snapshot", "copy", "copyback"} => pro
  /\ step \in {"snapshot", "copy"} => database = Found.database
  /\ step = "snapshot" => spares[run].database = Gone
  /\ step = "copy" => spares[run].database = Found.database
  /\ step \in FileSteps =>
       IF pro THEN database = run /\ spares[run].database = Found.database
       ELSE database = Found.database

(* The files.                                                              *)
FilePlace ==
  /\ step \in {"snapshot", "copy"} => \A n \in RestoredFiles : InPlace(n)
  /\ step = "move" => \A n \in RestoredFiles :
       IF n \in todo THEN InPlace(n) /\ live[n] # Gone
       ELSE live[n] = Gone /\ spares[run].live[n] = Found.live[n]
  /\ step = "install" => todo \subseteq Installed
  /\ step = "install" => \A n \in RestoredFiles :
       /\ spares[run].live[n] = Found.live[n]
       /\ live[n] = IF n \in Installed \ todo THEN run ELSE Gone
  /\ step = "remove" => \A n \in RestoredFiles :
       /\ Saved(n)
       /\ n \in todo => live[n] = run
       /\ ~unsure /\ n \notin todo => live[n] # run
  /\ step = "return" => \A n \in RestoredFiles :
       /\ Saved(n)
       /\ n \in todo => spares[run].live[n] # Gone
       /\ ~unsure => live[n] # run /\ (n \notin todo => InPlace(n))
  /\ step = "copyback" => \A n \in RestoredFiles : Saved(n) /\ (~unsure => InPlace(n))

KeptInv == \A k \in 1 .. run : StillKept(before[k])
LogInv ==
  /\ ~unsure => LogsAgree(live)
  /\ ~unsure /\ step # "rest" => LogsAgree(Found.live)
AnswerInv ==
  /\ step # "rest" => answer = "none"
  /\ answer = "restored" =>
       /\ \A n \in Installed : live[n] = run
       /\ \A n \in Logs : live[n] = Gone
       /\ pro => database = run
  /\ answer = "failed" /\ ~unsure =>
       live = Found.live /\ database = Found.database
RestoreInv == RestoresTypeOK /\ AgesKept /\ DataPlace /\ FilePlace /\ KeptInv /\ LogInv /\ AnswerInv
-----------------------------------------------------------------------------
(* A step that takes nothing away keeps what every run found.              *)
LEMMA KeptOn ==
  ASSUME KeptInv, run' = run, before' = before,
         \A n \in RestoredFiles, c \in Contents :
           /\ c < run /\ c # Gone
           /\ live[n] = c \/ \E j \in Runs : spares[j].live[n] = c
           => live'[n] = c \/ \E j \in Runs : spares'[j].live[n] = c,
         \A c \in Contents :
           /\ c < run /\ c # Gone
           /\ database = c \/ \E j \in Runs : spares[j].database = c
           => database' = c \/ \E j \in Runs : spares'[j].database = c,
         AgesKept, RestoresTypeOK
  PROVE  KeptInv'
<1> USE RestoresAssumption
<1> SUFFICES ASSUME NEW k \in 1 .. run PROVE StillKept(before[k])'
  BY DEF KeptInv
<1>1. StillKept(before[k]) /\ k \in Runs /\ k <= run
  BY DEF KeptInv, RestoresTypeOK, Runs
<1>2. ASSUME NEW n \in PresentIn(before[k].live)
      PROVE  live'[n] = before[k].live[n] \/ \E j \in Runs : spares'[j].live[n] = before[k].live[n]
  <2>1. n \in RestoredFiles /\ before[k].live[n] # Gone
    BY <1>2 DEF PresentIn
  <2>2. before[k].live[n] \in Contents /\ before[k].live[n] < run
    BY <1>1, <2>1 DEF RestoresTypeOK, States, Trees, AgesKept, Contents
  <2> QED
    BY <1>1, <1>2, <2>1, <2>2 DEF StillKept
<1>3. \/ before[k].database = Gone \/ database' = before[k].database
      \/ \E j \in Runs : spares'[j].database = before[k].database
  <2>1. before[k].database \in Contents /\ before[k].database < run
    BY <1>1 DEF RestoresTypeOK, States, AgesKept, Contents
  <2> QED
    BY <1>1, <2>1 DEF StillKept
<1> QED
  BY <1>2, <1>3 DEF StillKept, PresentIn

LEMMA KeptSame ==
  ASSUME KeptInv, UNCHANGED <<run, before, live, database, spares>>
  PROVE  KeptInv'
BY DEF KeptInv, StillKept, PresentIn

LEMMA RestoreInitInv == RestoresInit => RestoreInv
<1> USE RestoresAssumption
<1> SUFFICES ASSUME RestoresInit PROVE RestoreInv
  OBVIOUS
<1>1. RestoresTypeOK
  <2>1. 0 \in Contents /\ Gone \in Contents /\ run = 0 /\ answer = "none" /\ todo = {} /\ step \in RestoreSteps
    BY DEF RestoresInit, Contents, Gone, RestoreSteps
  <2>2. live \in Trees /\ NoTree \in Trees
    BY <2>1 DEF RestoresInit, Trees, NoTree
  <2>3. database \in Contents
    BY <2>1 DEF RestoresInit
  <2>4. spares \in [Runs -> States] /\ before \in [Runs -> States]
    BY <2>1, <2>2 DEF RestoresInit, States
  <2>5. pro \in BOOLEAN /\ unsure \in BOOLEAN
    BY DEF RestoresInit
  <2> QED
    BY <2>1, <2>2, <2>3, <2>4, <2>5 DEF RestoresTypeOK
<1>2. AgesKept
  BY DEF AgesKept, RestoresInit, NoTree, Gone, Runs, Trees
<1>3. LogInv
  BY DEF RestoresInit, LogInv, LogsAgree, RestoredFiles, Installed, Logs, Gone
<1>4. DataPlace /\ FilePlace /\ KeptInv /\ AnswerInv
  BY DEF RestoresInit, DataPlace, FilePlace, FileSteps, KeptInv, AnswerInv
<1> QED
  BY <1>1, <1>2, <1>3, <1>4 DEF RestoreInv

LEMMA BeginRestoreInv == ASSUME RestoreInv, BeginRestore PROVE RestoreInv'
<1> USE RestoresAssumption DEF RestoreInv
<1>1. /\ step = "rest" /\ run < MaxRestores /\ run' = run + 1 /\ run + 1 \in Runs
      /\ pro' = pro /\ database' = database /\ spares' = spares /\ unsure' = unsure
      /\ answer' = "none" /\ step' = IF pro THEN "snapshot" ELSE "move"
  BY DEF BeginRestore, RestoresTypeOK, Runs
<1>2. /\ live' \in Trees /\ before' \in [Runs -> States]
      /\ \A n \in RestoredFiles : live'[n] = live[n] \/ (live[n] = Gone /\ live'[n] = NewKey /\ n \notin {"panel.db"} \union Logs)
      /\ ~pro => live' = live
      /\ before'[run + 1].live = live' /\ before'[run + 1].database = database
      /\ \A k \in 1 .. run : before'[k] = before[k]
  <2>1. live' \in Trees
    <3>1. CASE pro /\ live["master.key"] = Gone
      <4>1. live' = [live EXCEPT !["master.key"] = NewKey]
        BY <3>1 DEF BeginRestore, OpenedTree
      <4>2. NewKey \in Contents
        BY DEF NewKey, Contents
      <4> QED
        BY <4>1, <4>2 DEF RestoresTypeOK, Trees
    <3>2. CASE ~(pro /\ live["master.key"] = Gone)
      BY <3>2 DEF BeginRestore, OpenedTree, RestoresTypeOK
    <3> QED
      BY <3>1, <3>2
  <2>2. before' \in [Runs -> States]
    BY <1>1, <2>1 DEF BeginRestore, RestoresTypeOK, States, Runs
  <2>3. \A n \in RestoredFiles : live'[n] = live[n] \/ (live[n] = Gone /\ live'[n] = NewKey /\ n \notin {"panel.db"} \union Logs)
    BY DEF BeginRestore, OpenedTree, RestoresTypeOK, Trees, RestoredFiles, Installed, Logs
  <2>4. ~pro => live' = live
    BY DEF BeginRestore, OpenedTree
  <2>5. /\ before'[run + 1].live = live' /\ before'[run + 1].database = database
        /\ \A k \in 1 .. run : before'[k] = before[k]
    BY <1>1 DEF BeginRestore, RestoresTypeOK, Runs
  <2> QED
    BY <2>1, <2>2, <2>3, <2>4, <2>5
<1>3. todo' \in SUBSET RestoredFiles /\ (~pro => todo' = {n \in RestoredFiles : live[n] # Gone})
  BY DEF BeginRestore, ToMove, PresentIn
<1>4. RestoresTypeOK'
  <2>1. pro' \in BOOLEAN /\ unsure' \in BOOLEAN
    BY <1>1 DEF RestoresTypeOK
  <2>2. run' \in 0 .. MaxRestores /\ step' \in RestoreSteps
    BY <1>1 DEF RestoresTypeOK, RestoreSteps
  <2> QED
    BY <1>1, <1>2, <1>3, <2>1, <2>2 DEF RestoresTypeOK
<1>5. AgesKept'
  <2>1. \A n \in RestoredFiles : live'[n] < run + 1 /\ live'[n] <= run'
    BY <1>1, <1>2 DEF RestoresTypeOK, AgesKept, Trees, Contents, NewKey
  <2>2. database < run + 1 /\ database' <= run' /\ run \in Int
    BY <1>1 DEF RestoresTypeOK, AgesKept, Contents
  <2>3. \A k \in 1 .. run' :
          /\ before'[k].database < k
          /\ \A n \in RestoredFiles : before'[k].live[n] < k
    <3> SUFFICES ASSUME NEW k \in 1 .. run'
                 PROVE  /\ before'[k].database < k
                        /\ \A n \in RestoredFiles : before'[k].live[n] < k
      OBVIOUS
    <3>1. CASE k = run + 1
      BY <1>2, <2>1, <2>2, <3>1
    <3>2. CASE k \in 1 .. run
      BY <1>2, <3>2 DEF AgesKept
    <3> QED
      BY <1>1, <2>2, <3>1, <3>2
  <2>4. \A k \in Runs : k > run' =>
          spares'[k].database = Gone /\ \A n \in RestoredFiles : spares'[k].live[n] = Gone
    BY <1>1, <2>2 DEF AgesKept, Runs
  <2> QED
    BY <1>1, <2>1, <2>2, <2>3, <2>4 DEF AgesKept, Runs
<1>6. spares[run'].database = Gone /\ \A n \in RestoredFiles : spares[run'].live[n] = Gone
  BY <1>1 DEF AgesKept, Runs, RestoresTypeOK
<1>7. DataPlace' /\ AnswerInv'
  BY <1>1, <1>2, <1>6 DEF DataPlace, FileSteps, Found, AnswerInv
<1>8. FilePlace'
  <2>1. \A n \in RestoredFiles : InPlace(n)'
    BY <1>1, <1>2, <1>6 DEF InPlace, Found
  <2>2. ~pro => \A n \in RestoredFiles :
          IF n \in todo' THEN live'[n] # Gone ELSE live'[n] = Gone /\ spares'[run'].live[n] = Found.live[n]'
    BY <1>1, <1>2, <1>3, <1>6 DEF Found
  <2> QED
    BY <1>1, <2>1, <2>2 DEF FilePlace
<1>9. KeptInv'
  <2> SUFFICES ASSUME NEW k \in 1 .. run' PROVE StillKept(before[k])'
    BY DEF KeptInv
  <2>1. CASE k = run + 1
    BY <1>1, <1>2, <2>1 DEF StillKept, PresentIn
  <2>2. CASE k \in 1 .. run
    <3>1. StillKept(before[k]) /\ before'[k] = before[k]
      BY <1>2, <2>2 DEF KeptInv
    <3> QED
      BY <1>1, <1>2, <3>1 DEF StillKept, PresentIn
  <2> QED
    BY <1>1, <2>1, <2>2 DEF RestoresTypeOK
<1>10. LogInv'
  BY <1>1, <1>2 DEF LogInv, LogsAgree, Found, RestoredFiles, Installed, Logs
<1> QED
  BY <1>4, <1>5, <1>7, <1>8, <1>9, <1>10

LEMMA TakeSnapshotInv == ASSUME RestoreInv, NEW w \in BOOLEAN, TakeSnapshot(w) PROVE RestoreInv'
<1> USE RestoresAssumption DEF RestoreInv
<1>1. /\ step = "snapshot" /\ run \in Runs
      /\ UNCHANGED <<pro, run, before, live, database, unsure>>
      /\ \/ step' = "copy" /\ answer' = "none"
         \/ step' = "rest" /\ answer' = "failed"
      /\ todo' = {}
  BY DEF TakeSnapshot, HistoryVars, Goto, ReturnsWith, RestoresTypeOK, AgesKept, Runs, AnswerInv
<1>2. /\ spares' \in [Runs -> States]
      /\ \A k \in Runs : spares'[k].live = spares[k].live
      /\ \A k \in Runs \ {run} : spares'[k].database = spares[k].database
      /\ step' = "copy" => spares'[run].database = database
      /\ step' = "rest" => spares' = spares
  <2>1. CASE w
    <3>1. spares' = [spares EXCEPT ![run].database = database] /\ step' = "copy"
      BY <2>1 DEF TakeSnapshot, Goto
    <3> QED
      BY <1>1, <3>1 DEF RestoresTypeOK, States
  <2>2. CASE ~w
    BY <1>1, <2>2 DEF TakeSnapshot, ReturnsWith, RestoresTypeOK
  <2> QED
    BY <2>1, <2>2
<1>3. RestoresTypeOK'
  <2>1. pro' \in BOOLEAN /\ unsure' \in BOOLEAN
    BY <1>1 DEF RestoresTypeOK
  <2> QED
    BY <1>1, <1>2, <2>1 DEF RestoresTypeOK, RestoreSteps
<1>4. AgesKept'
  BY <1>1, <1>2 DEF AgesKept, Runs
<1>5. DataPlace'
  BY <1>1, <1>2 DEF DataPlace, FileSteps, Found
<1>6. FilePlace'
  BY <1>1, <1>2 DEF FilePlace, InPlace, Found
<1>7. KeptInv'
  <2>1. \A c \in Contents :
           /\ c < run /\ c # Gone
           /\ database = c \/ \E j \in Runs : spares[j].database = c
           => database' = c \/ \E j \in Runs : spares'[j].database = c
    BY <1>1, <1>2 DEF DataPlace
  <2> QED
    BY <1>1, <1>2, <2>1, KeptOn
<1>8. LogInv'
  BY <1>1 DEF LogInv, Found
<1>9. AnswerInv'
  <2>1. step' = "rest" => live' = Found'.live /\ database' = Found'.database
    <3>1. \A n \in RestoredFiles : live[n] = Found.live[n]
      BY <1>1 DEF FilePlace, InPlace
    <3>2. live = Found.live
      BY <1>1, <3>1 DEF Found, RestoresTypeOK, States, Trees
    <3> QED
      BY <1>1, <3>2 DEF DataPlace, Found
  <2> QED
    BY <1>1, <2>1 DEF AnswerInv
<1> QED
  BY <1>3, <1>4, <1>5, <1>6, <1>7, <1>8, <1>9

LEMMA CopyInInv ==
  ASSUME RestoreInv, NEW c \in BOOLEAN, NEW w \in BOOLEAN, CopyIn(c, w) PROVE RestoreInv'
<1> USE RestoresAssumption DEF RestoreInv
<1>1. /\ step = "copy" /\ run \in Runs /\ pro
      /\ UNCHANGED <<pro, run, before, live, spares>>
      /\ database = Found.database /\ spares[run].database = database
      /\ \A n \in RestoredFiles : InPlace(n)
  BY DEF CopyIn, HistoryVars, RestoresTypeOK, AgesKept, Runs, DataPlace, FilePlace
<1>2. /\ database' \in {database, run}
      /\ step' = "move" => database' = run
      /\ \/ /\ step' = "move" /\ answer' = "none"
            /\ todo' = {n \in RestoredFiles : live[n] # Gone}
         \/ step' = "rest" /\ answer' = "failed" /\ todo' = {}
  BY DEF CopyIn, Goto, ReturnsWith, ToMove, PresentIn, AnswerInv
<1>3. /\ ~unsure' => ~unsure
      /\ step' = "rest" /\ ~unsure' => database' = database
  BY DEF CopyIn, Goto, ReturnsWith
<1>4. RestoresTypeOK'
  <2>1. pro' \in BOOLEAN /\ unsure' \in BOOLEAN
    BY <1>1 DEF CopyIn, RestoresTypeOK
  <2>2. database' \in Contents
    BY <1>1, <1>2 DEF RestoresTypeOK, Contents, Runs
  <2> QED
    BY <1>1, <1>2, <2>1, <2>2 DEF RestoresTypeOK, RestoreSteps
<1>5. AgesKept'
  <2>1. database' <= run
    BY <1>1, <1>2 DEF AgesKept, Runs
  <2> QED
    BY <1>1, <2>1 DEF AgesKept
<1>6. DataPlace'
  BY <1>1, <1>2 DEF DataPlace, FileSteps, Found
<1>7. FilePlace'
  BY <1>1, <1>2 DEF FilePlace, InPlace, Found
<1>8. KeptInv'
  <2>1. \A d \in Contents :
           /\ d < run /\ d # Gone
           /\ database = d \/ \E j \in Runs : spares[j].database = d
           => database' = d \/ \E j \in Runs : spares'[j].database = d
    BY <1>1, <1>2
  <2> QED
    BY <1>1, <2>1, KeptOn
<1>9. LogInv'
  BY <1>1, <1>3 DEF LogInv, Found, LogsAgree
<1>10. AnswerInv'
  <2>1. live = Found.live
    BY <1>1 DEF InPlace, Found, RestoresTypeOK, States, Trees
  <2> QED
    BY <1>1, <1>2, <1>3, <2>1 DEF AnswerInv, Found
<1> QED
  BY <1>4, <1>5, <1>6, <1>7, <1>8, <1>9, <1>10

LEMMA MoveAsideInv == ASSUME RestoreInv, NEW n \in RestoredFiles, MoveAside(n) PROVE RestoreInv'
<1> USE RestoresAssumption DEF RestoreInv
<1>1. /\ step = "move" /\ n \in todo /\ run \in Runs
      /\ UNCHANGED <<pro, run, before, database, unsure, step, answer>>
      /\ todo' = todo \ {n}
  BY DEF MoveAside, HistoryVars, Goto, RestoresTypeOK, AgesKept, Runs
<1>2. /\ live' \in Trees /\ live'[n] = Gone
      /\ \A m \in RestoredFiles \ {n} : live'[m] = live[m]
  BY DEF MoveAside, RestoresTypeOK, Trees, Contents, Gone
<1>3. /\ spares' \in [Runs -> States] /\ spares'[run].live[n] = live[n]
      /\ \A k \in Runs : /\ spares'[k].database = spares[k].database
                         /\ \A m \in RestoredFiles : k # run \/ m # n =>
                              spares'[k].live[m] = spares[k].live[m]
  BY <1>1 DEF MoveAside, RestoresTypeOK, Trees, States
<1>4. InPlace(n) /\ live[n] # Gone
  BY <1>1 DEF FilePlace
<1>5. RestoresTypeOK'
  <2>1. pro' \in BOOLEAN /\ unsure' \in BOOLEAN
    BY <1>1 DEF RestoresTypeOK
  <2> QED
    BY <1>1, <1>2, <1>3, <2>1 DEF RestoresTypeOK
<1>6. AgesKept'
  BY <1>1, <1>2, <1>3 DEF AgesKept, Gone, Runs
<1>7. DataPlace' /\ AnswerInv'
  BY <1>1, <1>3 DEF DataPlace, FileSteps, Found, AnswerInv
<1>8. FilePlace'
  BY <1>1, <1>2, <1>3, <1>4 DEF FilePlace, InPlace, Found
<1>9. KeptInv'
  <2>1. \A m \in RestoredFiles, c \in Contents :
           /\ c < run /\ c # Gone
           /\ live[m] = c \/ \E j \in Runs : spares[j].live[m] = c
           => live'[m] = c \/ \E j \in Runs : spares'[j].live[m] = c
    BY <1>1, <1>2, <1>3, <1>4 DEF InPlace
  <2> QED
    BY <1>1, <1>3, <2>1, KeptOn
<1>10. LogInv'
  BY <1>1, <1>2 DEF LogInv, LogsAgree, Found, RestoredFiles, Installed, Logs
<1> QED
  BY <1>5, <1>6, <1>7, <1>8, <1>9, <1>10

LEMMA MoveInInv == ASSUME RestoreInv, NEW n \in RestoredFiles, MoveIn(n) PROVE RestoreInv'
<1> USE RestoresAssumption DEF RestoreInv
<1>1. /\ step = "install" /\ n \in todo /\ n \in Installed /\ run \in Runs
      /\ UNCHANGED <<pro, run, before, database, spares, unsure, step, answer>>
      /\ todo' = todo \ {n}
  BY DEF MoveIn, HistoryVars, Goto, RestoresTypeOK, AgesKept, Runs, FilePlace
<1>2. /\ live' \in Trees /\ live'[n] = run /\ live[n] = Gone
      /\ \A m \in RestoredFiles \ {n} : live'[m] = live[m]
  <2>1. run \in Contents
    BY <1>1 DEF Runs, Contents
  <2>2. live' = [live EXCEPT ![n] = run] /\ live[n] = Gone
    BY <1>1 DEF MoveIn, FilePlace
  <2> QED
    BY <2>1, <2>2 DEF RestoresTypeOK, Trees
<1>3. RestoresTypeOK'
  <2>1. pro' \in BOOLEAN /\ unsure' \in BOOLEAN
    BY <1>1 DEF RestoresTypeOK
  <2> QED
    BY <1>1, <1>2, <2>1 DEF RestoresTypeOK
<1>4. AgesKept'
  BY <1>1, <1>2 DEF AgesKept, Runs
<1>5. DataPlace' /\ AnswerInv'
  BY <1>1 DEF DataPlace, FileSteps, Found, AnswerInv
<1>6. FilePlace'
  <2>1. \A m \in RestoredFiles :
          /\ spares'[run'].live[m] = Found'.live[m]
          /\ live'[m] = IF m \in Installed \ todo' THEN run' ELSE Gone
    BY <1>1, <1>2 DEF FilePlace, Found
  <2> QED
    BY <1>1, <2>1 DEF FilePlace
<1>7. KeptInv'
  <2>1. \A m \in RestoredFiles, c \in Contents :
           /\ c < run /\ c # Gone
           /\ live[m] = c \/ \E j \in Runs : spares[j].live[m] = c
           => live'[m] = c \/ \E j \in Runs : spares'[j].live[m] = c
    BY <1>1, <1>2
  <2> QED
    BY <1>1, <2>1, KeptOn
<1>8. LogInv'
  <2>1. \A m \in Logs : live'[m] = Gone
    BY <1>1, <1>2 DEF FilePlace, RestoredFiles, Installed, Logs
  <2> QED
    BY <1>1, <2>1 DEF LogInv, LogsAgree, Found
<1> QED
  BY <1>3, <1>4, <1>5, <1>6, <1>7, <1>8

LEMMA RemoveInstalledInv ==
  ASSUME RestoreInv, NEW n \in RestoredFiles, NEW w \in BOOLEAN, RemoveInstalled(n, w)
  PROVE  RestoreInv'
<1> USE RestoresAssumption DEF RestoreInv
<1>1. /\ step = "remove" /\ n \in todo /\ run \in Runs
      /\ UNCHANGED <<pro, run, before, database, spares, step, answer>>
      /\ todo' = todo \ {n}
  BY DEF RemoveInstalled, HistoryVars, Goto, RestoresTypeOK, AgesKept, Runs
<1>2. /\ unsure' \in BOOLEAN /\ (~unsure' => ~unsure)
      /\ ~unsure' => live' = [live EXCEPT ![n] = Gone]
      /\ live' \in {live, [live EXCEPT ![n] = Gone]}
  BY DEF RemoveInstalled, RestoresTypeOK
<1>3. /\ live' \in Trees /\ live[n] = run /\ live'[n] \in {run, Gone}
      /\ ~unsure' => live'[n] = Gone
      /\ \A m \in RestoredFiles \ {n} : live'[m] = live[m]
  <2>1. live[n] = run /\ Gone \in Contents
    BY <1>1 DEF FilePlace, Gone, Contents
  <2> QED
    BY <1>2, <2>1 DEF RestoresTypeOK, Trees
<1>4. RestoresTypeOK'
  <2>1. pro' \in BOOLEAN
    BY <1>1 DEF RestoresTypeOK
  <2> QED
    BY <1>1, <1>2, <1>3, <2>1 DEF RestoresTypeOK
<1>5. AgesKept'
  BY <1>1, <1>3 DEF AgesKept, Gone, Runs
<1>6. DataPlace' /\ AnswerInv'
  BY <1>1 DEF DataPlace, FileSteps, Found, AnswerInv
<1>7. FilePlace'
  <2>1. spares[run].live[n] = Found.live[n]
    <3>1. Saved(n) /\ Found.live[n] < run
      BY <1>1 DEF FilePlace, AgesKept, Found, Runs
    <3> QED
      BY <1>1, <1>3, <3>1 DEF Saved, InPlace, Runs
  <2>2. \A m \in RestoredFiles : Saved(m)'
    <3> SUFFICES ASSUME NEW m \in RestoredFiles PROVE Saved(m)'
      OBVIOUS
    <3>1. CASE m = n
      BY <1>1, <1>3, <2>1, <3>1 DEF Saved, InPlace, Found
    <3>2. CASE m # n
      BY <1>1, <1>3, <3>2 DEF FilePlace, Saved, InPlace, Found
    <3> QED
      BY <3>1, <3>2
  <2>3. \A m \in todo' : live'[m] = run'
    BY <1>1, <1>3 DEF FilePlace, RestoresTypeOK
  <2>4. ASSUME ~unsure', NEW m \in RestoredFiles \ todo' PROVE live'[m] # run'
    BY <1>1, <1>2, <1>3, <2>4 DEF FilePlace, Gone, Runs
  <2> QED
    BY <1>1, <2>2, <2>3, <2>4 DEF FilePlace
<1>8. KeptInv'
  <2>1. \A m \in RestoredFiles, c \in Contents :
           /\ c < run /\ c # Gone
           /\ live[m] = c \/ \E j \in Runs : spares[j].live[m] = c
           => live'[m] = c \/ \E j \in Runs : spares'[j].live[m] = c
    BY <1>1, <1>3 DEF Runs
  <2> QED
    BY <1>1, <2>1, KeptOn
<1>9. LogInv'
  BY <1>1, <1>2, <1>3 DEF LogInv, LogsAgree, Found, RestoredFiles, Installed, Logs
<1> QED
  BY <1>4, <1>5, <1>6, <1>7, <1>8, <1>9

LEMMA MoveBackInv ==
  ASSUME RestoreInv, NEW n \in RestoredFiles, NEW w \in BOOLEAN, MoveBack(n, w)
  PROVE  RestoreInv'
<1> USE RestoresAssumption DEF RestoreInv
<1>1. /\ step = "return" /\ n \in todo /\ run \in Runs
      /\ UNCHANGED <<pro, run, before, database, step, answer>>
      /\ todo' = todo \ {n}
  BY DEF MoveBack, HistoryVars, Goto, RestoresTypeOK, AgesKept, Runs
<1>2. /\ unsure' \in BOOLEAN /\ (~unsure' => ~unsure /\ w)
  BY DEF MoveBack, RestoresTypeOK
<1>3. /\ spares[run].live[n] = Found.live[n] /\ Found.live[n] # Gone
      /\ live[n] \in {Gone, run} /\ Found.live[n] < run
  <2>1. Saved(n) /\ spares[run].live[n] # Gone
    BY <1>1 DEF FilePlace
  <2>2. Found.live[n] < run
    BY <1>1 DEF AgesKept, Found, Runs
  <2> QED
    BY <2>1, <2>2 DEF Saved, InPlace
<1>4. CASE ~w
  <2>1. live' = live /\ spares' = spares /\ unsure'
    BY <1>4 DEF MoveBack
  <2>2. RestoresTypeOK'
    <3>1. pro' \in BOOLEAN
      BY <1>1 DEF RestoresTypeOK
    <3> QED
      BY <1>1, <1>2, <2>1, <3>1 DEF RestoresTypeOK
  <2>3. AgesKept' /\ DataPlace' /\ AnswerInv'
    BY <1>1, <2>1 DEF AgesKept, DataPlace, FileSteps, Found, AnswerInv
  <2>4. FilePlace'
    BY <1>1, <2>1 DEF FilePlace, Saved, InPlace, Found
  <2>5. KeptInv'
    BY <1>1, <2>1, KeptSame
  <2>6. LogInv'
    BY <1>1, <2>1 DEF LogInv
  <2> QED
    BY <2>2, <2>3, <2>4, <2>5, <2>6
<1>5. CASE w
  <2>1. /\ live' = [live EXCEPT ![n] = spares[run].live[n]]
        /\ spares' = [spares EXCEPT ![run].live[n] = Gone]
    BY <1>5 DEF MoveBack
  <2>2. /\ live' \in Trees /\ live'[n] = Found.live[n]
        /\ \A m \in RestoredFiles \ {n} : live'[m] = live[m]
    BY <1>1, <1>3, <2>1 DEF RestoresTypeOK, Trees, States
  <2>3. /\ spares' \in [Runs -> States] /\ spares'[run].live[n] = Gone
        /\ \A k \in Runs : /\ spares'[k].database = spares[k].database
                           /\ \A m \in RestoredFiles : k # run \/ m # n =>
                                spares'[k].live[m] = spares[k].live[m]
    <3>1. Gone \in Contents
      BY DEF Gone, Contents
    <3> QED
      BY <1>1, <2>1, <3>1 DEF RestoresTypeOK, Trees, States
  <2>4. RestoresTypeOK'
    <3>1. pro' \in BOOLEAN
      BY <1>1 DEF RestoresTypeOK
    <3> QED
      BY <1>1, <1>2, <2>2, <2>3, <3>1 DEF RestoresTypeOK
  <2>5. AgesKept'
    <3>1. live'[n] <= run
      BY <1>1, <1>3, <2>2 DEF RestoresTypeOK, Trees, Contents, Runs
    <3>2. \A m \in RestoredFiles : live'[m] <= run
      BY <2>2, <3>1 DEF AgesKept
    <3>3. \A k \in Runs : k > run => spares'[k] = spares[k]
      BY <1>1, <2>1 DEF RestoresTypeOK, Runs
    <3> QED
      BY <1>1, <3>2, <3>3 DEF AgesKept
  <2>6. DataPlace' /\ AnswerInv'
    BY <1>1, <2>3 DEF DataPlace, FileSteps, Found, AnswerInv
  <2>7. \A m \in RestoredFiles :
          \/ m = n /\ InPlace(m)'
          \/ m # n /\ live'[m] = live[m] /\ spares'[run].live[m] = spares[run].live[m]
    BY <1>1, <2>2, <2>3 DEF InPlace, Found
  <2>8. FilePlace'
    <3>1. live'[n] # run
      BY <1>3, <2>2 DEF RestoresTypeOK
    <3> QED
      BY <1>1, <1>2, <2>7, <3>1 DEF FilePlace, Saved, InPlace, Found
  <2>9. KeptInv'
    <3>1. \A m \in RestoredFiles, c \in Contents :
             /\ c < run /\ c # Gone
             /\ live[m] = c \/ \E j \in Runs : spares[j].live[m] = c
             => live'[m] = c \/ \E j \in Runs : spares'[j].live[m] = c
      <4> SUFFICES ASSUME NEW m \in RestoredFiles, NEW c \in Contents, c < run, c # Gone,
                          live[m] = c \/ \E j \in Runs : spares[j].live[m] = c
                   PROVE  live'[m] = c \/ \E j \in Runs : spares'[j].live[m] = c
        OBVIOUS
      <4>1. CASE live[m] = c
        BY <1>1, <1>3, <2>2, <4>1 DEF Runs
      <4>2. ASSUME NEW j \in Runs, spares[j].live[m] = c
            PROVE  live'[m] = c \/ spares'[j].live[m] = c
        BY <1>3, <2>2, <2>3, <4>2
      <4> QED
        BY <4>1, <4>2
    <3> QED
      BY <1>1, <2>3, <3>1, KeptOn
  <2>10. LogInv'
    <3>1. ASSUME ~unsure, NEW m \in RestoredFiles
          PROVE  live'[m] = Gone \/ live'[m] = Found.live[m]
      BY <1>1, <1>3, <2>2, <3>1 DEF FilePlace, Saved, InPlace
    <3> QED
      BY <1>1, <1>2, <3>1 DEF LogInv, LogsAgree, Found, RestoredFiles, Installed, Logs
  <2> QED
    BY <2>4, <2>5, <2>6, <2>8, <2>9, <2>10
<1> QED
  BY <1>4, <1>5

LEMMA CopyBackInv == ASSUME RestoreInv, NEW w \in BOOLEAN, CopyBack(w) PROVE RestoreInv'
<1> USE RestoresAssumption DEF RestoreInv
<1>1. /\ step = "copyback" /\ run \in Runs /\ pro
      /\ UNCHANGED <<pro, run, before, live, spares>>
      /\ database = run /\ spares[run].database = Found.database
      /\ todo' = {} /\ step' = "rest" /\ answer' = "failed"
  BY DEF CopyBack, HistoryVars, ReturnsWith, RestoresTypeOK, AgesKept, Runs, DataPlace, FileSteps
<1>2. /\ unsure' \in BOOLEAN /\ (~unsure' => ~unsure /\ database' = Found.database)
      /\ database' \in {database, Found.database}
  BY <1>1 DEF CopyBack, RestoresTypeOK
<1>3. Found.database \in Contents /\ Found.database < run
  BY <1>1 DEF Found, RestoresTypeOK, States, AgesKept, Runs
<1>4. RestoresTypeOK'
  <2>1. pro' \in BOOLEAN
    BY <1>1 DEF RestoresTypeOK
  <2>2. database' \in Contents
    BY <1>2, <1>3 DEF RestoresTypeOK
  <2> QED
    BY <1>1, <1>2, <2>1, <2>2 DEF RestoresTypeOK, RestoreSteps
<1>5. AgesKept'
  <2>1. database' <= run
    BY <1>1, <1>2, <1>3 DEF Runs, Contents
  <2> QED
    BY <1>1, <2>1 DEF AgesKept
<1>6. DataPlace' /\ FilePlace'
  BY <1>1 DEF DataPlace, FilePlace, FileSteps
<1>7. KeptInv'
  <2>1. \A d \in Contents :
           /\ d < run /\ d # Gone
           /\ database = d \/ \E j \in Runs : spares[j].database = d
           => database' = d \/ \E j \in Runs : spares'[j].database = d
    BY <1>1 DEF Runs
  <2> QED
    BY <1>1, <2>1, KeptOn
<1>8. LogInv'
  BY <1>1, <1>2 DEF LogInv, LogsAgree
<1>9. AnswerInv'
  <2>1. ~unsure => live = Found.live
    BY <1>1 DEF FilePlace, InPlace, Found, RestoresTypeOK, States, Trees
  <2> QED
    BY <1>1, <1>2, <2>1 DEF AnswerInv, Found
<1> QED
  BY <1>4, <1>5, <1>6, <1>7, <1>8, <1>9

(* Steps that move nothing.                                                *)
LEMMA TurningPointInv ==
  ASSUME RestoreInv, AllAside \/ AllIn \/ MoveFails \/ AllRemoved \/ AllBack \/ RestoreDies
  PROVE  RestoreInv'
<1> USE RestoresAssumption DEF RestoreInv
<1>1. /\ UNCHANGED <<pro, run, before, live, database, spares, unsure>>
      /\ step # "rest" /\ run \in Runs
      /\ step' \in RestoreSteps /\ todo' \in SUBSET RestoredFiles
      /\ answer' \in {"none", "restored", "failed"}
  BY DEF AllAside, AllIn, MoveFails, AllRemoved, AllBack, RestoreDies, HistoryVars, Goto,
         ReturnsWith, MovedIn, MovedAside, PresentIn, RestoreSteps, Installed, RestoredFiles,
         RestoresTypeOK, AgesKept, Runs
<1>2. RestoresTypeOK'
  <2>1. pro' \in BOOLEAN /\ unsure' \in BOOLEAN
    BY <1>1 DEF RestoresTypeOK
  <2> QED
    BY <1>1, <2>1 DEF RestoresTypeOK
<1>3. AgesKept' /\ KeptInv' /\ LogInv'
  BY <1>1, KeptSame DEF AgesKept, LogInv, LogsAgree, Found
<1>4. CASE AllAside
  BY <1>1, <1>2, <1>3, <1>4 DEF AllAside, Goto, DataPlace, FileSteps, FilePlace, AnswerInv, Found, RestoredFiles
<1>5. CASE AllIn
  BY <1>1, <1>2, <1>3, <1>5 DEF AllIn, ReturnsWith, DataPlace, FileSteps, FilePlace, AnswerInv, Found, RestoredFiles, Installed, Logs
<1>6. CASE MoveFails
  <2>1. /\ step \in {"move", "install"} /\ step' = "remove" /\ answer' = answer
        /\ todo' = {n \in Installed : live[n] = run}
    BY <1>6 DEF MoveFails, Goto, MovedIn
  <2>2. \A n \in RestoredFiles : Found.live[n] < run
    BY <1>1 DEF AgesKept, Found, Runs
  <2>3. \A n \in RestoredFiles : Saved(n) /\ (live[n] = run => n \in Installed)
    <3> SUFFICES ASSUME NEW n \in RestoredFiles PROVE Saved(n) /\ (live[n] = run => n \in Installed)
      OBVIOUS
    <3>1. Gone # run
      BY <1>1 DEF Gone, Runs
    <3>2. CASE step = "move"
      BY <1>1, <2>2, <3>1, <3>2 DEF FilePlace, Saved, InPlace, Runs
    <3>3. CASE step = "install"
      BY <2>2, <3>1, <3>3 DEF FilePlace, Saved, InPlace
    <3> QED
      BY <2>1, <3>2, <3>3
  <2>4. FilePlace'
    BY <1>1, <2>1, <2>3 DEF FilePlace, Saved, InPlace, Found
  <2>5. DataPlace' /\ AnswerInv'
    BY <1>1, <2>1 DEF DataPlace, FileSteps, AnswerInv, Found
  <2> QED
    BY <1>2, <1>3, <2>4, <2>5
<1>7. CASE AllRemoved
  <2>1. /\ step = "remove" /\ todo = {} /\ step' = "return" /\ answer' = answer
        /\ todo' = {n \in RestoredFiles : spares[run].live[n] # Gone}
    BY <1>7 DEF AllRemoved, Goto, MovedAside, PresentIn
  <2>2. FilePlace'
    BY <1>1, <2>1 DEF FilePlace, Saved, InPlace, Found
  <2>3. DataPlace' /\ AnswerInv'
    BY <1>1, <2>1 DEF DataPlace, FileSteps, AnswerInv, Found
  <2> QED
    BY <1>2, <1>3, <2>2, <2>3
<1>8. CASE AllBack
  <2>1. /\ step = "return" /\ todo = {}
        /\ IF pro THEN step' = "copyback" /\ answer' = answer
           ELSE step' = "rest" /\ answer' = "failed"
    BY <1>8 DEF AllBack, Goto, ReturnsWith
  <2>2. \A n \in RestoredFiles : Saved(n) /\ (~unsure => InPlace(n))
    BY <2>1 DEF FilePlace
  <2>3. DataPlace' /\ FilePlace'
    BY <1>1, <2>1, <2>2 DEF DataPlace, FileSteps, FilePlace, Saved, InPlace, Found
  <2>4. AnswerInv'
    <3>1. ~unsure => live = Found.live
      BY <1>1, <2>2 DEF InPlace, Found, RestoresTypeOK, States, Trees
    <3>2. ~pro => database = Found.database
      BY <2>1 DEF DataPlace, FileSteps
    <3> QED
      BY <1>1, <2>1, <3>1, <3>2 DEF AnswerInv, Found
  <2> QED
    BY <1>2, <1>3, <2>3, <2>4
<1>9. CASE RestoreDies
  BY <1>1, <1>2, <1>3, <1>9 DEF RestoreDies, ReturnsWith, DataPlace, FileSteps, FilePlace, AnswerInv
<1> QED
  BY <1>4, <1>5, <1>6, <1>7, <1>8, <1>9

(* The invariant of a restore: where each file and the database of what    *)
(* the run found are while it is under way, and that nothing any run found *)
(* is lost (restoreBackup, installRestore, restorePostgres).               *)
THEOREM RestoresSafe == RestoresSpec => []RestoreInv
<1>1. RestoresInit => RestoreInv
  BY RestoreInitInv
<1>2. RestoreInv /\ [RestoresNext]_RestoresVars => RestoreInv'
  <2> SUFFICES ASSUME RestoreInv, [RestoresNext]_RestoresVars PROVE RestoreInv'
    OBVIOUS
  <2>1. CASE UNCHANGED RestoresVars
    <3>1. UNCHANGED <<pro, run, before, live, database, spares, unsure, step, todo, answer>>
      BY <2>1 DEF RestoresVars
    <3>2. RestoresTypeOK'
      <4>1. pro' \in BOOLEAN /\ unsure' \in BOOLEAN
        BY <3>1 DEF RestoresTypeOK, RestoreInv
      <4> QED
        BY <3>1, <4>1 DEF RestoresTypeOK, RestoreInv
    <3>3. KeptInv'
      BY <3>1, KeptSame DEF RestoreInv
    <3>4. AgesKept' /\ DataPlace' /\ LogInv' /\ AnswerInv'
      BY <3>1 DEF RestoreInv, AgesKept, DataPlace, LogInv, LogsAgree, AnswerInv, Found
    <3>5. FilePlace'
      BY <3>1 DEF RestoreInv, FilePlace, Saved, InPlace, Found
    <3> QED
      BY <3>2, <3>3, <3>4, <3>5 DEF RestoreInv
  <2>2. CASE BeginRestore
    BY <2>2, BeginRestoreInv
  <2>3. CASE AllAside \/ AllIn \/ MoveFails \/ AllRemoved \/ AllBack \/ RestoreDies
    BY <2>3, TurningPointInv
  <2>4. ASSUME NEW w \in BOOLEAN, TakeSnapshot(w) PROVE RestoreInv'
    BY <2>4, TakeSnapshotInv
  <2>5. ASSUME NEW w \in BOOLEAN, CopyBack(w) PROVE RestoreInv'
    BY <2>5, CopyBackInv
  <2>6. ASSUME NEW w \in BOOLEAN, NEW c \in BOOLEAN, CopyIn(c, w) PROVE RestoreInv'
    BY <2>6, CopyInInv
  <2>7. ASSUME NEW n \in RestoredFiles, MoveAside(n) PROVE RestoreInv'
    BY <2>7, MoveAsideInv
  <2>8. ASSUME NEW n \in RestoredFiles, MoveIn(n) PROVE RestoreInv'
    BY <2>8, MoveInInv
  <2>9. ASSUME NEW n \in RestoredFiles, NEW w \in BOOLEAN, RemoveInstalled(n, w) PROVE RestoreInv'
    BY <2>9, RemoveInstalledInv
  <2>10. ASSUME NEW n \in RestoredFiles, NEW w \in BOOLEAN, MoveBack(n, w) PROVE RestoreInv'
    BY <2>10, MoveBackInv
  <2> QED
    BY <2>1, <2>2, <2>3, <2>4, <2>5, <2>6, <2>7, <2>8, <2>9, <2>10 DEF RestoresNext
<1> QED
  BY <1>1, <1>2, PTL DEF RestoresSpec

(* A restore ends with the whole backup or with what it found, loses       *)
(* nothing wherever it is killed, and never leaves a database beside the   *)
(* log of another (backup.go, ARCHITECTURE.md).                            *)
THEOREM RestoresAreWhole == RestoresSpec => []RestoreIsWhole
<1>1. RestoreInv => RestoreIsWhole
  BY DEF RestoreInv, RestoreIsWhole, AnswerInv, KeptInv, LogInv, LogsAgree, Found
<1> QED
  BY <1>1, RestoresSafe, PTL
-----------------------------------------------------------------------------
(* The leases of cores: who is watched, and for how long.                  *)

(* Nobody is known to the guard with a newer revision than the file, or in *)
(* the file with a newer one than the panel.                               *)
Ordered(u) ==
  /\ listed[u].revision <= delegate[u].revision
  /\ wrapper.at # "down" => wrapper.previous[u].revision <= listed[u].revision
  /\ listed[u] # Unheard => delegate[u].revision > 0
  /\ wrapper.revokedAt[u] <= coreTime

(* The core is never given an identity that the file does not list.        *)
Listed(u) ==
  /\ u \in userTable => listed[u] # Unheard
  /\ panel.at = "listed" /\ delegate[u].revision > 0 => listed[u] # Unheard

(* Whom the file permits or the core serves is watched, or will be noticed *)
(* by its new revision; the guard was not told of the others.              *)
Noticeable(u) ==
  /\ wrapper.at \in {"down", "read"} => wrapper.serves = {}
  /\ /\ wrapper.at # "down"
     /\ listed[u].deadline > coreTime \/ u \in wrapper.serves
     /\ u \notin untold
     => \/ u \in wrapper.active
        \/ wrapper.previous[u].revision < listed[u].revision

(* Seconds without permission count only while the core runs, and the      *)
(* guard has been counting as well since its first poll after the first.   *)
Counted(u) ==
  /\ overstay[u] <= GuardGrace + 1
  /\ overstay[u] > 0 => wrapper.at = "running" /\ listed[u].deadline <= coreTime
  /\ overstay[u] > 0 /\ u \in wrapper.serves \ untold =>
       \/ ~wrapper.polled /\ overstay[u] = 1
       \/ /\ u \in wrapper.active /\ wrapper.revokedAt[u] # Unwatched
          /\ overstay[u] <= coreTime - wrapper.revokedAt[u] + 1
          /\ wrapper.polled => overstay[u] <= GuardGrace

LeaseInv == /\ CoreLeasesTypeOK
            /\ \A u \in MountedUsers : Ordered(u) /\ Listed(u) /\ Noticeable(u) /\ Counted(u)
-----------------------------------------------------------------------------
PanelStates == [at : {"down", "idle", "changed", "listed", "written", "restarted"},
                wants : SUBSET MountedUsers]
WrapperStates == [at : {"down", "read", "prepared", "running"},
                  previous : [MountedUsers -> Leases], active : SUBSET MountedUsers,
                  revokedAt : [MountedUsers -> 0 .. MaxCoreTime \union {Unwatched}],
                  serves : SUBSET MountedUsers, polled : BOOLEAN]

LEMMA LeaseTypes ==
  ASSUME CoreLeasesTypeOK
  PROVE  /\ coreTime \in 0 .. MaxCoreTime /\ coreTime \in Nat
         /\ panel \in PanelStates /\ wrapper \in WrapperStates
         /\ userTable \subseteq MountedUsers /\ untold \subseteq MountedUsers
         /\ listed \in [MountedUsers -> Leases]
         /\ overstay \in [MountedUsers -> 0 .. Overdone]
         /\ delegate \in [MountedUsers -> [until : Deadlines, revision : 0 .. MaxLeaseRevisions,
                                           on : BOOLEAN]]
         /\ {GuardGrace, LeaseTime, MaxCoreTime, MaxLeaseRevisions} \subseteq Nat \ {0}
BY CoreLeasesAssumption DEF CoreLeasesTypeOK, PanelStates, WrapperStates

LEMMA LeaseRow ==
  ASSUME NEW l \in Leases
  PROVE  l.deadline \in Int /\ l.revision \in Nat /\ (l.deadline > 0 => l # Unheard)
         /\ (l.revision > 0 => l # Unheard)
BY CoreLeasesAssumption DEF Leases, Unheard, Deadlines

LEMMA DownIsTyped ==
  /\ CoreDown \in WrapperStates
  /\ CoreDown.at = "down" /\ CoreDown.serves = {}
  /\ \A u \in MountedUsers : CoreDown.revokedAt[u] = Unwatched
BY DEF CoreDown, WrapperStates, Leases

LEMMA LeasesTyped ==
  ASSUME CoreLeasesTypeOK, NEW u \in MountedUsers
  PROVE  LeaseOf(u) \in Leases
<1>1. /\ delegate[u].until \in Deadlines /\ delegate[u].revision \in 0 .. MaxLeaseRevisions
      /\ 0 \in Deadlines
  BY CoreLeasesAssumption DEF CoreLeasesTypeOK, Deadlines
<1> QED
  BY <1>1 DEF LeaseOf, Leases

LEMMA LeaseTypeNext ==
  ASSUME CoreLeasesTypeOK, [CoreLeasesNext]_CoreVars
  PROVE  CoreLeasesTypeOK'
<1> USE CoreLeasesAssumption
<1>1. ASSUME NEW u \in MountedUsers, GrantMount(u) PROVE CoreLeasesTypeOK'
  <2>1. coreTime + LeaseTime \in Deadlines /\ delegate[u].revision + 1 \in 0 .. MaxLeaseRevisions
    BY <1>1 DEF GrantMount, CoreLeasesTypeOK, Deadlines
  <2>2. delegate' \in [MountedUsers -> [until : Deadlines, revision : 0 .. MaxLeaseRevisions, on : BOOLEAN]]
    BY <1>1, <2>1 DEF GrantMount, CoreLeasesTypeOK
  <2> QED
    BY <1>1, <2>2 DEF GrantMount, CoreLeasesTypeOK
<1>2. ASSUME NEW u \in MountedUsers, WithdrawMount(u) PROVE CoreLeasesTypeOK'
  <2>1. 0 \in Deadlines
    BY DEF Deadlines
  <2> QED
    BY <1>2, <2>1 DEF WithdrawMount, CoreLeasesTypeOK
<1>3. ASSUME NEW u \in MountedUsers, SwitchMount(u) PROVE CoreLeasesTypeOK'
  BY <1>3 DEF SwitchMount, CoreLeasesTypeOK
<1>4. ASSUME ListLeases PROVE CoreLeasesTypeOK'
  <2>1. listed' \in [MountedUsers -> Leases]
    BY <1>4, LeasesTyped DEF ListLeases
  <2>2. untold' \subseteq MountedUsers /\ overstay' \in [MountedUsers -> 0 .. Overdone]
    BY <1>4 DEF ListLeases, CoreLeasesTypeOK, Permitted, PermittedAt, Overdone
  <2> QED
    BY <1>4, <2>1, <2>2 DEF ListLeases, CoreLeasesTypeOK
<1>5. ASSUME WriteUsers PROVE CoreLeasesTypeOK'
  BY <1>5 DEF WriteUsers, CoreLeasesTypeOK, Authorised, Delegates
<1>6. ASSUME Stopped, UNCHANGED <<coreKind, coreTime, delegate, listed, userTable>>,
             panel' \in PanelStates
      PROVE CoreLeasesTypeOK'
  <2>1. overstay' \in [MountedUsers -> 0 .. Overdone] /\ untold' = {} /\ wrapper' = CoreDown
    BY <1>6 DEF Stopped, Overdone
  <2> QED
    BY <1>6, <2>1, DownIsTyped DEF CoreLeasesTypeOK, WrapperStates, PanelStates
<1>7. ASSUME NEW S \in SUBSET MountedUsers, Serves(S),
             UNCHANGED <<coreKind, coreTime, delegate, listed, userTable>>,
             panel' \in PanelStates
      PROVE CoreLeasesTypeOK'
  <2>1. untold' \subseteq MountedUsers /\ wrapper' = [wrapper EXCEPT !.serves = S]
        /\ overstay' = overstay
    BY <1>7 DEF Serves, CoreLeasesTypeOK
  <2>2. wrapper' \in WrapperStates
    BY <2>1, LeaseTypes DEF WrapperStates
  <2> QED
    BY <1>7, <2>1, <2>2 DEF CoreLeasesTypeOK, WrapperStates, PanelStates
<1>8. ASSUME RestartCore \/ CrashCore PROVE CoreLeasesTypeOK'
  <2>1. panel' \in PanelStates
    BY <1>8, LeaseTypes DEF RestartCore, CrashCore, PanelStates
  <2> QED
    BY <1>6, <1>8, <2>1 DEF RestartCore, CrashCore
<1>9. ASSUME AddUsers PROVE CoreLeasesTypeOK'
  <2>1. panel.wants \subseteq MountedUsers /\ panel' \in PanelStates
    BY <1>9, LeaseTypes DEF AddUsers, PanelStates
  <2> QED
    BY <1>7, <1>9, <2>1 DEF AddUsers
<1>10. ASSUME KickUsers PROVE CoreLeasesTypeOK'
  <2>1. wrapper.serves \subseteq MountedUsers /\ panel' \in PanelStates
    BY <1>10, LeaseTypes DEF KickUsers, PanelStates, WrapperStates
  <2> QED
    BY <1>7, <1>10, <2>1 DEF KickUsers
<1>11. ASSUME NEW u \in MountedUsers, Connect(u) \/ Disconnect(u) PROVE CoreLeasesTypeOK'
  <2>1. wrapper.serves \subseteq MountedUsers /\ panel' \in PanelStates
    BY <1>11, LeaseTypes DEF Connect, Disconnect, PanelStates, WrapperStates
  <2> QED
    BY <1>7, <1>11, <2>1 DEF Connect, Disconnect
<1>12. ASSUME PassFails \/ StopPanel \/ StartPanel PROVE CoreLeasesTypeOK'
  BY <1>12 DEF PassFails, StopPanel, StartPanel, CoreLeasesTypeOK
<1>13. ASSUME wrapper' \in WrapperStates, untold' \subseteq untold,
              overstay' \in [MountedUsers -> 0 .. Overdone], coreTime' \in 0 .. MaxCoreTime,
              UNCHANGED <<coreKind, delegate, listed, userTable, panel>>
       PROVE CoreLeasesTypeOK'
  BY <1>13 DEF CoreLeasesTypeOK, WrapperStates
<1>14. ASSUME ReadLeases PROVE CoreLeasesTypeOK'
  <2>1. wrapper' \in WrapperStates
    BY <1>14, LeaseTypes DEF ReadLeases, WrapperStates, Permitted, PermittedAt
  <2> QED
    BY <1>13, <1>14, <2>1, LeaseTypes DEF ReadLeases
<1>15. ASSUME PrepareCore PROVE CoreLeasesTypeOK'
  <2>1. Loaded \subseteq MountedUsers
    BY LeaseTypes DEF Loaded
  <2>2. wrapper' \in WrapperStates
    BY <1>15, <2>1, LeaseTypes DEF PrepareCore, WrapperStates
  <2> QED
    BY <1>13, <1>15, <2>2, LeaseTypes DEF PrepareCore
<1>16. /\ Noticed \subseteq MountedUsers
       /\ \A f \in [MountedUsers -> 0 .. MaxCoreTime \union {Unwatched}] :
            /\ [Watched EXCEPT !.at = "running"] \in WrapperStates
            /\ [Watched EXCEPT !.polled = TRUE, !.revokedAt = f] \in WrapperStates
  BY LeaseTypes DEF Noticed, KnownTo, Watched, WrapperStates
<1>17. ASSUME RunCore PROVE CoreLeasesTypeOK'
  <2>1. wrapper.revokedAt \in [MountedUsers -> 0 .. MaxCoreTime \union {Unwatched}]
    BY LeaseTypes DEF WrapperStates
  <2> QED
    BY <1>13, <1>16, <1>17, <2>1, LeaseTypes DEF RunCore
<1>18. ASSUME PollLeases PROVE CoreLeasesTypeOK'
  <2>1. CASE \E u \in Watched.active : Overdue(u)
    BY <1>6, <1>18, <2>1, LeaseTypes DEF PollLeases
  <2>2. CASE ~ \E u \in Watched.active : Overdue(u)
    <3> DEFINE f == [u \in MountedUsers |-> IF u \in Watched.active THEN Revocation(u)
                                            ELSE Watched.revokedAt[u]]
    <3>1. wrapper' = [Watched EXCEPT !.polled = TRUE, !.revokedAt = f]
      BY <1>18, <2>2 DEF PollLeases
    <3>2. Watched.revokedAt = wrapper.revokedAt
      BY LeaseTypes DEF Watched, WrapperStates
    <3>3. \A u \in MountedUsers : wrapper.revokedAt[u] \in 0 .. MaxCoreTime \union {Unwatched}
      BY LeaseTypes DEF WrapperStates
    <3>4. f \in [MountedUsers -> 0 .. MaxCoreTime \union {Unwatched}]
      BY <3>2, <3>3, LeaseTypes DEF Revocation
    <3> HIDE DEF f
    <3> QED
      BY <1>13, <1>16, <1>18, <2>2, <3>1, <3>4, LeaseTypes DEF PollLeases
  <2> QED
    BY <2>1, <2>2
<1>19. ASSUME SecondPasses PROVE CoreLeasesTypeOK'
  <2>1. wrapper' \in WrapperStates
    BY <1>19, LeaseTypes DEF SecondPasses, WrapperStates
  <2>2. overstay' \in [MountedUsers -> 0 .. Overdone]
    BY <1>19, LeaseTypes DEF SecondPasses, Overdone
  <2>3. coreTime' \in 0 .. MaxCoreTime
    BY <1>19, LeaseTypes DEF SecondPasses
  <2> QED
    BY <1>13, <1>19, <2>1, <2>2, <2>3 DEF SecondPasses
<1>20. CASE UNCHANGED CoreVars
  BY <1>20 DEF CoreVars, CoreLeasesTypeOK
<1> QED
  BY <1>1, <1>2, <1>3, <1>4, <1>5, <1>8, <1>9, <1>10, <1>11, <1>12, <1>14, <1>15, <1>17,
     <1>18, <1>19, <1>20 DEF CoreLeasesNext
-----------------------------------------------------------------------------
LEMMA LeaseParts ==
  ASSUME LeaseInv, NEW u \in MountedUsers
  PROVE  /\ CoreLeasesTypeOK
         /\ Ordered(u) /\ Listed(u) /\ Noticeable(u) /\ Counted(u)
         /\ listed[u].deadline \in Int /\ listed[u].revision \in Nat
         /\ (listed[u].deadline > 0 => listed[u] # Unheard)
         /\ (listed[u].revision > 0 => listed[u] # Unheard)
         /\ wrapper \in WrapperStates /\ panel \in PanelStates
         /\ wrapper.previous[u].revision \in Nat
         /\ wrapper.revokedAt[u] \in Nat \union {Unwatched}
         /\ delegate[u].revision \in Nat
         /\ overstay[u] \in Nat /\ overstay[u] <= Overdone /\ coreTime \in Nat
         /\ GuardGrace \in Nat \ {0}
<1>1. CoreLeasesTypeOK /\ Ordered(u) /\ Listed(u) /\ Noticeable(u) /\ Counted(u)
  BY DEF LeaseInv
<1>2. /\ listed[u] \in Leases /\ wrapper.previous[u] \in Leases
      /\ wrapper.revokedAt[u] \in Nat \union {Unwatched}
      /\ delegate[u].revision \in Nat /\ overstay[u] \in Nat /\ overstay[u] <= Overdone
      /\ wrapper \in WrapperStates /\ panel \in PanelStates /\ coreTime \in Nat
      /\ GuardGrace \in Nat \ {0}
  BY <1>1, LeaseTypes DEF WrapperStates, Overdone
<1> QED
  BY <1>1, <1>2, LeaseRow

(* The panel changes what it wants, not yet the file.                      *)
LEMMA PanelKeeps ==
  ASSUME LeaseInv, CoreLeasesTypeOK', NEW u \in MountedUsers,
         UNCHANGED <<coreTime, listed, wrapper, untold, overstay>>,
         delegate'[u].revision >= delegate[u].revision,
         u \in userTable' => u \in userTable \/ (panel.at = "listed" /\ delegate[u].revision > 0),
         panel'.at = "listed" => panel.at = "listed" /\ delegate'[u].revision = delegate[u].revision
  PROVE  Ordered(u)' /\ Listed(u)' /\ Noticeable(u)' /\ Counted(u)'
<1>1. delegate'[u].revision \in Nat
  BY CoreLeasesAssumption DEF CoreLeasesTypeOK
<1>2. Ordered(u)'
  BY <1>1, LeaseParts DEF Ordered
<1>3. Listed(u)'
  BY LeaseParts DEF Listed
<1>4. Noticeable(u)' /\ Counted(u)'
  BY LeaseParts DEF Noticeable, Counted
<1> QED
  BY <1>2, <1>3, <1>4

(* The file is written: who is permitted anew has a new revision in it, or *)
(* the guard was not told.                                                 *)
LEMMA ListKeeps ==
  ASSUME LeaseInv, CoreLeasesTypeOK', ListLeases, NEW u \in MountedUsers
  PROVE  Ordered(u)' /\ Listed(u)' /\ Noticeable(u)' /\ Counted(u)'
<1>1. /\ listed'[u] = LeaseOf(u) /\ panel'.at = "listed"
      /\ UNCHANGED <<coreTime, delegate, userTable, wrapper>>
  BY LeaseParts DEF ListLeases, PanelStates
<1>2. /\ delegate[u].revision > 0 =>
           /\ listed'[u] # Unheard /\ listed'[u].revision = delegate[u].revision
      /\ delegate[u].revision = 0 => listed'[u] = Unheard
      /\ listed'[u].deadline \in Int /\ listed'[u].revision \in Nat
  <2>1. listed'[u] \in Leases
    BY <1>1, LeasesTyped, LeaseParts
  <2>2. delegate[u].until \in Nat
    BY LeaseParts, CoreLeasesAssumption DEF CoreLeasesTypeOK, Deadlines
  <2> QED
    BY <1>1, <2>1, <2>2, LeaseRow, LeaseParts DEF LeaseOf, Delegates, Unheard
<1>3. listed[u].revision <= listed'[u].revision
  <2>1. CASE delegate[u].revision = 0
    BY <1>2, <2>1, LeaseParts DEF Ordered, Unheard
  <2>2. CASE delegate[u].revision # 0
    BY <1>2, <2>2, LeaseParts DEF Ordered
  <2> QED
    BY <2>1, <2>2
<1>4. Ordered(u)'
  <2>1. listed'[u].revision <= delegate[u].revision
    BY <1>2, LeaseParts DEF Unheard
  <2> QED
    BY <1>1, <1>2, <1>3, <2>1, LeaseParts DEF Ordered
<1>5. Listed(u)'
  BY <1>1, <1>2, LeaseParts DEF Listed, Ordered
<1>6. /\ untold \subseteq untold'
      /\ listed'[u].deadline > coreTime =>
           /\ overstay'[u] = 0
           /\ \/ listed[u].deadline > coreTime \/ u \in untold' \/ wrapper.at = "down"
              \/ listed'[u].revision # listed[u].revision
      /\ listed'[u].deadline <= coreTime => overstay'[u] = overstay[u]
  <2>1. /\ u \in Permitted(listed') <=> listed'[u].deadline > coreTime
        /\ u \in Permitted(listed) <=> listed[u].deadline > coreTime
    BY DEF Permitted, PermittedAt
  <2>2. overstay'[u] = IF u \in Permitted(listed') THEN 0 ELSE overstay[u]
    BY DEF ListLeases
  <2>3. untold' = untold \union {x \in Permitted(listed') \ Permitted(listed) :
                    /\ wrapper.at # "down" /\ listed'[x].revision = listed[x].revision}
    BY DEF ListLeases
  <2>4. listed[u].deadline \in Int /\ coreTime \in Nat
    BY LeaseParts
  <2> QED
    BY <1>2, <2>1, <2>2, <2>3, <2>4
<1>7. Noticeable(u)'
  BY <1>1, <1>2, <1>3, <1>6, LeaseParts DEF Noticeable, Ordered
<1>8. Counted(u)'
  <2>1. CASE listed'[u].deadline > coreTime
    BY <1>1, <1>2, <1>6, <2>1, LeaseParts DEF Counted
  <2>2. CASE listed'[u].deadline <= coreTime
    BY <1>1, <1>2, <1>6, <2>2, LeaseParts DEF Counted
  <2> QED
    BY <1>2, <2>1, <2>2, LeaseParts
<1> QED
  BY <1>4, <1>5, <1>7, <1>8

(* The core ends.                                                          *)
LEMMA StopKeeps ==
  ASSUME LeaseInv, CoreLeasesTypeOK', Stopped, NEW u \in MountedUsers,
         UNCHANGED <<coreTime, delegate, listed, userTable>>,
         panel'.at = "listed" => panel.at = "listed"
  PROVE  Ordered(u)' /\ Listed(u)' /\ Noticeable(u)' /\ Counted(u)'
<1>1. /\ wrapper'.at = "down" /\ wrapper'.serves = {} /\ overstay'[u] = 0
      /\ wrapper'.revokedAt[u] = Unwatched
  BY DownIsTyped DEF Stopped
<1> QED
  BY <1>1, LeaseParts DEF Ordered, Listed, Noticeable, Counted, Unwatched

(* Users are admitted or dropped.                                          *)
LEMMA ServeKeeps ==
  ASSUME LeaseInv, CoreLeasesTypeOK', NEW S \in SUBSET MountedUsers, Serves(S), NEW u \in MountedUsers,
         UNCHANGED <<coreTime, delegate, listed, userTable>>,
         wrapper.at = "running" \/ S \subseteq wrapper.serves,
         panel'.at = "listed" => panel.at = "listed"
  PROVE  Ordered(u)' /\ Listed(u)' /\ Noticeable(u)' /\ Counted(u)'
<1>1. /\ wrapper'.at = wrapper.at /\ wrapper'.previous = wrapper.previous
      /\ wrapper'.active = wrapper.active /\ wrapper'.revokedAt = wrapper.revokedAt
      /\ wrapper'.polled = wrapper.polled /\ wrapper'.serves = S
      /\ overstay' = overstay /\ untold \subseteq untold'
      /\ u \in S \ wrapper.serves /\ listed[u].deadline <= coreTime => u \in untold'
  BY LeaseParts DEF Serves, WrapperStates, Permitted, PermittedAt
<1>2. Ordered(u)' /\ Listed(u)'
  BY <1>1, LeaseParts DEF Ordered, Listed
<1>3. Noticeable(u)'
  BY <1>1, LeaseParts DEF Noticeable
<1>4. Counted(u)'
  BY <1>1, LeaseParts DEF Counted
<1> QED
  BY <1>2, <1>3, <1>4

LEMMA ReadKeeps ==
  ASSUME LeaseInv, CoreLeasesTypeOK', ReadLeases, NEW u \in MountedUsers
  PROVE  Ordered(u)' /\ Listed(u)' /\ Noticeable(u)' /\ Counted(u)'
<1>1. /\ wrapper'.at = "read" /\ wrapper'.previous = listed
      /\ wrapper'.active = {x \in MountedUsers : listed[x].deadline > coreTime}
      /\ wrapper'.serves = wrapper.serves /\ wrapper'.revokedAt = wrapper.revokedAt
      /\ wrapper.at = "down"
      /\ UNCHANGED <<coreTime, delegate, listed, userTable, panel, untold, overstay>>
  BY LeaseParts DEF ReadLeases, WrapperStates, Permitted, PermittedAt
<1> QED
  BY <1>1, LeaseParts DEF Ordered, Listed, Noticeable, Counted

LEMMA PrepareKeeps ==
  ASSUME LeaseInv, CoreLeasesTypeOK', PrepareCore, NEW u \in MountedUsers
  PROVE  Ordered(u)' /\ Listed(u)' /\ Noticeable(u)' /\ Counted(u)'
<1>1. /\ wrapper'.at = "prepared" /\ wrapper'.previous = wrapper.previous
      /\ wrapper'.active = wrapper.active /\ wrapper'.revokedAt = wrapper.revokedAt
      /\ wrapper'.serves = Loaded /\ wrapper.at = "read"
      /\ UNCHANGED <<coreTime, delegate, listed, userTable, panel, untold, overstay>>
  BY LeaseParts DEF PrepareCore, WrapperStates
<1>2. u \in Loaded => listed[u].deadline > coreTime
  BY LeaseParts DEF Loaded, Listed, KnownTo, Permitted, PermittedAt
<1> QED
  BY <1>1, <1>2, LeaseParts DEF Ordered, Listed, Noticeable, Counted

(* The guard reads the file: it watches whom it permits or listed anew.    *)
LEMMA WatchedFacts ==
  ASSUME LeaseInv, NEW u \in MountedUsers, wrapper.at # "down"
  PROVE  /\ Watched.previous = listed /\ Watched.serves = wrapper.serves
         /\ Watched.revokedAt = wrapper.revokedAt /\ Watched.polled = wrapper.polled
         /\ wrapper.active \subseteq Watched.active
         /\ listed[u].deadline > coreTime => u \in Watched.active
         /\ u \in wrapper.serves \ untold => u \in Watched.active
<1>1. /\ Watched.previous = listed /\ Watched.serves = wrapper.serves
      /\ Watched.revokedAt = wrapper.revokedAt /\ Watched.polled = wrapper.polled
      /\ Watched.active = wrapper.active \union Noticed
  BY LeaseParts DEF Watched, WrapperStates
<1>2. listed[u].deadline > coreTime => u \in Noticed
  BY LeaseParts DEF Noticed, KnownTo
<1>3. wrapper.previous[u].revision < listed[u].revision => u \in Noticed
  BY LeaseParts DEF Noticed, KnownTo
<1> QED
  BY <1>1, <1>2, <1>3, LeaseParts DEF Noticeable

LEMMA RunKeeps ==
  ASSUME LeaseInv, CoreLeasesTypeOK', RunCore, NEW u \in MountedUsers
  PROVE  Ordered(u)' /\ Listed(u)' /\ Noticeable(u)' /\ Counted(u)'
<1>1. /\ wrapper.at = "prepared" /\ wrapper' = [Watched EXCEPT !.at = "running"]
      /\ untold' = untold \ Permitted(listed)
      /\ UNCHANGED <<coreTime, delegate, listed, userTable, panel, overstay>>
  BY DEF RunCore
<1>2. /\ wrapper'.at = "running" /\ wrapper'.previous = listed /\ wrapper'.serves = wrapper.serves
      /\ wrapper'.revokedAt = wrapper.revokedAt /\ wrapper'.active = Watched.active
  BY <1>1, LeaseParts DEF Watched, WrapperStates
<1>3. Ordered(u)' /\ Listed(u)'
  BY <1>1, <1>2, LeaseParts DEF Ordered, Listed
<1>4. Noticeable(u)'
  BY <1>1, <1>2, WatchedFacts, LeaseParts DEF Noticeable, Permitted, PermittedAt
<1>5. Counted(u)'
  BY <1>1, LeaseParts DEF Counted
<1> QED
  BY <1>3, <1>4, <1>5

LEMMA PollKeeps ==
  ASSUME LeaseInv, CoreLeasesTypeOK', PollLeases, NEW u \in MountedUsers
  PROVE  Ordered(u)' /\ Listed(u)' /\ Noticeable(u)' /\ Counted(u)'
<1>1. /\ wrapper.at = "running" /\ ~wrapper.polled
      /\ UNCHANGED <<coreTime, delegate, listed, userTable, panel>>
  BY DEF PollLeases
<1>2. CASE \E x \in Watched.active : Overdue(x)
  BY <1>1, <1>2, StopKeeps DEF PollLeases
<1>3. CASE ~ \E x \in Watched.active : Overdue(x)
  <2> DEFINE f == [x \in MountedUsers |-> IF x \in Watched.active THEN Revocation(x)
                                          ELSE Watched.revokedAt[x]]
  <2>1. /\ wrapper' = [Watched EXCEPT !.polled = TRUE, !.revokedAt = f]
        /\ untold' = untold \ Permitted(listed) /\ overstay' = overstay
    BY <1>3 DEF PollLeases
  <2>2. f[u] = IF u \in Watched.active THEN Revocation(u) ELSE wrapper.revokedAt[u]
    BY <1>1, WatchedFacts
  <2> HIDE DEF f
  <2>3. /\ wrapper'.at = "running" /\ wrapper'.previous = listed
        /\ wrapper'.serves = wrapper.serves /\ wrapper'.active = Watched.active
        /\ wrapper'.polled /\ wrapper'.revokedAt[u] = f[u]
    BY <1>1, <2>1, LeaseParts DEF Watched, WrapperStates
  <2>4. f[u] \in Nat \union {Unwatched} /\ f[u] <= coreTime
    BY <2>2, LeaseParts DEF Ordered, Revocation, Unwatched
  <2>5. Ordered(u)' /\ Listed(u)'
    BY <1>1, <2>3, <2>4, LeaseParts DEF Ordered, Listed
  <2>6. Noticeable(u)'
    BY <1>1, <2>1, <2>3, WatchedFacts, LeaseParts DEF Noticeable, Permitted, PermittedAt
  <2>7. ASSUME overstay[u] > 0, u \in wrapper.serves \ untold
        PROVE  /\ u \in Watched.active /\ f[u] # Unwatched
               /\ overstay[u] <= coreTime - f[u] + 1 /\ overstay[u] <= GuardGrace
    <3>1. u \in Watched.active /\ listed[u].deadline <= coreTime
      BY <1>1, <2>7, WatchedFacts, LeaseParts DEF Counted
    <3>2. /\ f[u] # Unwatched /\ f[u] \in Nat
          /\ wrapper.revokedAt[u] = Unwatched => f[u] = coreTime
          /\ wrapper.revokedAt[u] # Unwatched => f[u] = wrapper.revokedAt[u]
          /\ f[u] = Revocation(u)
      BY <2>2, <3>1, LeaseParts DEF Revocation, Unwatched
    <3>3. coreTime - f[u] < GuardGrace
      BY <1>3, <3>1, <3>2, LeaseParts DEF Overdue
    <3>4. overstay[u] <= coreTime - f[u] + 1
      BY <1>1, <2>4, <2>7, <3>2, LeaseParts DEF Counted
    <3> QED
      BY <3>1, <3>2, <3>3, <3>4, LeaseParts
  <2>8. overstay[u] > 0 => u \notin Permitted(listed)
    BY LeaseParts DEF Counted, Permitted, PermittedAt
  <2>9. Counted(u)'
    BY <1>1, <2>1, <2>3, <2>7, <2>8, LeaseParts DEF Counted
  <2> QED
    BY <2>5, <2>6, <2>9
<1> QED
  BY <1>2, <1>3

LEMMA SecondKeeps ==
  ASSUME LeaseInv, CoreLeasesTypeOK', SecondPasses, NEW u \in MountedUsers
  PROVE  Ordered(u)' /\ Listed(u)' /\ Noticeable(u)' /\ Counted(u)'
<1>1. /\ coreTime' = coreTime + 1
      /\ UNCHANGED <<delegate, listed, userTable, panel, untold>>
      /\ wrapper.at = "running" => wrapper.polled
  BY DEF SecondPasses
<1>2. /\ wrapper'.at = wrapper.at /\ wrapper'.previous = wrapper.previous
      /\ wrapper'.active = wrapper.active /\ wrapper'.revokedAt = wrapper.revokedAt
      /\ wrapper'.serves = wrapper.serves
      /\ wrapper.at = "running" => ~wrapper'.polled
  BY LeaseParts DEF SecondPasses, WrapperStates
<1>3. Ordered(u)' /\ Listed(u)'
  BY <1>1, <1>2, LeaseParts DEF Ordered, Listed, Unwatched
<1>4. Noticeable(u)'
  BY <1>1, <1>2, LeaseParts DEF Noticeable
<1>5. \/ overstay'[u] = 0
      \/ /\ wrapper.at = "running" /\ u \in wrapper.serves \ untold
         /\ listed[u].deadline <= coreTime + 1
         /\ overstay'[u] = IF overstay[u] = Overdone THEN Overdone ELSE overstay[u] + 1
  BY LeaseParts DEF SecondPasses, PermittedAt
<1>6. Counted(u)'
  <2>1. CASE overstay'[u] = 0
    BY <2>1, LeaseParts DEF Counted
  <2>2. CASE overstay'[u] # 0
    <3>1. /\ wrapper.at = "running" /\ wrapper.polled /\ u \in wrapper.serves \ untold
          /\ listed[u].deadline <= coreTime + 1
      BY <1>1, <1>5, <2>2
    <3>2. overstay[u] = 0 \/ /\ u \in wrapper.active /\ wrapper.revokedAt[u] # Unwatched
                             /\ overstay[u] <= coreTime - wrapper.revokedAt[u] + 1
                             /\ overstay[u] <= GuardGrace
      BY <3>1, LeaseParts DEF Counted
    <3>3. overstay'[u] = overstay[u] + 1
      BY <1>5, <2>2, <3>2, LeaseParts DEF Overdone
    <3> QED
      BY <1>1, <1>2, <3>1, <3>2, <3>3, LeaseParts DEF Counted, Unwatched
  <2> QED
    BY <2>1, <2>2
<1> QED
  BY <1>3, <1>4, <1>6

LEMMA LeaseInit ==
  ASSUME CoreLeasesInit
  PROVE  LeaseInv
<1>1. CoreLeasesTypeOK
  <2>1. Unheard \in Leases /\ 0 \in Deadlines /\ coreTime \in 0 .. MaxCoreTime
    BY CoreLeasesAssumption DEF CoreLeasesInit, Leases, Deadlines
  <2> QED
    BY <2>1, DownIsTyped, CoreLeasesAssumption
       DEF CoreLeasesInit, CoreLeasesTypeOK, WrapperStates, Overdone
<1>2. ASSUME NEW u \in MountedUsers PROVE Ordered(u) /\ Listed(u) /\ Noticeable(u) /\ Counted(u)
  BY DownIsTyped, CoreLeasesAssumption
     DEF CoreLeasesInit, Ordered, Listed, Noticeable, Counted, Unheard, Unwatched
<1> QED
  BY <1>1, <1>2 DEF LeaseInv

LEMMA LeaseNext ==
  ASSUME LeaseInv, [CoreLeasesNext]_CoreVars
  PROVE  LeaseInv'
<1> USE CoreLeasesAssumption
<1>1. CoreLeasesTypeOK /\ CoreLeasesTypeOK'
  BY LeaseTypeNext DEF LeaseInv
<1> SUFFICES ASSUME NEW u \in MountedUsers
             PROVE  Ordered(u)' /\ Listed(u)' /\ Noticeable(u)' /\ Counted(u)'
  BY <1>1 DEF LeaseInv
<1> DEFINE Kept == Ordered(u)' /\ Listed(u)' /\ Noticeable(u)' /\ Counted(u)'
<1>2. ASSUME NEW x \in MountedUsers, GrantMount(x) \/ WithdrawMount(x) \/ SwitchMount(x) PROVE Kept
  <2>1. /\ UNCHANGED <<coreTime, listed, wrapper, untold, overstay>>
        /\ u \in userTable' => u \in userTable
    BY <1>2 DEF GrantMount, WithdrawMount, SwitchMount
  <2>2. panel' = [panel EXCEPT !.at = "changed"] /\ panel \in PanelStates
    BY <1>2, LeaseParts DEF GrantMount, WithdrawMount, SwitchMount
  <2>3. panel'.at # "listed"
    BY <2>2 DEF PanelStates
  <2>4. delegate'[u].revision >= delegate[u].revision
    <3>1. /\ delegate \in [MountedUsers -> [until : Deadlines, revision : 0 .. MaxLeaseRevisions,
                                            on : BOOLEAN]]
          /\ delegate[u].revision \in Nat
      BY <1>1, LeaseParts DEF CoreLeasesTypeOK
    <3>2. CASE GrantMount(x)
      BY <3>1, <3>2 DEF GrantMount
    <3>3. CASE WithdrawMount(x)
      BY <3>1, <3>3 DEF WithdrawMount
    <3>4. CASE SwitchMount(x)
      BY <3>1, <3>4 DEF SwitchMount
    <3> QED
      BY <1>2, <3>2, <3>3, <3>4
  <2> QED
    BY <1>1, <2>1, <2>3, <2>4, LeaseParts, PanelKeeps
<1>3. ASSUME WriteUsers PROVE Kept
  <2>1. /\ UNCHANGED <<coreTime, listed, wrapper, untold, overstay, delegate>>
        /\ panel.at = "listed" /\ panel'.at = "written"
        /\ \A x \in userTable' : delegate[x].revision > 0
    BY <1>3 DEF WriteUsers, Authorised, Delegates
  <2> QED
    BY <1>1, <2>1, LeaseParts, PanelKeeps
<1>4. ASSUME PassFails \/ StopPanel \/ StartPanel PROVE Kept
  <2>1. /\ UNCHANGED <<coreTime, listed, wrapper, untold, overstay>>
        /\ delegate' = delegate /\ (u \in userTable' => u \in userTable)
        /\ panel'.at # "listed"
    BY <1>4, LeaseParts DEF PassFails, StopPanel, StartPanel, PanelStates
  <2>2. delegate'[u].revision >= delegate[u].revision
    BY <2>1, LeaseParts
  <2> QED
    BY <1>1, <2>1, <2>2, LeaseParts, PanelKeeps
<1>5. ASSUME RestartCore \/ CrashCore PROVE Kept
  <2>1. panel'.at = "listed" => panel.at = "listed"
    BY <1>5, LeaseParts DEF RestartCore, CrashCore, PanelStates
  <2> QED
    BY <1>1, <1>5, <2>1, StopKeeps DEF RestartCore, CrashCore
<1>6. ASSUME AddUsers PROVE Kept
  <2>1. panel.wants \in SUBSET MountedUsers
    BY LeaseParts DEF PanelStates
  <2> QED
    BY <1>1, <1>6, <2>1, ServeKeeps DEF AddUsers
<1>7. ASSUME KickUsers PROVE Kept
  <2>1. PICK S \in SUBSET (wrapper.serves \ panel.wants) : Serves(wrapper.serves \ S)
    BY <1>7 DEF KickUsers
  <2>2. wrapper.serves \ S \in SUBSET MountedUsers
    BY LeaseParts DEF WrapperStates
  <2> QED
    BY <1>1, <1>7, <2>1, <2>2, ServeKeeps DEF KickUsers
<1>8. ASSUME NEW x \in MountedUsers, Connect(x) PROVE Kept
  <2>1. wrapper.serves \union {x} \in SUBSET MountedUsers
    BY LeaseParts DEF WrapperStates
  <2> QED
    BY <1>1, <1>8, <2>1, ServeKeeps DEF Connect
<1>9. ASSUME NEW x \in MountedUsers, Disconnect(x) PROVE Kept
  <2>1. wrapper.serves \ {x} \in SUBSET MountedUsers
    BY LeaseParts DEF WrapperStates
  <2> QED
    BY <1>1, <1>9, <2>1, ServeKeeps DEF Disconnect
<1>10. CASE UNCHANGED CoreVars
  <2>1. /\ UNCHANGED <<coreTime, listed, wrapper, untold, overstay>>
        /\ delegate' = delegate /\ (u \in userTable' => u \in userTable)
        /\ panel'.at = "listed" => panel.at = "listed"
    BY <1>10 DEF CoreVars
  <2>2. delegate'[u].revision >= delegate[u].revision
    BY <2>1, LeaseParts
  <2> QED
    BY <1>1, <2>1, <2>2, LeaseParts, PanelKeeps
<1> QED
  BY <1>1, <1>2, <1>3, <1>4, <1>5, <1>6, <1>7, <1>8, <1>9, <1>10, ListKeeps, ReadKeeps,
     PrepareKeeps, RunKeeps, PollKeeps, SecondKeeps DEF CoreLeasesNext

(* Whatever the panel, the wrapper and the core do and whichever of them   *)
(* stops: an identity the core serves is watched by the guard or listed    *)
(* with a revision it has not seen, and the guard has counted its seconds. *)
THEOREM LeasesSafe == CoreLeasesSpec => []LeaseInv
<1> QED
  BY LeaseInit, LeaseNext, PTL DEF CoreLeasesSpec

(* guardMountLeases ends a core that serves a delegated identity one poll  *)
(* after the grace at the latest, for any grace, lease time and revisions. *)
THEOREM LeasesEnd == CoreLeasesSpec => []LeaseEndsService
<1>1. LeaseInv => LeaseEndsService
  <2> SUFFICES ASSUME LeaseInv, NEW u \in DOMAIN overstay PROVE overstay[u] <= GuardGrace + 1
    BY DEF LeaseEndsService
  <2>1. u \in MountedUsers
    BY DEF LeaseInv, CoreLeasesTypeOK
  <2> QED
    BY <2>1, LeaseParts DEF Counted
<1> QED
  BY <1>1, LeasesSafe, PTL
-----------------------------------------------------------------------------
(* The exit pool, its nodes and its import sources.                        *)

(* What the tables hold of a resource: those at an address are the public  *)
(* ones, and it is probed through the exit it has.                         *)
ResourceSound(i) == resource[i] # Absent =>
  /\ IF i \in Addresses
     THEN resource[i].group = "public" /\ resource[i].exit = i /\ resource[i].owner = Nobody
     ELSE resource[i].group # "public"
  /\ resource[i].probed \in {Nobody, resource[i].exit}
  /\ resource[i].owner # Nobody =>
       resource[i].owner \in ImportSources /\ source[resource[i].owner] # Absent

NodeSound(n) == node[n] # Absent /\ node[n].id \in Slots =>
  LET r == resource[node[n].id]
  IN r # Absent /\ r.exit = node[n].exit /\ (node[n].enabled => r.enabled)

SourceSound(s) == source[s] # Absent =>
  \A i \in source[s].members : resource[i] # Absent /\ resource[i].group = "feed"

(* A resource being edited is still there, else the probe is out of date.  *)
ProbeSound ==
  /\ Asked({"new"}) => probing.id \in Slots
  /\ Asked({"edit"}) => resource[probing.id] # Absent /\ resource[probing.id].group # "public"

(* A node that is bound leaves through its resource as it is, what a       *)
(* source brought is in the pool, and a probe's resource as well.          *)
ExitsInv ==
  /\ ExitsTypeOK /\ ProbeSound
  /\ \A i \in ResourceIds : ResourceSound(i)
  /\ \A n \in NodeIds : NodeSound(n)
  /\ \A s \in ImportSources : SourceSound(s)
-----------------------------------------------------------------------------
(* A row, a node, a source and a probe are told from their absence.        *)
LEMMA ExitRows ==
  /\ \A r \in Resources \union Nodes \union SourceRows \union Probes : r # Absent
  /\ \A p \in Probes : "id" \in DOMAIN p /\ p # Outdated
  /\ "id" \notin DOMAIN Absent /\ "id" \notin DOMAIN Outdated
<1>1. \A r \in Resources : "exit" \in DOMAIN r
  BY DEF Resources
<1>2. \A n \in Nodes : "exit" \in DOMAIN n
  BY DEF Nodes
<1>3. \A s \in SourceRows : "members" \in DOMAIN s
  BY DEF SourceRows
<1>4. \A p \in Probes : "id" \in DOMAIN p /\ "exit" \in DOMAIN p
  BY DEF Probes
<1>5. /\ "exit" \notin DOMAIN Absent /\ "members" \notin DOMAIN Absent
      /\ "id" \notin DOMAIN Absent
  BY DEF Absent
<1>6. "id" \notin DOMAIN Outdated
  BY DEF Outdated
<1> QED
  BY <1>1, <1>2, <1>3, <1>4, <1>5, <1>6

LEMMA ExitsInvMeans == ExitsInv => ExitsInUse
<1> SUFFICES ASSUME ExitsInv PROVE ExitsInUse
  OBVIOUS
<1>1. /\ \A n \in LiveNodes : n \in NodeIds /\ node[n] # Absent
      /\ \A i : i \in Present <=> i \in ResourceIds /\ resource[i] # Absent
      /\ \A s : s \in KnownSources <=> s \in ImportSources /\ source[s] # Absent
  BY DEF ExitsInv, ExitsTypeOK, LiveNodes, Present, KnownSources
<1>2. \A n \in LiveNodes : node[n].id \in Slots =>
        LET r == resource[node[n].id]
        IN r # Absent /\ r.exit = node[n].exit /\ (node[n].enabled => r.enabled)
  BY <1>1 DEF ExitsInv, NodeSound
<1>3. \A i \in Present : /\ resource[i].probed \in {Nobody, resource[i].exit}
                         /\ resource[i].owner \in KnownSources \union {Nobody}
  BY <1>1 DEF ExitsInv, ResourceSound
<1>4. \A s \in KnownSources : source[s].members \subseteq Present
  <2> SUFFICES ASSUME NEW s \in KnownSources, NEW i \in source[s].members PROVE i \in Present
    OBVIOUS
  <2>1. s \in ImportSources /\ source[s] # Absent /\ source[s] \in SourceRows
    BY <1>1 DEF ExitsInv, ExitsTypeOK
  <2>2. i \in ResourceIds
    BY <2>1 DEF SourceRows
  <2> QED
    BY <1>1, <2>1, <2>2 DEF ExitsInv, SourceSound
<1> QED
  BY <1>2, <1>3, <1>4 DEF ExitsInUse

LEMMA ExitsInitInv == ExitsInit => ExitsInv
<1> SUFFICES ASSUME ExitsInit PROVE ExitsInv
  OBVIOUS
<1>1. ExitsTypeOK
  BY DEF ExitsInit, ExitsTypeOK
<1>2. /\ \A i \in ResourceIds : ResourceSound(i)
      /\ \A n \in NodeIds : NodeSound(n)
      /\ \A s \in ImportSources : SourceSound(s)
  BY DEF ExitsInit, ResourceSound, NodeSound, SourceSound
<1>3. ProbeSound
  BY ExitRows DEF ExitsInit, ProbeSound, Asked
<1> QED
  BY <1>1, <1>2, <1>3 DEF ExitsInv

(* A probe under way, when it is not begun or goes on.                     *)
LEMMA ProbeKept ==
  ASSUME ExitsInv, probing' \in {probing, Absent, Outdated},
         probing' = probing /\ Asked({"edit"}) =>
           resource'[probing.id] # Absent /\ resource'[probing.id].group # "public"
  PROVE  ProbeSound' /\ probing' \in Probes \union {Absent, Outdated}
<1>1. probing' \in Probes \union {Absent, Outdated}
  BY DEF ExitsInv, ExitsTypeOK
<1>2. CASE probing' = probing
  <2>1. /\ Asked({"new"})' => Asked({"new"})
        /\ Asked({"edit"})' => Asked({"edit"})
    BY <1>2 DEF Asked
  <2> QED
    BY <1>1, <1>2, <2>1 DEF ProbeSound, ExitsInv
<1>3. CASE probing' \in {Absent, Outdated}
  BY <1>3, ExitRows DEF ProbeSound, Asked
<1> QED
  BY <1>1, <1>2, <1>3

LEMMA RevisedProbe ==
  ASSUME ExitsInv, NEW S, Revised(S),
         \A i \in ResourceIds \ S : resource[i] # Absent /\ resource[i].group # "public" =>
           resource'[i] # Absent /\ resource'[i].group # "public"
  PROVE  ProbeSound' /\ probing' \in Probes \union {Absent, Outdated}
<1>1. probing' \in {probing, Absent, Outdated}
  BY DEF Revised
<1>2. ASSUME probing' = probing, Asked({"edit"})
      PROVE  resource'[probing.id] # Absent /\ resource'[probing.id].group # "public"
  <2>1. probing \in Probes
    BY <1>2, ExitRows DEF Asked, ExitsInv, ExitsTypeOK
  <2>2. probing.id \in ResourceIds \ S
    BY <1>2, <2>1, ExitRows DEF Revised, Asked, Probes
  <2> QED
    BY <1>2, <2>2 DEF ExitsInv, ProbeSound
<1> QED
  BY <1>1, <1>2, ProbeKept

(* Steps that change no table.                                             *)
LEMMA QuietExits ==
  ASSUME ExitsInv, UNCHANGED <<resource, node, source, publicOn>>, ProbeSound',
         probing' \in Probes \union {Absent, Outdated},
         heavy' \in Fetches \union Screenings \union {Absent, Outdated}
  PROVE  ExitsInv'
<1>1. ExitsTypeOK'
  BY DEF ExitsInv, ExitsTypeOK
<1>2. /\ \A i \in ResourceIds : ResourceSound(i)'
      /\ \A n \in NodeIds : NodeSound(n)'
      /\ \A s \in ImportSources : SourceSound(s)'
  BY DEF ExitsInv, ResourceSound, NodeSound, SourceSound
<1> QED
  BY <1>1, <1>2 DEF ExitsInv

(* Steps that change the nodes only.                                       *)
LEMMA NodeStep ==
  ASSUME ExitsInv, UNCHANGED <<resource, source, publicOn, probing, heavy>>,
         node' \in [NodeIds -> Nodes \union {Absent}],
         \A n \in NodeIds : NodeSound(n)'
  PROVE  ExitsInv'
<1>1. ExitsTypeOK'
  BY DEF ExitsInv, ExitsTypeOK
<1>2. /\ \A i \in ResourceIds : ResourceSound(i)'
      /\ \A s \in ImportSources : SourceSound(s)'
      /\ ProbeSound'
  BY DEF ExitsInv, ResourceSound, SourceSound, ProbeSound, Asked
<1> QED
  BY <1>1, <1>2 DEF ExitsInv

(* Steps that change one resource, or make it, and perhaps its nodes.      *)
LEMMA ResourceStep ==
  ASSUME ExitsInv, NEW i \in ResourceIds, NEW r \in Resources,
         resource' = [resource EXCEPT ![i] = r],
         resource[i] # Absent => r.group = resource[i].group /\ r.owner = resource[i].owner,
         resource[i] = Absent => i \in Slots /\ r.group # "public" /\ r.owner = Nobody,
         i \in Addresses => r.exit = i, r.probed \in {Nobody, r.exit},
         UNCHANGED <<source, publicOn, heavy>>, probing' \in {probing, Absent, Outdated},
         node' \in [NodeIds -> Nodes \union {Absent}],
         \A n \in NodeIds : NodeSound(n)'
  PROVE  ExitsInv'
<1>1. ExitsTypeOK'
  BY DEF ExitsInv, ExitsTypeOK
<1>2. \A j \in ResourceIds : resource'[j] = IF j = i THEN r ELSE resource[j]
  BY DEF ExitsInv, ExitsTypeOK
<1>3. i \in Slots => i \notin Addresses
  BY ExitsAssumption
<1>4. ResourceSound(i)'
  <2>1. CASE resource[i] = Absent
    BY <1>2, <1>3, <2>1 DEF ResourceSound
  <2>2. CASE resource[i] # Absent
    BY <1>2, <2>2 DEF ResourceSound, ExitsInv
  <2> QED
    BY <2>1, <2>2
<1>5. \A j \in ResourceIds : ResourceSound(j)'
  BY <1>2, <1>4 DEF ResourceSound, ExitsInv
<1>6. \A s \in ImportSources : SourceSound(s)'
  <2> SUFFICES ASSUME NEW s \in ImportSources, source[s] # Absent, NEW j \in source[s].members
               PROVE  resource'[j] # Absent /\ resource'[j].group = "feed"
    BY DEF SourceSound
  <2>1. resource[j] # Absent /\ resource[j].group = "feed" /\ j \in ResourceIds
    BY DEF ExitsInv, SourceSound, ExitsTypeOK, SourceRows
  <2> QED
    BY <1>2, <2>1, ExitRows
<1>7. ProbeSound'
  <2>1. ASSUME probing' = probing, Asked({"edit"})
        PROVE  resource'[probing.id] # Absent /\ resource'[probing.id].group # "public"
    <3>1. probing \in Probes /\ probing.id \in ResourceIds
      BY <2>1, ExitRows DEF Asked, ExitsInv, ExitsTypeOK, Probes
    <3>2. resource[probing.id] # Absent /\ resource[probing.id].group # "public"
      BY <2>1 DEF ExitsInv, ProbeSound
    <3> QED
      BY <1>2, <3>1, <3>2, ExitRows
  <2> QED
    BY <2>1, ProbeKept
<1> QED
  BY <1>1, <1>5, <1>6, <1>7 DEF ExitsInv

(* What bindPool leaves of a node.                                         *)
LEMMA ReboundNodes ==
  ASSUME ExitsTypeOK, NEW i \in ResourceIds, NEW r \in Resources
  PROVE  /\ Rebound(i, r) \in [NodeIds -> Nodes \union {Absent}]
         /\ \A n \in NodeIds :
              /\ Rebound(i, r)[n] = Absent <=> node[n] = Absent
              /\ node[n] # Absent =>
                   /\ Rebound(i, r)[n].enabled = node[n].enabled
                   /\ Rebound(i, r)[n].id = node[n].id
                   /\ Rebound(i, r)[n].exit = IF node[n].id = i THEN r.exit ELSE node[n].exit
<1>1. \A n \in NodeIds : n \in BoundTo(i) <=> node[n] # Absent /\ node[n].id = i
  BY DEF BoundTo, LiveNodes, ExitsTypeOK
<1>2. \A n \in NodeIds : Rebound(i, r)[n] =
        IF node[n] # Absent /\ node[n].id = i THEN Bind(node[n], i, r) ELSE node[n]
  BY <1>1 DEF Rebound
<1>3. ASSUME NEW n \in NodeIds, node[n] # Absent
      PROVE  /\ Bind(node[n], i, r) \in Nodes
             /\ Bind(node[n], i, r).enabled = node[n].enabled
             /\ Bind(node[n], i, r).id = i /\ Bind(node[n], i, r).exit = r.exit
  <2>1. node[n] \in Nodes
    BY <1>3 DEF ExitsTypeOK
  <2>2. r.exit \in Targets
    BY DEF Resources
  <2> QED
    BY <2>1, <2>2 DEF Bind, Nodes
<1>4. ASSUME NEW n \in NodeIds PROVE Rebound(i, r)[n] \in Nodes \union {Absent}
  BY <1>2, <1>3 DEF ExitsTypeOK
<1>5. Rebound(i, r) \in [NodeIds -> Nodes \union {Absent}]
  BY <1>4 DEF Rebound
<1> QED
  BY <1>2, <1>3, <1>5, ExitRows
-----------------------------------------------------------------------------
(* Steps that leave the tables alone.                                      *)
LEMMA BeginEditExitInv ==
  ASSUME ExitsInv, NEW i \in ResourceIds, NEW x \in Targets, NEW enabled \in BOOLEAN,
         BeginEditExit(i, x, enabled)
  PROVE  ExitsInv'
<1> DEFINE p == [for |-> IF resource[i] = Absent THEN "new" ELSE "edit", id |-> i,
                 exit |-> x, enabled |-> enabled]
<1>1. /\ UNCHANGED <<resource, node, source, publicOn, heavy>> /\ probing' = p
      /\ resource[i] = Absent => i \in Slots
      /\ resource[i] # Absent => resource[i].group \in {"own", "feed"}
  BY DEF BeginEditExit
<1>2. p \in Probes /\ heavy \in Fetches \union Screenings \union {Absent, Outdated}
  BY DEF Probes, ExitsInv, ExitsTypeOK
<1>3. ProbeSound'
  BY <1>1 DEF ProbeSound, Asked
<1> QED
  BY <1>1, <1>2, <1>3, QuietExits

LEMMA BeginCheckInv ==
  ASSUME ExitsInv, NEW i \in ResourceIds, BeginCheck(i) PROVE ExitsInv'
<1> DEFINE p == [for |-> "check", id |-> i, exit |-> resource[i].exit, enabled |-> TRUE]
<1>1. /\ UNCHANGED <<resource, node, source, publicOn, heavy>> /\ probing' = p
      /\ resource[i] \in Resources
  BY DEF BeginCheck, Present, ExitsInv, ExitsTypeOK
<1>2. p \in Probes /\ heavy \in Fetches \union Screenings \union {Absent, Outdated}
  BY <1>1 DEF Probes, Resources, ExitsInv, ExitsTypeOK
<1>3. ProbeSound'
  BY <1>1 DEF ProbeSound, Asked
<1> QED
  BY <1>1, <1>2, <1>3, QuietExits

LEMMA QuietStepsInv ==
  ASSUME ExitsInv,
         \/ ProbeRefused \/ StartScreening \/ AbandonHeavy \/ RestartPanel
         \/ \E s \in ImportSources : EditSource(s) \/ StartFetch(s)
  PROVE  ExitsInv'
<1>1. /\ UNCHANGED <<resource, node, source, publicOn>>
      /\ probing' \in {probing, Absent, Outdated}
  BY DEF ProbeRefused, ProbeEnds, StartScreening, AbandonHeavy, RestartPanel,
         EditSource, StartFetch
<1>2. heavy' \in Fetches \union Screenings \union {Absent, Outdated}
  <2>1. CASE StartScreening
    <3>1. InGroup("public") \subseteq Addresses
      BY DEF InGroup, Present, ExitsInv, ExitsTypeOK, ResourceSound
    <3> QED
      BY <2>1, <3>1 DEF StartScreening, Screenings
  <2>2. ASSUME NEW s \in ImportSources, EditSource(s) \/ StartFetch(s)
        PROVE  heavy' \in Fetches \union Screenings \union {Absent, Outdated}
    BY <2>2 DEF EditSource, StartFetch, Fetches, ExitsInv, ExitsTypeOK
  <2>3. CASE ProbeRefused \/ AbandonHeavy \/ RestartPanel
    BY <2>3 DEF ProbeRefused, AbandonHeavy, RestartPanel, ExitsInv, ExitsTypeOK
  <2> QED
    BY <2>1, <2>2, <2>3
<1>3. ProbeSound' /\ probing' \in Probes \union {Absent, Outdated}
  BY <1>1, ProbeKept DEF ExitsInv, ProbeSound
<1> QED
  BY <1>1, <1>2, <1>3, QuietExits
(* A probe that changes nothing.                                           *)
LEMMA ProbeFails ==
  ASSUME ExitsInv, probing' = Absent, UNCHANGED <<resource, node, source, publicOn, heavy>>
  PROVE  ExitsInv'
<1>1. ProbeSound' /\ heavy' \in Fetches \union Screenings \union {Absent, Outdated}
  BY ExitRows DEF ProbeSound, Asked, ExitsInv, ExitsTypeOK
<1> QED
  BY <1>1, QuietExits
-----------------------------------------------------------------------------
(* Resources edited by the owner.                                          *)
LEMMA ImportExitInv ==
  ASSUME ExitsInv, NEW i \in Slots, NEW x \in Targets, ImportExit(i, x) PROVE ExitsInv'
<1> DEFINE r == New(IF x \in Addresses THEN "own" ELSE "feed", x, Nobody, Nobody)
<1>1. /\ resource[i] = Absent /\ resource' = [resource EXCEPT ![i] = r]
      /\ UNCHANGED <<node, source, publicOn, probing, heavy>>
  BY DEF ImportExit, Vacant
<1>2. /\ r \in Resources /\ r.group # "public" /\ r.owner = Nobody /\ r.probed = Nobody
      /\ i \in ResourceIds /\ i \notin Addresses
  BY ExitsAssumption DEF New, Resources, ResourceIds
<1>3. ASSUME NEW n \in NodeIds PROVE NodeSound(n)'
  <2>1. NodeSound(n) /\ resource \in [ResourceIds -> Resources \union {Absent}]
    BY DEF ExitsInv, ExitsTypeOK
  <2>2. \A j \in Slots : j # i => resource'[j] = resource[j]
    BY <1>1, <2>1 DEF ResourceIds
  <2> QED
    BY <1>1, <2>1, <2>2 DEF NodeSound
<1>4. node' \in [NodeIds -> Nodes \union {Absent}]
  BY <1>1 DEF ExitsInv, ExitsTypeOK
<1> QED
  BY <1>1, <1>2, <1>3, <1>4, ResourceStep

(* A resource changed together with the nodes bound to it.                 *)
LEMMA BoundNodes ==
  ASSUME ExitsInv, NEW i \in ResourceIds, NEW r \in Resources,
         resource' = [resource EXCEPT ![i] = r], node' = Rebound(i, r),
         \A n \in NodeIds : node[n] # Absent /\ node[n].id = i /\ node[n].enabled => r.enabled
  PROVE  /\ node' \in [NodeIds -> Nodes \union {Absent}]
         /\ \A n \in NodeIds : NodeSound(n)'
<1>1. /\ node' \in [NodeIds -> Nodes \union {Absent}]
      /\ \A n \in NodeIds :
           /\ node'[n] = Absent <=> node[n] = Absent
           /\ node[n] # Absent =>
                /\ node'[n].enabled = node[n].enabled /\ node'[n].id = node[n].id
                /\ node'[n].exit = IF node[n].id = i THEN r.exit ELSE node[n].exit
  BY ReboundNodes DEF ExitsInv
<1>2. \A j \in ResourceIds : resource'[j] = IF j = i THEN r ELSE resource[j]
  BY DEF ExitsInv, ExitsTypeOK
<1>3. ASSUME NEW n \in NodeIds, node'[n] # Absent, node'[n].id \in Slots
      PROVE  LET q == resource'[node'[n].id]
             IN q # Absent /\ q.exit = node'[n].exit /\ (node'[n].enabled => q.enabled)
  <2>1. node[n] # Absent /\ node'[n].id = node[n].id /\ node'[n].enabled = node[n].enabled
    BY <1>1, <1>3
  <2>2. CASE node[n].id = i
    BY <1>1, <1>2, <2>1, <2>2, ExitRows
  <2>3. CASE node[n].id # i
    BY <1>1, <1>2, <1>3, <2>1, <2>3 DEF ExitsInv, NodeSound, ResourceIds
  <2> QED
    BY <2>2, <2>3
<1> QED
  BY <1>1, <1>3 DEF NodeSound

LEMMA FinishEditExitInv == ASSUME ExitsInv, FinishEditExit PROVE ExitsInv'
<1> DEFINE i == probing.id
<1>1. /\ probing' = Absent /\ UNCHANGED <<source, publicOn, heavy>>
      /\ Asked({"new", "edit"})
  BY DEF FinishEditExit, ProbeEnds
<1>2. /\ probing \in Probes /\ i \in ResourceIds /\ probing.exit \in Targets
      /\ probing.for \in {"new", "edit"} /\ probing.enabled \in BOOLEAN
  BY <1>1, ExitRows DEF Asked, ExitsInv, ExitsTypeOK, Probes
<1>3. /\ probing.for = "new" => i \in Slots
      /\ probing.for = "edit" => resource[i] # Absent /\ resource[i].group # "public"
  BY <1>1 DEF ExitsInv, ProbeSound, Asked
<1>4. CASE UNCHANGED <<resource, node>>
  BY <1>1, <1>4, ProbeFails
<1>5. ASSUME NEW passed \in BOOLEAN, EditAccepted(probing, passed),
             NEW r \in Resources, NEW saved,
             r = IF probing.for = "new" THEN New("own", probing.exit, Nobody, Nobody)
                 ELSE Edited(resource[i], probing.exit, probing.enabled),
             saved = IF passed /\ r.enabled THEN [r EXCEPT !.probed = probing.exit] ELSE r,
             resource' = [resource EXCEPT ![i] = saved], node' = Rebound(i, saved)
      PROVE  ExitsInv'
  <2>1. r.exit = probing.exit /\ r.probed \in {Nobody, r.exit}
    <3>1. CASE probing.for = "new"
      BY <1>5, <3>1 DEF New
    <3>2. CASE probing.for = "edit"
      <4>1. resource[i] \in Resources /\ resource[i].probed \in {Nobody, resource[i].exit}
        BY <1>2, <1>3, <3>2 DEF ExitsInv, ExitsTypeOK, ResourceSound
      <4> QED
        BY <1>5, <3>2, <4>1 DEF Edited, Resources
    <3> QED
      BY <1>2, <3>1, <3>2
  <2>2. /\ saved \in Resources /\ saved.exit = r.exit /\ saved.group = r.group
        /\ saved.owner = r.owner /\ saved.enabled = r.enabled
        /\ saved.probed \in {Nobody, saved.exit}
    BY <1>2, <1>5, <2>1 DEF Resources
  <2>3. /\ resource[i] # Absent => r.group = resource[i].group /\ r.owner = resource[i].owner
        /\ resource[i] = Absent => i \in Slots /\ r.group # "public" /\ r.owner = Nobody
        /\ i \notin Addresses
    <3>1. CASE probing.for = "new"
      <4>1. i \in Slots /\ resource[i] = Absent
        BY <1>5, <3>1 DEF EditAccepted, Vacant
      <4> QED
        BY <1>5, <3>1, <4>1, ExitsAssumption DEF New
    <3>2. CASE probing.for = "edit"
      <4>1. resource[i] \in Resources /\ resource[i] # Absent /\ i \notin Addresses
        BY <1>2, <1>3, <3>2 DEF ExitsInv, ExitsTypeOK, ResourceSound
      <4> QED
        BY <1>5, <3>2, <4>1 DEF Edited, Resources
    <3> QED
      BY <1>2, <3>1, <3>2
  <2>4. ASSUME NEW n \in NodeIds, node[n] # Absent, node[n].id = i, node[n].enabled
        PROVE  saved.enabled
    <3>1. BoundTo(i) # {}
      BY <2>4 DEF BoundTo, LiveNodes, ExitsInv, ExitsTypeOK
    <3>2. probing.enabled
      BY <1>5, <3>1 DEF EditAccepted
    <3>3. CASE probing.for = "new"
      BY <1>5, <2>2, <3>3 DEF New
    <3>4. CASE probing.for = "edit"
      <4>1. resource[i] \in Resources
        BY <1>2, <1>3, <3>4 DEF ExitsInv, ExitsTypeOK
      <4> QED
        BY <1>5, <2>2, <3>2, <3>4, <4>1 DEF Edited, Resources
    <3> QED
      BY <1>2, <3>3, <3>4
  <2>5. /\ node' \in [NodeIds -> Nodes \union {Absent}]
        /\ \A n \in NodeIds : NodeSound(n)'
    <3>1. i \in ResourceIds /\ saved \in Resources
      BY <1>2, <2>2
    <3>2. resource' = [resource EXCEPT ![i] = saved] /\ node' = Rebound(i, saved)
      BY <1>5
    <3>3. \A n \in NodeIds :
            node[n] # Absent /\ node[n].id = i /\ node[n].enabled => saved.enabled
      BY <2>4
    <3> HIDE DEF i
    <3> QED
      BY <3>1, <3>2, <3>3, BoundNodes
  <2> QED
    BY <1>1, <1>2, <1>5, <2>2, <2>3, <2>5, ResourceStep
<1>6. /\ New("own", probing.exit, Nobody, Nobody) \in Resources
      /\ probing.for = "edit" => Edited(resource[i], probing.exit, probing.enabled) \in Resources
  <2>1. New("own", probing.exit, Nobody, Nobody) \in Resources
    BY <1>2 DEF New, Resources
  <2>2. ASSUME probing.for = "edit"
        PROVE  Edited(resource[i], probing.exit, probing.enabled) \in Resources
    <3>1. resource[i] \in Resources
      BY <1>2, <1>3, <2>2 DEF ExitsInv, ExitsTypeOK
    <3> QED
      BY <1>2, <3>1 DEF Edited, Resources
  <2> QED
    BY <2>1, <2>2
<1> QED
  BY <1>2, <1>4, <1>5, <1>6 DEF FinishEditExit

LEMMA FinishCheckInv == ASSUME ExitsInv, FinishCheck PROVE ExitsInv'
<1> DEFINE i == probing.id
           r == [resource[i] EXCEPT !.probed = probing.exit]
<1>1. /\ probing' = Absent /\ UNCHANGED <<source, publicOn, heavy>> /\ Asked({"check"})
  BY DEF FinishCheck, ProbeEnds
<1>2. probing \in Probes /\ i \in ResourceIds
  BY <1>1, ExitRows DEF Asked, ExitsInv, ExitsTypeOK, Probes
<1>3. CASE UNCHANGED <<resource, node>>
  BY <1>1, <1>3, ProbeFails
<1>4. CASE /\ StillChecked(probing) /\ resource' = [resource EXCEPT ![i].probed = probing.exit]
           /\ node' = Rebound(i, resource[i])
  <2>1. /\ resource[i] \in Resources /\ resource[i] # Absent
        /\ resource[i].exit = probing.exit /\ ResourceSound(i)
    BY <1>2, <1>4 DEF StillChecked, ExitsInv, ExitsTypeOK
  <2>2. /\ r \in Resources /\ r.exit = resource[i].exit /\ r.group = resource[i].group
        /\ r.owner = resource[i].owner /\ r.probed = r.exit /\ r.enabled = resource[i].enabled
        /\ resource' = [resource EXCEPT ![i] = r]
    BY <1>2, <1>4, <2>1 DEF Resources, ExitsInv, ExitsTypeOK
  <2>3. /\ node' \in [NodeIds -> Nodes \union {Absent}]
        /\ \A n \in NodeIds :
             /\ node'[n] = Absent <=> node[n] = Absent
             /\ node[n] # Absent =>
                  /\ node'[n].enabled = node[n].enabled /\ node'[n].id = node[n].id
                  /\ node'[n].exit = IF node[n].id = i THEN r.exit ELSE node[n].exit
    BY <1>2, <1>4, <2>1, <2>2, ReboundNodes DEF ExitsInv
  <2>4. ASSUME NEW n \in NodeIds PROVE NodeSound(n)'
    <3>1. /\ NodeSound(n)
          /\ \A j \in ResourceIds : resource'[j] = IF j = i THEN r ELSE resource[j]
      BY <2>2 DEF ExitsInv, ExitsTypeOK
    <3> QED
      BY <2>1, <2>2, <2>3, <3>1, ExitRows DEF NodeSound, ResourceIds
  <2>5. i \in Addresses => r.exit = i
    BY <2>1, <2>2 DEF ResourceSound
  <2> QED
    BY <1>1, <1>2, <2>1, <2>2, <2>3, <2>4, <2>5, ResourceStep
<1> QED
  BY <1>3, <1>4 DEF FinishCheck
-----------------------------------------------------------------------------
(* Nodes.                                                                  *)
LEMMA SaveNodeInv ==
  ASSUME ExitsInv, NEW n \in ManualNodes, NEW i \in ResourceIds, NEW enabled \in BOOLEAN,
         SaveNode(n, i, enabled)
  PROVE  ExitsInv'
<1>1. PICK x \in Targets :
        LET r == IF resource[i] = Absent THEN New("own", x, Nobody, x)
                 ELSE [resource[i] EXCEPT !.probed = x]
            saved == [id |-> i, exit |-> x, enabled |-> enabled]
        IN /\ \/ Choosable(i) /\ x = resource[i].exit
              \/ x \in Addresses /\ Adoptable(i, x)
           /\ resource' = [resource EXCEPT ![i] = r]
           /\ \E m \in {saved, node[n]} : node' = [Rebound(i, r) EXCEPT ![n] = m]
           /\ UNCHANGED <<source, publicOn, probing, heavy>>
  BY DEF SaveNode
<1> DEFINE r == IF resource[i] = Absent THEN New("own", x, Nobody, x)
                ELSE [resource[i] EXCEPT !.probed = x]
           saved == [id |-> i, exit |-> x, enabled |-> enabled]
<1>2. resource[i] # Absent => /\ resource[i] \in Resources /\ resource[i].enabled
                              /\ resource[i].exit = x
  <2>1. CASE Choosable(i) /\ x = resource[i].exit
    BY <2>1 DEF Choosable, ExitsInv, ExitsTypeOK
  <2>2. CASE Adoptable(i, x)
    BY <2>2 DEF Adoptable, SameExit, Present, Vacant, ExitsInv, ExitsTypeOK
  <2> QED
    BY <1>1, <2>1, <2>2
<1>3. resource[i] = Absent => i \in Slots /\ i \notin Addresses
  BY <1>1, ExitsAssumption DEF Choosable, Adoptable, SameExit, Present, Vacant
<1>4. /\ r \in Resources /\ r.exit = x /\ r.probed = x /\ r.enabled
      /\ resource[i] # Absent => r.group = resource[i].group /\ r.owner = resource[i].owner
      /\ resource[i] = Absent => r.group # "public" /\ r.owner = Nobody
  <2>1. CASE resource[i] = Absent
    BY <2>1 DEF New, Resources
  <2>2. CASE resource[i] # Absent
    BY <1>2, <2>2 DEF Resources
  <2> QED
    BY <2>1, <2>2
<1>5. /\ saved \in Nodes /\ n \in NodeIds
      /\ \E m \in {saved, node[n]} : node' = [Rebound(i, r) EXCEPT ![n] = m]
      /\ resource' = [resource EXCEPT ![i] = r]
  BY <1>1 DEF Nodes, NodeIds
<1> HIDE DEF r, saved
<1>6. /\ node' \in [NodeIds -> Nodes \union {Absent}]
      /\ node'[n] \in {saved, node[n]}
      /\ \A o \in NodeIds \ {n} :
           /\ node'[o] = Absent <=> node[o] = Absent
           /\ node[o] # Absent =>
                /\ node'[o].enabled = node[o].enabled /\ node'[o].id = node[o].id
                /\ node'[o].exit = IF node[o].id = i THEN r.exit ELSE node[o].exit
  <2>1. node[n] \in Nodes \union {Absent}
    BY <1>5 DEF ExitsInv, ExitsTypeOK
  <2>2. Rebound(i, r) \in [NodeIds -> Nodes \union {Absent}]
    BY <1>4, ReboundNodes DEF ExitsInv
  <2>3. /\ node' \in [NodeIds -> Nodes \union {Absent}]
        /\ node'[n] \in {saved, node[n]}
        /\ \A o \in NodeIds \ {n} : node'[o] = Rebound(i, r)[o]
    BY <1>5, <2>1, <2>2
  <2> QED
    BY <1>4, <2>3, ReboundNodes DEF ExitsInv
<1>7. \A j \in ResourceIds : resource'[j] = IF j = i THEN r ELSE resource[j]
  BY <1>5 DEF ExitsInv, ExitsTypeOK
<1>8. \A j \in ResourceIds : resource[j] # Absent =>
        /\ resource'[j] # Absent /\ resource'[j].exit = resource[j].exit
        /\ resource[j].enabled => resource'[j].enabled
  BY <1>2, <1>4, <1>7, ExitRows
<1>9. ASSUME NEW o \in NodeIds, node'[o] # Absent, node'[o].id \in Slots
      PROVE  LET q == resource'[node'[o].id]
             IN q # Absent /\ q.exit = node'[o].exit /\ (node'[o].enabled => q.enabled)
  <2>1. CASE o = n /\ node'[o] = saved
    <3>1. node'[o].id = i /\ node'[o].exit = x
      BY <2>1 DEF saved
    <3> QED
      BY <1>4, <1>7, <3>1, ExitRows
  <2>2. CASE o = n /\ node'[o] = node[o]
    BY <1>8, <1>9, <2>2 DEF ExitsInv, NodeSound, ResourceIds
  <2>3. CASE o # n
    <3>1. /\ node[o] # Absent /\ node'[o].id = node[o].id
          /\ node'[o].enabled = node[o].enabled
          /\ node'[o].exit = IF node[o].id = i THEN r.exit ELSE node[o].exit
      BY <1>6, <1>9, <2>3
    <3>2. /\ resource[node[o].id] # Absent /\ resource[node[o].id].exit = node[o].exit
          /\ node[o].enabled => resource[node[o].id].enabled
          /\ node[o].id \in ResourceIds
      BY <1>9, <3>1 DEF ExitsInv, NodeSound, ResourceIds
    <3>3. node'[o].exit = node[o].exit
      BY <1>2, <1>4, <3>1, <3>2
    <3> QED
      BY <1>8, <3>1, <3>2, <3>3
  <2> QED
    BY <1>6, <2>1, <2>2, <2>3
<1>10. i \in Addresses => r.exit = i
  BY <1>2, <1>3, <1>4 DEF ExitsInv, ResourceSound
<1>11. \A o \in NodeIds : NodeSound(o)'
  BY <1>9 DEF NodeSound
<1>12. UNCHANGED <<source, publicOn, probing, heavy>>
  BY <1>1
<1> QED
  BY <1>3, <1>4, <1>5, <1>6, <1>10, <1>11, <1>12, ResourceStep

LEMMA SaveDirectNodeInv ==
  ASSUME ExitsInv, NEW n \in ManualNodes, NEW enabled \in BOOLEAN, SaveDirectNode(n, enabled)
  PROVE  ExitsInv'
<1> DEFINE m == [id |-> Direct, exit |-> Direct, enabled |-> enabled]
<1>1. /\ node' = [node EXCEPT ![n] = m] /\ n \in NodeIds
      /\ UNCHANGED <<resource, source, publicOn, probing, heavy>>
  BY DEF SaveDirectNode, NodeIds
<1>2. m \in Nodes /\ m.id \notin Slots
  BY ExitsAssumption DEF Nodes
<1>3. /\ node' \in [NodeIds -> Nodes \union {Absent}]
      /\ \A o \in NodeIds : node'[o] = IF o = n THEN m ELSE node[o]
  BY <1>1, <1>2 DEF ExitsInv, ExitsTypeOK
<1>4. \A o \in NodeIds : NodeSound(o)'
  BY <1>1, <1>2, <1>3 DEF NodeSound, ExitsInv
<1> QED
  BY <1>1, <1>3, <1>4, NodeStep

LEMMA WithoutNodes ==
  ASSUME ExitsTypeOK, NEW gone
  PROVE  /\ Without(gone) \in [NodeIds -> Nodes \union {Absent}]
         /\ \A n \in NodeIds : Without(gone)[n] = IF n \in gone THEN Absent ELSE node[n]
BY DEF Without, ExitsTypeOK

LEMMA DeleteNodeInv == ASSUME ExitsInv, NEW n \in ManualNodes, DeleteNode(n) PROVE ExitsInv'
<1>1. node' = Without({n}) /\ UNCHANGED <<resource, source, publicOn, probing, heavy>>
  BY DEF DeleteNode
<1>2. /\ node' \in [NodeIds -> Nodes \union {Absent}]
      /\ \A o \in NodeIds : node'[o] \in {node[o], Absent}
  BY <1>1, WithoutNodes DEF ExitsInv
<1>3. \A o \in NodeIds : NodeSound(o)'
  BY <1>1, <1>2 DEF NodeSound, ExitsInv
<1> QED
  BY <1>1, <1>2, <1>3, NodeStep

LEMMA SwitchNodeInv ==
  ASSUME ExitsInv, NEW n \in ManualNodes, NEW enabled \in BOOLEAN, SwitchNode(n, enabled)
  PROVE  ExitsInv'
<1> DEFINE m == [node[n] EXCEPT !.enabled = enabled]
<1>1. /\ node[n] \in Nodes /\ node[n] # Absent /\ n \in NodeIds
      /\ enabled /\ node[n].id # Direct => resource[node[n].id].enabled
      /\ UNCHANGED <<resource, source, publicOn, probing, heavy>>
  BY DEF SwitchNode, LiveNodes, ExitsInv, ExitsTypeOK
<1>2. node' = [node EXCEPT ![n] = m]
  BY DEF SwitchNode
<1>3. m \in Nodes /\ m.id = node[n].id /\ m.exit = node[n].exit /\ m.enabled = enabled
  BY <1>1 DEF Nodes
<1>4. /\ node' \in [NodeIds -> Nodes \union {Absent}]
      /\ \A o \in NodeIds : node'[o] = IF o = n THEN m ELSE node[o]
  BY <1>1, <1>2, <1>3 DEF ExitsInv, ExitsTypeOK
<1>5. NodeSound(n)'
  BY <1>1, <1>3, <1>4, ExitsAssumption DEF NodeSound, ExitsInv
<1>6. \A o \in NodeIds : NodeSound(o)'
  BY <1>1, <1>4, <1>5 DEF NodeSound, ExitsInv
<1> QED
  BY <1>1, <1>4, <1>6, NodeStep

LEMMA SwitchExitInv ==
  ASSUME ExitsInv, NEW i \in ResourceIds, NEW enabled \in BOOLEAN, SwitchExit(i, enabled)
  PROVE  ExitsInv'
<1> DEFINE r == [resource[i] EXCEPT !.enabled = enabled]
<1>1. /\ resource[i] \in Resources /\ resource[i] # Absent /\ ResourceSound(i)
      /\ UNCHANGED <<source, publicOn, heavy>> /\ Revised({i})
  BY DEF SwitchExit, Present, ExitsInv, ExitsTypeOK
<1>2. resource' = [resource EXCEPT ![i] = r]
  BY DEF SwitchExit
<1>3. /\ r \in Resources /\ r.group = resource[i].group /\ r.owner = resource[i].owner
      /\ r.exit = resource[i].exit /\ r.probed = resource[i].probed /\ r.enabled = enabled
  BY <1>1 DEF Resources
<1>4. \A j \in ResourceIds : resource'[j] = IF j = i THEN r ELSE resource[j]
  BY <1>2 DEF ExitsInv, ExitsTypeOK
<1>5. /\ DOMAIN node' = NodeIds
      /\ \A n \in NodeIds : node'[n] =
           IF node[n] # Absent /\ node[n].id = i /\ ~enabled
           THEN [node[n] EXCEPT !.enabled = FALSE] ELSE node[n]
  BY DEF SwitchExit, BoundTo, LiveNodes, ExitsInv, ExitsTypeOK
<1>6. ASSUME NEW n \in NodeIds
      PROVE  /\ node'[n] \in Nodes \union {Absent} /\ (node'[n] = Absent <=> node[n] = Absent)
             /\ node[n] # Absent =>
                  /\ node'[n].id = node[n].id /\ node'[n].exit = node[n].exit
                  /\ node'[n].enabled => node[n].enabled /\ (node[n].id = i => enabled)
  <2>1. node[n] \in Nodes \union {Absent}
    BY DEF ExitsInv, ExitsTypeOK
  <2>2. CASE node[n] # Absent /\ node[n].id = i /\ ~enabled
    <3>1. node'[n] = [node[n] EXCEPT !.enabled = FALSE] /\ node[n] \in Nodes
      BY <1>5, <2>1, <2>2
    <3>2. /\ node'[n] \in Nodes /\ node'[n].id = node[n].id
          /\ node'[n].exit = node[n].exit /\ ~node'[n].enabled
      BY <3>1 DEF Nodes
    <3> QED
      BY <2>2, <3>2, ExitRows
  <2>3. CASE ~(node[n] # Absent /\ node[n].id = i /\ ~enabled)
    BY <1>5, <2>1, <2>3
  <2> QED
    BY <2>2, <2>3
<1>7. node' \in [NodeIds -> Nodes \union {Absent}]
  <2>1. node' = [n \in NodeIds |-> node'[n]]
    BY DEF SwitchExit
  <2> QED
    BY <1>6, <2>1
<1>8. ASSUME NEW n \in NodeIds PROVE NodeSound(n)'
  <2> SUFFICES ASSUME node'[n] # Absent, node'[n].id \in Slots
               PROVE  LET q == resource'[node'[n].id]
                      IN q # Absent /\ q.exit = node'[n].exit /\ (node'[n].enabled => q.enabled)
    BY DEF NodeSound
  <2>1. /\ node[n] # Absent /\ node'[n].id = node[n].id /\ node'[n].exit = node[n].exit
        /\ node'[n].enabled => node[n].enabled /\ (node[n].id = i => enabled)
    BY <1>6
  <2>2. LET q == resource[node[n].id]
        IN q # Absent /\ q.exit = node[n].exit /\ (node[n].enabled => q.enabled)
    BY <2>1 DEF ExitsInv, NodeSound
  <2>3. CASE node[n].id = i
    BY <1>3, <1>4, <2>1, <2>2, <2>3, ExitRows
  <2>4. CASE node[n].id # i
    BY <1>4, <2>1, <2>2, <2>4 DEF ResourceIds
  <2> QED
    BY <2>3, <2>4
<1>9. probing' \in {probing, Absent, Outdated} /\ (i \in Addresses => r.exit = i)
  BY <1>1, <1>3 DEF Revised, ResourceSound
<1>10. r.probed \in {Nobody, r.exit}
  BY <1>1, <1>3 DEF ResourceSound
<1> QED
  BY <1>1, <1>2, <1>3, <1>7, <1>8, <1>9, <1>10, ResourceStep

(* Steps that bring resources and take others away, with what used them.   *)
LEMMA TablesStep ==
  ASSUME ExitsInv,
         resource' \in [ResourceIds -> Resources \union {Absent}],
         node' \in [NodeIds -> Nodes \union {Absent}],
         source' \in [ImportSources -> SourceRows \union {Absent}],
         publicOn' \in BOOLEAN,
         heavy' \in Fetches \union Screenings \union {Absent, Outdated},
         ProbeSound', probing' \in Probes \union {Absent, Outdated},
         \A i \in ResourceIds : ResourceSound(i)',
         \A n \in NodeIds : NodeSound(n)',
         \A s \in ImportSources : SourceSound(s)'
  PROVE  ExitsInv'
<1>1. ExitsTypeOK'
  BY DEF ExitsTypeOK
<1> QED
  BY <1>1 DEF ExitsInv

LEMMA DeleteExitInv == ASSUME ExitsInv, NEW i \in ResourceIds, DeleteExit(i) PROVE ExitsInv'
<1>1. /\ resource[i] # Absent /\ ~Managed(i) /\ UNCHANGED <<source, publicOn, heavy>>
      /\ resource' = [resource EXCEPT ![i] = Absent]
      /\ node' = Without(BoundTo(i)) /\ Revised({i})
  BY DEF DeleteExit, Present
<1>2. \A j \in ResourceIds : resource'[j] = IF j = i THEN Absent ELSE resource[j]
  BY <1>1 DEF ExitsInv, ExitsTypeOK
<1>3. /\ node' \in [NodeIds -> Nodes \union {Absent}]
      /\ \A n \in NodeIds :
           node'[n] = IF node[n] # Absent /\ node[n].id = i THEN Absent ELSE node[n]
  BY <1>1, WithoutNodes DEF BoundTo, LiveNodes, ExitsInv, ExitsTypeOK
<1>4. /\ resource' \in [ResourceIds -> Resources \union {Absent}]
      /\ source' \in [ImportSources -> SourceRows \union {Absent}]
      /\ publicOn' \in BOOLEAN
      /\ heavy' \in Fetches \union Screenings \union {Absent, Outdated}
  BY <1>1 DEF ExitsInv, ExitsTypeOK
<1>5. ProbeSound' /\ probing' \in Probes \union {Absent, Outdated}
  BY <1>1, <1>2, RevisedProbe
<1>6. \A j \in ResourceIds : ResourceSound(j)'
  BY <1>1, <1>2 DEF ExitsInv, ResourceSound
<1>7. \A n \in NodeIds : NodeSound(n)'
  BY <1>2, <1>3 DEF ExitsInv, NodeSound, ResourceIds
<1>8. ASSUME NEW s \in ImportSources, source[s] # Absent, NEW j \in source[s].members
      PROVE  resource'[j] # Absent /\ resource'[j].group = "feed"
  <2>1. /\ resource[j] # Absent /\ resource[j].group = "feed" /\ j \in ResourceIds
        /\ s \in KnownSources
    BY <1>8 DEF ExitsInv, SourceSound, ExitsTypeOK, SourceRows, KnownSources
  <2>2. j # i
    BY <1>1, <1>8, <2>1 DEF Managed
  <2> QED
    BY <1>2, <2>1, <2>2
<1>9. \A s \in ImportSources : SourceSound(s)'
  BY <1>1, <1>8 DEF SourceSound
<1> QED
  BY <1>3, <1>4, <1>5, <1>6, <1>7, <1>9, TablesStep
-----------------------------------------------------------------------------
(* Import sources.                                                         *)
LEMMA CreateSourceInv == ASSUME ExitsInv, NEW s \in ImportSources, CreateSource(s) PROVE ExitsInv'
<1>1. /\ UNCHANGED <<resource, node, publicOn, probing, heavy>>
      /\ source' = [source EXCEPT ![s] = [members |-> {}]]
      /\ [members |-> {}] \in SourceRows
  BY DEF CreateSource, SourceRows
<1>2. /\ source' \in [ImportSources -> SourceRows \union {Absent}]
      /\ \A t \in ImportSources : source'[t] = IF t = s THEN [members |-> {}] ELSE source[t]
  BY <1>1 DEF ExitsInv, ExitsTypeOK
<1>3. /\ resource' \in [ResourceIds -> Resources \union {Absent}]
      /\ node' \in [NodeIds -> Nodes \union {Absent}] /\ publicOn' \in BOOLEAN
      /\ heavy' \in Fetches \union Screenings \union {Absent, Outdated}
      /\ probing' \in Probes \union {Absent, Outdated} /\ ProbeSound'
  BY <1>1 DEF ExitsInv, ExitsTypeOK, ProbeSound, Asked
<1>4. [members |-> {}] # Absent
  BY <1>1, ExitRows
<1>5. \A i \in ResourceIds : ResourceSound(i)'
  BY <1>1, <1>2, <1>4 DEF ExitsInv, ResourceSound
<1>6. \A n \in NodeIds : NodeSound(n)'
  BY <1>1 DEF ExitsInv, NodeSound
<1>7. \A t \in ImportSources : SourceSound(t)'
  BY <1>1, <1>2 DEF ExitsInv, SourceSound
<1> QED
  BY <1>2, <1>3, <1>5, <1>6, <1>7, TablesStep

LEMMA FinishFetchInv ==
  ASSUME ExitsInv, NEW s \in ImportSources, NEW got \in SUBSET Feeds, NEW partial \in BOOLEAN,
         FinishFetch(s, got, partial)
  PROVE  ExitsInv'
<1> DEFINE removed == IF partial THEN {} ELSE Prunable(s, got)
           kept == InGroup("feed") \ removed
           missing == {x \in got : SameExit(x) \intersect kept = {}}
<1>1. /\ source[s] # Absent /\ heavy' = Absent /\ UNCHANGED <<node, publicOn>>
      /\ SyncSource(s, got, partial)
  BY DEF FinishFetch
<1>2. PICK slot \in [missing -> Vacant] :
        /\ \A x, y \in missing : x # y => slot[x] # slot[y]
        /\ resource' = [i \in ResourceIds |->
             IF \E x \in missing : slot[x] = i
             THEN New("feed", CHOOSE x \in missing : slot[x] = i, s, Nobody)
             ELSE IF i \in removed THEN Absent ELSE resource[i]]
        /\ source' = [source EXCEPT ![s].members =
             {i \in kept : resource[i].exit \in got} \union {slot[x] : x \in missing}]
        /\ Revised(removed \union Dropped(s, got))
  BY <1>1 DEF SyncSource
<1> DEFINE fresh == {slot[x] : x \in missing}
           taken == {i \in kept : resource[i].exit \in got} \union fresh
<1>3. /\ \A i \in fresh : i \in Slots /\ resource[i] = Absent /\ i \in ResourceIds
      /\ \A i \in removed : /\ i \in ResourceIds /\ resource[i] # Absent
                            /\ resource[i].group = "feed" /\ BoundTo(i) = {}
                            /\ \A t \in KnownSources \ {s} : i \notin source[t].members
      /\ \A i : i \in kept <=> /\ i \in ResourceIds /\ i \notin removed
                               /\ resource[i] # Absent /\ resource[i].group = "feed"
  <2>1. DOMAIN resource = ResourceIds
    BY DEF ExitsInv, ExitsTypeOK
  <2>2. \A i \in fresh : i \in Slots /\ resource[i] = Absent /\ i \in ResourceIds
    BY DEF Vacant, ResourceIds
  <2>3. \A i \in removed : /\ i \in ResourceIds /\ resource[i] # Absent
                           /\ resource[i].group = "feed" /\ BoundTo(i) = {}
                           /\ \A t \in KnownSources \ {s} : i \notin source[t].members
    BY <2>1 DEF Prunable, Dropped, InGroup, Present
  <2>4. \A i : i \in kept <=> /\ i \in ResourceIds /\ i \notin removed
                              /\ resource[i] # Absent /\ resource[i].group = "feed"
    BY <2>1 DEF InGroup, Present
  <2> QED
    BY <2>2, <2>3, <2>4
<1>4. \A i \in ResourceIds :
        /\ i \in fresh => /\ resource'[i] \in Resources /\ resource'[i] # Absent
                          /\ resource'[i].group = "feed" /\ resource'[i].owner = s
                          /\ resource'[i].probed = Nobody
        /\ i \notin fresh => resource'[i] = IF i \in removed THEN Absent ELSE resource[i]
  <2> SUFFICES ASSUME NEW i \in ResourceIds
               PROVE  /\ i \in fresh =>
                           /\ resource'[i] \in Resources /\ resource'[i] # Absent
                           /\ resource'[i].group = "feed" /\ resource'[i].owner = s
                           /\ resource'[i].probed = Nobody
                      /\ i \notin fresh =>
                           resource'[i] = IF i \in removed THEN Absent ELSE resource[i]
    OBVIOUS
  <2>1. ASSUME i \in fresh
        PROVE  /\ resource'[i] \in Resources /\ resource'[i] # Absent
               /\ resource'[i].group = "feed" /\ resource'[i].owner = s
               /\ resource'[i].probed = Nobody
    <3>1. \E x \in missing : slot[x] = i
      BY <2>1
    <3> DEFINE x0 == CHOOSE x \in missing : slot[x] = i
    <3>2. x0 \in Targets
      BY <3>1 DEF Targets
    <3>3. resource'[i] = New("feed", x0, s, Nobody)
      BY <1>2, <3>1
    <3> HIDE DEF x0
    <3>4. New("feed", x0, s, Nobody) \in Resources
      BY <3>2 DEF New, Resources
    <3>5. LET r == New("feed", x0, s, Nobody)
          IN r # Absent /\ r.group = "feed" /\ r.owner = s /\ r.probed = Nobody
      BY <3>4, ExitRows DEF New
    <3> QED
      BY <3>3, <3>4, <3>5
  <2>2. ASSUME i \notin fresh
        PROVE  resource'[i] = IF i \in removed THEN Absent ELSE resource[i]
    BY <1>2, <2>2
  <2> QED
    BY <2>1, <2>2
<1>5. \A i \in ResourceIds : resource[i] # Absent /\ i \notin removed => resource'[i] = resource[i]
  BY <1>3, <1>4
<1>6. resource' \in [ResourceIds -> Resources \union {Absent}]
  <2>1. \A i \in ResourceIds : resource'[i] \in Resources \union {Absent}
    BY <1>4 DEF ExitsInv, ExitsTypeOK
  <2>2. resource' = [i \in ResourceIds |-> resource'[i]]
    BY <1>2
  <2> QED
    BY <2>1, <2>2
<1>7. /\ \A i \in taken : /\ i \in ResourceIds /\ resource'[i] # Absent
                           /\ resource'[i].group = "feed"
      /\ \A t \in ImportSources : /\ source'[t] = Absent <=> source[t] = Absent
                                  /\ source'[t] # Absent =>
                                       source'[t].members = IF t = s THEN taken
                                                            ELSE source[t].members
      /\ source' \in [ImportSources -> SourceRows \union {Absent}]
  <2>1. \A i \in taken : /\ i \in ResourceIds /\ resource'[i] # Absent
                          /\ resource'[i].group = "feed"
    BY <1>3, <1>4, <1>5
  <2>2. source[s] \in SourceRows /\ source \in [ImportSources -> SourceRows \union {Absent}]
    BY <1>1 DEF ExitsInv, ExitsTypeOK
  <2>3. source' = [source EXCEPT ![s] = [source[s] EXCEPT !.members = taken]]
    BY <1>2, <2>2
  <2>4. /\ [source[s] EXCEPT !.members = taken] \in SourceRows
        /\ [source[s] EXCEPT !.members = taken].members = taken
    BY <2>1, <2>2 DEF SourceRows
  <2> HIDE DEF taken
  <2>5. \A t \in ImportSources : /\ source'[t] = Absent <=> source[t] = Absent
                                 /\ source'[t] # Absent =>
                                      source'[t].members = IF t = s THEN taken
                                                           ELSE source[t].members
    BY <1>1, <2>2, <2>3, <2>4, ExitRows
  <2> QED
    BY <2>1, <2>2, <2>3, <2>4, <2>5
<1>8. /\ node' \in [NodeIds -> Nodes \union {Absent}] /\ publicOn' \in BOOLEAN
      /\ heavy' \in Fetches \union Screenings \union {Absent, Outdated}
  BY <1>1 DEF ExitsInv, ExitsTypeOK
<1>9. ProbeSound' /\ probing' \in Probes \union {Absent, Outdated}
  BY <1>2, <1>5, RevisedProbe
<1>10. ASSUME NEW i \in ResourceIds PROVE ResourceSound(i)'
  <2>1. CASE i \in fresh
    <3>1. i \notin Addresses
      BY <1>3, <2>1, ExitsAssumption
    <3> QED
      BY <1>1, <1>4, <1>7, <2>1, <3>1 DEF ResourceSound
  <2>2. CASE i \notin fresh /\ resource'[i] # Absent
    <3>1. resource'[i] = resource[i]
      BY <1>4, <2>2
    <3>2. ResourceSound(i)
      BY DEF ExitsInv
    <3>3. \A t \in ImportSources : source'[t] = Absent <=> source[t] = Absent
      BY <1>7
    <3> QED
      BY <2>2, <3>1, <3>2, <3>3 DEF ResourceSound
  <2> QED
    BY <2>1, <2>2 DEF ResourceSound
<1>11. ASSUME NEW n \in NodeIds PROVE NodeSound(n)'
  <2>1. ASSUME node[n] # Absent, node[n].id \in Slots
        PROVE  /\ resource[node[n].id] # Absent /\ node[n].id \in ResourceIds
               /\ node[n].id \notin removed
    <3>1. n \in BoundTo(node[n].id)
      BY <2>1 DEF BoundTo, LiveNodes, ExitsInv, ExitsTypeOK
    <3> QED
      BY <1>3, <2>1, <3>1 DEF ExitsInv, NodeSound, ResourceIds
  <2> QED
    BY <1>1, <1>5, <2>1 DEF NodeSound, ExitsInv
<1>12. ASSUME NEW t \in ImportSources PROVE SourceSound(t)'
  <2> SUFFICES ASSUME source'[t] # Absent, NEW i \in source'[t].members
               PROVE  resource'[i] # Absent /\ resource'[i].group = "feed"
    BY DEF SourceSound
  <2>1. CASE t = s
    BY <1>7, <2>1
  <2>2. CASE t # s
    <3>1. source[t] # Absent /\ i \in source[t].members
      BY <1>7, <2>2
    <3>2. /\ resource[i] # Absent /\ resource[i].group = "feed" /\ i \in ResourceIds
          /\ t \in KnownSources
      BY <3>1 DEF ExitsInv, SourceSound, ExitsTypeOK, SourceRows, KnownSources
    <3>3. i \notin removed
      BY <1>3, <2>2, <3>1, <3>2
    <3> QED
      BY <1>5, <3>2, <3>3
  <2> QED
    BY <2>1, <2>2
<1> QED
  BY <1>6, <1>7, <1>8, <1>9, <1>10, <1>11, <1>12, TablesStep

LEMMA DeleteSourceInv == ASSUME ExitsInv, NEW s \in ImportSources, DeleteSource(s) PROVE ExitsInv'
<1> DEFINE shared == {i \in Brought(s) : Owners(i, s) # {}}
           removed == Brought(s) \ shared
<1>1. PICK heir \in [shared -> ImportSources] :
        /\ \A i \in shared : heir[i] \in Owners(i, s)
        /\ resource' = [i \in ResourceIds |->
             IF i \in removed THEN Absent
             ELSE IF i \in shared
             THEN [resource[i] EXCEPT !.owner = heir[i]]
             ELSE resource[i]]
  BY DEF DeleteSource
<1>2. /\ node' = Without({n \in LiveNodes : node[n].id \in removed})
      /\ source' = [source EXCEPT ![s] = Absent]
      /\ Revised(Brought(s)) /\ UNCHANGED <<publicOn, heavy>>
  BY DEF DeleteSource
<1>3. \A i : i \in Brought(s) <=>
        /\ i \in ResourceIds /\ resource[i] # Absent /\ resource[i].group # "public"
        /\ resource[i].owner = s \/ i \in source[s].members
  BY DEF Brought, Present, ExitsInv, ExitsTypeOK
<1>4. \A t \in ImportSources : source'[t] = IF t = s THEN Absent ELSE source[t]
  BY <1>2 DEF ExitsInv, ExitsTypeOK
<1>5. \A i \in shared : /\ heir[i] \in ImportSources /\ heir[i] # s /\ source[heir[i]] # Absent
                        /\ i \in ResourceIds /\ resource[i] # Absent
  BY <1>1, <1>3 DEF Owners, KnownSources
<1>6. \A i \in ResourceIds :
        /\ i \in removed => resource'[i] = Absent
        /\ i \in shared => /\ resource'[i] \in Resources /\ resource'[i] # Absent
                           /\ resource'[i].group = resource[i].group
                           /\ resource'[i].exit = resource[i].exit
                           /\ resource'[i].enabled = resource[i].enabled
                           /\ resource'[i].probed = resource[i].probed
                           /\ resource'[i].owner = heir[i]
        /\ i \notin Brought(s) => resource'[i] = resource[i]
  <2> SUFFICES ASSUME NEW i \in ResourceIds
               PROVE  /\ i \in removed => resource'[i] = Absent
                      /\ i \in shared =>
                           /\ resource'[i] \in Resources /\ resource'[i] # Absent
                           /\ resource'[i].group = resource[i].group
                           /\ resource'[i].exit = resource[i].exit
                           /\ resource'[i].enabled = resource[i].enabled
                           /\ resource'[i].probed = resource[i].probed
                           /\ resource'[i].owner = heir[i]
                      /\ i \notin Brought(s) => resource'[i] = resource[i]
    OBVIOUS
  <2>1. CASE i \in shared
    <3>1. resource'[i] = [resource[i] EXCEPT !.owner = heir[i]]
      BY <1>1, <2>1
    <3>2. resource[i] \in Resources /\ heir[i] \in ImportSources
      BY <1>5, <2>1 DEF ExitsInv, ExitsTypeOK
    <3>3. LET r == [resource[i] EXCEPT !.owner = heir[i]]
          IN /\ r \in Resources /\ r.group = resource[i].group /\ r.exit = resource[i].exit
             /\ r.enabled = resource[i].enabled /\ r.probed = resource[i].probed
             /\ r.owner = heir[i]
      BY <3>2 DEF Resources
    <3> QED
      BY <2>1, <3>1, <3>3, ExitRows
  <2>2. CASE i \notin shared
    BY <1>1, <2>2
  <2> QED
    BY <2>1, <2>2
<1>7. resource' \in [ResourceIds -> Resources \union {Absent}]
  <2>1. \A i \in ResourceIds : resource'[i] \in Resources \union {Absent}
    BY <1>6 DEF ExitsInv, ExitsTypeOK
  <2>2. resource' = [i \in ResourceIds |-> resource'[i]]
    BY <1>1
  <2> QED
    BY <2>1, <2>2
<1>8. /\ node' \in [NodeIds -> Nodes \union {Absent}]
      /\ \A n \in NodeIds : node'[n] = IF node[n] # Absent /\ node[n].id \in removed
                                       THEN Absent ELSE node[n]
  <2> HIDE DEF removed
  <2> QED
    BY <1>2, WithoutNodes DEF LiveNodes, ExitsInv, ExitsTypeOK
<1>9. /\ source' \in [ImportSources -> SourceRows \union {Absent}] /\ publicOn' \in BOOLEAN
      /\ heavy' \in Fetches \union Screenings \union {Absent, Outdated}
  BY <1>2 DEF ExitsInv, ExitsTypeOK
<1>10. ProbeSound' /\ probing' \in Probes \union {Absent, Outdated}
  BY <1>2, <1>6, RevisedProbe
<1>11. ASSUME NEW i \in ResourceIds PROVE ResourceSound(i)'
  <2>1. CASE i \in shared
    <3>1. /\ resource[i] # Absent /\ resource[i].group # "public" /\ i \notin Addresses
          /\ resource[i].probed \in {Nobody, resource[i].exit}
      BY <1>3, <2>1 DEF ExitsInv, ResourceSound
    <3>2. source'[heir[i]] # Absent
      BY <1>4, <1>5, <2>1
    <3> QED
      BY <1>5, <1>6, <2>1, <3>1, <3>2 DEF ResourceSound
  <2>2. CASE i \notin Brought(s)
    <3>1. resource'[i] = resource[i]
      BY <1>6, <2>2
    <3>2. resource[i] # Absent => resource[i].owner # s \/ i \in Addresses
      BY <1>3, <2>2 DEF ExitsInv, ResourceSound
    <3> QED
      BY <1>4, <3>1, <3>2 DEF ExitsInv, ResourceSound
  <2>3. CASE i \in removed
    BY <1>6, <2>3 DEF ResourceSound
  <2> QED
    BY <2>1, <2>2, <2>3
<1>12. ASSUME NEW n \in NodeIds PROVE NodeSound(n)'
  <2> SUFFICES ASSUME node'[n] # Absent, node'[n].id \in Slots
               PROVE  LET q == resource'[node'[n].id]
                      IN q # Absent /\ q.exit = node'[n].exit /\ (node'[n].enabled => q.enabled)
    BY DEF NodeSound
  <2>1. node'[n] = node[n] /\ node[n] # Absent /\ node[n].id \notin removed
    BY <1>8
  <2>2. LET q == resource[node[n].id]
        IN q # Absent /\ q.exit = node[n].exit /\ (node[n].enabled => q.enabled)
    BY <2>1 DEF ExitsInv, NodeSound
  <2>3. node[n].id \in ResourceIds
    BY <2>1 DEF ResourceIds
  <2>4. CASE node[n].id \in shared
    BY <1>6, <2>1, <2>2, <2>3, <2>4
  <2>5. CASE node[n].id \notin Brought(s)
    BY <1>6, <2>1, <2>2, <2>3, <2>5
  <2> QED
    BY <2>1, <2>4, <2>5
<1>13. ASSUME NEW t \in ImportSources PROVE SourceSound(t)'
  <2> SUFFICES ASSUME t # s, source[t] # Absent, NEW i \in source[t].members
               PROVE  resource'[i] # Absent /\ resource'[i].group = "feed"
    BY <1>4 DEF SourceSound
  <2>1. /\ resource[i] # Absent /\ resource[i].group = "feed" /\ i \in ResourceIds
        /\ t \in KnownSources
    BY DEF ExitsInv, SourceSound, ExitsTypeOK, SourceRows, KnownSources
  <2>2. i \notin removed
    BY <2>1 DEF Owners
  <2> QED
    BY <1>6, <2>1, <2>2
<1> QED
  BY <1>7, <1>8, <1>9, <1>10, <1>11, <1>12, <1>13, TablesStep
-----------------------------------------------------------------------------
(* The public pool.                                                        *)
LEMMA PublicSetInv ==
  ASSUME ExitsInv, NEW D \in SUBSET Addresses, PublicSet(D),
         UNCHANGED <<source, probing>>, publicOn' \in BOOLEAN,
         heavy' \in Fetches \union Screenings \union {Absent, Outdated}
  PROVE  ExitsInv'
<1>1. \A i \in ResourceIds : resource'[i] =
        IF i \in D THEN New("public", i, Nobody, i)
        ELSE IF resource[i] # Absent /\ resource[i].group = "public" THEN Absent
        ELSE resource[i]
  BY DEF PublicSet, InGroup, Present, ExitsInv, ExitsTypeOK
<1>2. \A i \in D : /\ New("public", i, Nobody, i) \in Resources
                   /\ LET r == New("public", i, Nobody, i)
                      IN r.group = "public" /\ r.exit = i /\ r.owner = Nobody /\ r.probed = i
  BY DEF New, Resources, Targets
<1>3. resource' \in [ResourceIds -> Resources \union {Absent}]
  <2>1. \A i \in ResourceIds : resource'[i] \in Resources \union {Absent}
    BY <1>1, <1>2 DEF ExitsInv, ExitsTypeOK
  <2>2. resource' = [i \in ResourceIds |-> resource'[i]]
    BY DEF PublicSet
  <2> QED
    BY <2>1, <2>2
<1>4. \A n \in NodeIds : node'[n] =
        IF n \in D THEN [id |-> n, exit |-> n, enabled |-> TRUE]
        ELSE IF n \in Addresses THEN Absent ELSE node[n]
  BY DEF PublicSet
<1>5. node' \in [NodeIds -> Nodes \union {Absent}]
  <2>1. \A n \in D : [id |-> n, exit |-> n, enabled |-> TRUE] \in Nodes
    BY DEF Nodes, ResourceIds, Targets
  <2>2. \A n \in NodeIds : node'[n] \in Nodes \union {Absent}
    BY <1>4, <2>1 DEF ExitsInv, ExitsTypeOK
  <2>3. node' = [n \in NodeIds |-> node'[n]]
    BY DEF PublicSet
  <2> QED
    BY <2>2, <2>3
<1>6. \A i \in Slots : i \in ResourceIds /\ i \notin Addresses /\ resource'[i] = resource[i]
  <2> SUFFICES ASSUME NEW i \in Slots
               PROVE  i \in ResourceIds /\ i \notin Addresses /\ resource'[i] = resource[i]
    OBVIOUS
  <2>1. i \in ResourceIds /\ i \notin Addresses
    BY ExitsAssumption DEF ResourceIds
  <2>2. resource[i] # Absent => resource[i].group # "public"
    BY <2>1 DEF ExitsInv, ResourceSound
  <2> QED
    BY <1>1, <2>1, <2>2
<1>7. \A i \in ResourceIds : resource[i] # Absent /\ resource[i].group # "public" =>
        resource'[i] = resource[i]
  <2> SUFFICES ASSUME NEW i \in ResourceIds, resource[i] # Absent, resource[i].group # "public"
               PROVE  resource'[i] = resource[i]
    OBVIOUS
  <2>1. i \in Slots
    BY DEF ExitsInv, ResourceSound, ResourceIds
  <2> QED
    BY <1>6, <2>1
<1>8. source' \in [ImportSources -> SourceRows \union {Absent}]
  BY DEF ExitsInv, ExitsTypeOK
<1>9. ProbeSound' /\ probing' \in Probes \union {Absent, Outdated}
  <2>1. ASSUME Asked({"edit"})
        PROVE  resource'[probing.id] # Absent /\ resource'[probing.id].group # "public"
    <3>1. probing \in Probes /\ probing.id \in ResourceIds
      BY <2>1, ExitRows DEF Asked, ExitsInv, ExitsTypeOK, Probes
    <3> QED
      BY <1>7, <2>1, <3>1 DEF ExitsInv, ProbeSound
  <2> QED
    BY <2>1, ProbeKept
<1>10. ASSUME NEW i \in ResourceIds PROVE ResourceSound(i)'
  <2>1. CASE i \in D
    BY <1>1, <1>2, <2>1 DEF ResourceSound
  <2>2. CASE i \notin D
    BY <1>1, <2>2 DEF ResourceSound, ExitsInv
  <2> QED
    BY <2>1, <2>2
<1>11. ASSUME NEW n \in NodeIds PROVE NodeSound(n)'
  <2>1. CASE n \in D
    <3>1. node'[n].id = n
      <4>1. node'[n] = [id |-> n, exit |-> n, enabled |-> TRUE]
        BY <1>4, <2>1
      <4> QED
        BY <4>1
    <3>2. n \notin Slots
      BY <2>1, ExitsAssumption
    <3> QED
      BY <3>1, <3>2 DEF NodeSound
  <2>2. CASE n \notin D
    <3>1. node'[n] = Absent \/ node'[n] = node[n]
      BY <1>4, <2>2
    <3> QED
      BY <1>6, <3>1 DEF NodeSound, ExitsInv
  <2> QED
    BY <2>1, <2>2
<1>12. ASSUME NEW s \in ImportSources PROVE SourceSound(s)'
  <2> SUFFICES ASSUME source[s] # Absent, NEW i \in source[s].members
               PROVE  resource'[i] # Absent /\ resource'[i].group = "feed"
    BY DEF SourceSound
  <2>1. resource[i] # Absent /\ resource[i].group = "feed" /\ i \in ResourceIds
    BY DEF ExitsInv, SourceSound, ExitsTypeOK, SourceRows
  <2> QED
    BY <1>7, <2>1
<1> QED
  BY <1>3, <1>5, <1>8, <1>9, <1>10, <1>11, <1>12, TablesStep

LEMMA PublicPoolInv ==
  ASSUME ExitsInv,
         \/ \E D \in SUBSET Addresses : FinishScreening(D)
         \/ \E on \in BOOLEAN : SavePublicSettings(on)
  PROVE  ExitsInv'
<1>1. ASSUME NEW D \in SUBSET Addresses, FinishScreening(D) PROVE ExitsInv'
  <2>1. /\ PublicSet(D) /\ heavy' = Absent /\ UNCHANGED <<source, probing>>
        /\ publicOn' \in BOOLEAN
    BY <1>1 DEF FinishScreening, ExitsInv, ExitsTypeOK
  <2> QED
    BY <2>1, PublicSetInv
<1>2. ASSUME NEW on \in BOOLEAN, SavePublicSettings(on) PROVE ExitsInv'
  <2>1. /\ UNCHANGED <<source, probing>> /\ publicOn' \in BOOLEAN
        /\ heavy' \in Fetches \union Screenings \union {Absent, Outdated}
    BY <1>2 DEF SavePublicSettings, ExitsInv, ExitsTypeOK
  <2>2. CASE PublicSet({})
    BY <2>1, <2>2, PublicSetInv
  <2>3. CASE UNCHANGED <<resource, node>>
    <3>1. /\ node' \in [NodeIds -> Nodes \union {Absent}]
          /\ resource' \in [ResourceIds -> Resources \union {Absent}]
          /\ source' \in [ImportSources -> SourceRows \union {Absent}]
          /\ probing' \in Probes \union {Absent, Outdated} /\ ProbeSound'
      BY <2>1, <2>3 DEF ExitsInv, ExitsTypeOK, ProbeSound, Asked
    <3>2. /\ \A i \in ResourceIds : ResourceSound(i)'
          /\ \A n \in NodeIds : NodeSound(n)'
          /\ \A s \in ImportSources : SourceSound(s)'
      BY <2>1, <2>3 DEF ExitsInv, ResourceSound, NodeSound, SourceSound
    <3> QED
      BY <2>1, <3>1, <3>2, TablesStep
  <2> QED
    BY <1>2, <2>2, <2>3 DEF SavePublicSettings
<1> QED
  BY <1>1, <1>2
-----------------------------------------------------------------------------
LEMMA ExitsNextInv == ASSUME ExitsInv, ExitsNext PROVE ExitsInv'
<1>1. CASE \E i \in Slots, x \in Targets : ImportExit(i, x)
  BY <1>1, ImportExitInv
<1>2. CASE \E i \in ResourceIds, x \in Targets, on \in BOOLEAN : BeginEditExit(i, x, on)
  BY <1>2, BeginEditExitInv
<1>3. CASE \E i \in ResourceIds : BeginCheck(i) \/ DeleteExit(i)
  BY <1>3, BeginCheckInv, DeleteExitInv
<1>4. CASE \E i \in ResourceIds, on \in BOOLEAN : SwitchExit(i, on)
  BY <1>4, SwitchExitInv
<1>5. CASE FinishEditExit \/ FinishCheck
  BY <1>5, FinishEditExitInv, FinishCheckInv
<1>6. CASE \E n \in ManualNodes, on \in BOOLEAN :
             \/ \E i \in ResourceIds : SaveNode(n, i, on)
             \/ SaveDirectNode(n, on) \/ SwitchNode(n, on)
  BY <1>6, SaveNodeInv, SaveDirectNodeInv, SwitchNodeInv
<1>7. CASE \E n \in ManualNodes : DeleteNode(n)
  BY <1>7, DeleteNodeInv
<1>8. CASE \E s \in ImportSources :
             \/ CreateSource(s) \/ DeleteSource(s)
             \/ \E got \in SUBSET Feeds, partial \in BOOLEAN : FinishFetch(s, got, partial)
  BY <1>8, CreateSourceInv, DeleteSourceInv, FinishFetchInv
<1>9. CASE \/ ProbeRefused \/ StartScreening \/ AbandonHeavy \/ RestartPanel
           \/ \E s \in ImportSources : EditSource(s) \/ StartFetch(s)
  BY <1>9, QuietStepsInv
<1>10. CASE \/ \E D \in SUBSET Addresses : FinishScreening(D)
            \/ \E on \in BOOLEAN : SavePublicSettings(on)
  BY <1>10, PublicPoolInv
<1> QED
  BY <1>1, <1>2, <1>3, <1>4, <1>5, <1>6, <1>7, <1>8, <1>9, <1>10 DEF ExitsNext

(* Each resource, node and source stays sound, and an edit under way finds *)
(* its resource or a new revision, however probes, fetches, screenings and *)
(* the owner's changes overlap.                                            *)
THEOREM ExitsSafe == ExitsSpec => []ExitsInv
<1>1. ExitsInv /\ UNCHANGED ExitsVars => ExitsInv'
  <2> SUFFICES ASSUME ExitsInv, UNCHANGED ExitsVars PROVE ExitsInv'
    OBVIOUS
  <2>1. /\ ProbeSound' /\ probing' \in Probes \union {Absent, Outdated}
        /\ heavy' \in Fetches \union Screenings \union {Absent, Outdated}
        /\ UNCHANGED <<resource, node, source, publicOn>>
    BY DEF ExitsVars, ExitsInv, ExitsTypeOK, ProbeSound, Asked
  <2> QED
    BY <2>1, QuietExits
<1> QED
  BY <1>1, ExitsInitInv, ExitsNextInv, PTL DEF ExitsSpec

(* The exit of a node with a resource exists, is the one the node was      *)
(* resolved from and serves it; results of probes are of the exit they     *)
(* stand with; sources list and own what exists (poolBindings, bindPool,   *)
(* storePoolEgressLocked, planSourceDeletion).                             *)
THEOREM ExitsAreInUse == ExitsSpec => []ExitsInUse
BY ExitsSafe, ExitsInvMeans, PTL
-----------------------------------------------------------------------------
(* Accounts.  The invariant says what a request has read of its link, that *)
(* nothing yet has the hash a record under way brings, and why a stale link*)
(* is refused whatever that record overwrites.                             *)

(* Whom a saved record belongs to, and that no request, link or row has    *)
(* the hash a record under way brings.                                     *)
Writing(u) == writer.member = u
FreshHash(u, password) == Writing(u) /\ writer.renews => password # writer.password

AccountSound(u) ==
  /\ account[u].password <= hashes[u] /\ FreshHash(u, account[u].password)
  /\ account[u].row = "none" => account[u] = NoAccount /\ hashes[u] = 0
  /\ account[u].row \in {"kept", "archived"} <=> account[u].password > 0
  /\ account[u].row \in {"none", "deleted"} => ~account[u].enabled
  /\ Writing(u) => /\ writer.password > 0 /\ writer.password <= hashes[u]
                   /\ account[u].row \in {"kept", "archived"}

(* A hash member u has had.                                                *)
Had(u, password) == /\ u \in Members /\ password > 0 /\ password <= hashes[u]
                    /\ FreshHash(u, password)

(* Links that belong to a member, and those that do not.                   *)
Personal == {"bind", "reset"}
LinkRow(k) ==
  /\ k.fate = "free" => k = FreeLink
  /\ k.fate # "free" => k.purpose # "none"
  /\ k.purpose \in Personal => Had(k.member, k.password) /\ k.mailbox \in Mailboxes
  /\ k.purpose \notin Personal => k.member = NoMember /\ ~k.stale
  /\ k.fate = "used" => ~k.stale

(* A stale link that could still be opened finds another mailbox or        *)
(* another hash, also after a record under way is saved.                   *)
Refused(k) ==
  k.stale /\ k.fate = "live" =>
    \/ k.purpose = "reset" /\ account[k.member].mailbox # k.mailbox
    \/ /\ account[k.member].password # k.password
       /\ Writing(k.member) => writer.password # k.password

(* What a request has read is what its link says, or what a member had.    *)
SameLink(r, k) == /\ k.fate # "free" /\ k.member = r.member
                  /\ k.mailbox = r.mailbox /\ k.password = r.password
AskRow(r) ==
  /\ r.does \in {"bind", "reset", "unbind", "login"} => Had(r.member, r.password)
  /\ r.does \in {"bind", "reset"} => r.mailbox \in Mailboxes
  /\ r.does = "registration" => r.member = NoMember
  /\ r.does = "change" => r.member \in Members /\ account[r.member].row # "none"
  /\ r.does \in {"verify", "confirm"} =>
       r.link \in Links /\ SameLink(r, emailTokens[r.link])
  /\ r.does = "verify" => emailTokens[r.link].purpose \in {"bind", "registration"}
  /\ r.does = "confirm" => emailTokens[r.link].purpose = "reset"

WriterSound == writer = NoWriter \/ writer.member \in Members

AccountInv ==
  /\ AccountsTypeOK /\ WriterSound
  /\ \A u \in Members : AccountSound(u)
  /\ \A t \in Links : LinkRow(emailTokens[t]) /\ Refused(emailTokens[t])
  /\ \A v \in Visitors : AskRow(asked[v])
-----------------------------------------------------------------------------
(* What every step leaves: hashes, links once issued, rows once made, and  *)
(* that a hash a member had is not the one a record brings.                *)
Grows ==
  /\ \A u \in Members : /\ hashes[u] <= hashes'[u]
                        /\ account'[u].row = "none" => account[u].row = "none"
                        /\ \A p \in Passwords : p <= hashes[u] /\ FreshHash(u, p) => FreshHash(u, p)'
  /\ \A t \in Links : emailTokens[t].fate # "free" =>
       /\ emailTokens'[t].fate # "free"
       /\ emailTokens'[t].purpose = emailTokens[t].purpose
       /\ emailTokens'[t].member = emailTokens[t].member
       /\ emailTokens'[t].mailbox = emailTokens[t].mailbox
       /\ emailTokens'[t].password = emailTokens[t].password

LEMMA AccountTypes ==
  ASSUME AccountInv
  PROVE  /\ AccountsTypeOK
         /\ account \in [Members -> AccountRows] /\ hashes \in [Members -> Passwords]
         /\ sessions \in [Members -> SUBSET Passwords]
         /\ emailTokens \in [Links -> LinkRows] /\ asked \in [Visitors -> Askings]
         /\ asking \in 0 .. MaxRequests /\ writer \in Writers
         /\ MaxPasswords \in Nat \ {0} /\ MaxRequests \in Nat \ {0}
         /\ NoMember \notin Members /\ NoMail \notin Mailboxes
         /\ 0 \in Passwords /\ 1 \in Passwords /\ Passwords \subseteq Nat
<1>1. /\ MaxPasswords \in Nat \ {0} /\ MaxRequests \in Nat \ {0}
      /\ NoMember \notin Members /\ NoMail \notin Mailboxes
  BY AccountsAssumption
<1>2. 0 \in Passwords /\ 1 \in Passwords /\ Passwords \subseteq Nat
  BY <1>1 DEF Passwords
<1> QED
  BY <1>1, <1>2 DEF AccountInv, AccountsTypeOK

LEMMA MemberParts ==
  ASSUME AccountInv, NEW u \in Members
  PROVE  /\ AccountSound(u)
         /\ account[u] \in AccountRows /\ account[u].password \in Passwords
         /\ account[u].mailbox \in Mailboxes \union {NoMail} /\ account[u].enabled \in BOOLEAN
         /\ account[u].row \in {"none", "kept", "archived", "deleted"}
         /\ hashes[u] \in Passwords /\ hashes[u] \in Nat /\ account[u].password \in Nat
         /\ writer.password \in Nat /\ writer.password \in Passwords
<1>1. account[u] \in AccountRows /\ writer \in Writers /\ hashes[u] \in Passwords
  BY AccountTypes
<1>2. Passwords \subseteq Nat
  BY AccountTypes
<1> QED
  BY <1>1, <1>2 DEF AccountInv, AccountRows, Writers

LEMMA LinkParts ==
  ASSUME AccountInv, NEW t \in Links
  PROVE  /\ LinkRow(emailTokens[t]) /\ Refused(emailTokens[t]) /\ emailTokens[t] \in LinkRows
         /\ emailTokens[t].password \in Passwords /\ emailTokens[t].password \in Nat
<1>1. emailTokens[t] \in LinkRows /\ Passwords \subseteq Nat
  BY AccountTypes
<1> QED
  BY <1>1 DEF AccountInv, LinkRows

LEMMA AskParts ==
  ASSUME AccountInv, NEW v \in Visitors
  PROVE  /\ AskRow(asked[v]) /\ asked[v] \in Askings
         /\ asked[v].password \in Passwords /\ asked[v].password \in Nat
         /\ asked[v].mailbox \in Mailboxes \union {NoMail}
         /\ asked[v].member \in Members \union {NoMember} /\ asked[v].link \in Links \union {NoLink}
<1>1. asked[v] \in Askings /\ Passwords \subseteq Nat
  BY AccountTypes
<1> QED
  BY <1>1 DEF AccountInv, Askings
-----------------------------------------------------------------------------
(* What a step that grows keeps.                                           *)
LEMMA HadGrows ==
  ASSUME AccountInv, Grows, AccountsTypeOK', NEW u, NEW p \in Passwords, Had(u, p)
  PROVE  Had(u, p)'
<1>1. /\ u \in Members /\ p > 0 /\ p <= hashes[u] /\ FreshHash(u, p)
  BY DEF Had
<1>2. hashes[u] <= hashes'[u] /\ FreshHash(u, p)'
  BY <1>1 DEF Grows
<1>3. p \in Nat /\ hashes[u] \in Nat /\ hashes'[u] \in Nat
  BY <1>1, AccountTypes, MemberParts DEF AccountsTypeOK
<1> QED
  BY <1>1, <1>2, <1>3 DEF Had

LEMMA LinkGrows ==
  ASSUME AccountInv, Grows, AccountsTypeOK', NEW k \in LinkRows, LinkRow(k)
  PROVE  LinkRow(k)'
<1>1. k.password \in Passwords
  BY DEF LinkRows
<1>2. k.purpose \in Personal => Had(k.member, k.password)'
  BY <1>1, HadGrows DEF LinkRow
<1> QED
  BY <1>2 DEF LinkRow

LEMMA AskGrows ==
  ASSUME AccountInv, Grows, AccountsTypeOK', NEW r \in Askings, AskRow(r)
  PROVE  AskRow(r)'
<1>1. r.password \in Passwords
  BY DEF Askings
<1>2. r.does \in {"bind", "reset", "unbind", "login"} => Had(r.member, r.password)'
  BY <1>1, HadGrows DEF AskRow
<1>3. r.does = "change" => r.member \in Members /\ account'[r.member].row # "none"
  BY DEF AskRow, Grows
<1>4. r.does \in {"verify", "confirm"} =>
        /\ r.link \in Links /\ emailTokens[r.link].fate # "free"
        /\ emailTokens'[r.link].fate # "free"
        /\ emailTokens'[r.link].purpose = emailTokens[r.link].purpose
        /\ emailTokens'[r.link].member = emailTokens[r.link].member
        /\ emailTokens'[r.link].mailbox = emailTokens[r.link].mailbox
        /\ emailTokens'[r.link].password = emailTokens[r.link].password
  BY DEF AskRow, Grows, SameLink
<1> QED
  BY <1>2, <1>3, <1>4 DEF AskRow, SameLink

LEMMA AsksFollow ==
  ASSUME AccountInv, Grows, AccountsTypeOK', NEW v \in Visitors,
         asked'[v] = asked[v] \/ asked'[v] = NotAsking
  PROVE  AskRow(asked[v])'
<1>1. CASE asked'[v] = NotAsking
  BY <1>1 DEF AskRow, NotAsking
<1>2. CASE asked'[v] = asked[v]
  BY <1>2, AskParts, AskGrows
<1> QED
  BY <1>1, <1>2

LEMMA DoneAsked ==
  ASSUME AccountInv, NEW w \in Visitors, Done(w) \/ NoRequest, NEW v \in Visitors
  PROVE  asked'[v] = asked[v] \/ asked'[v] = NotAsking
  BY AccountTypes DEF Done, NoRequest

LEMMA AskTyped ==
  ASSUME AccountInv,
         NoRequest \/ \E w \in Visitors : Done(w) \/ \E r \in Askings : Asks(w, r)
  PROVE  asked' \in [Visitors -> Askings] /\ asking' \in 0 .. MaxRequests
<1>1. NotAsking \in Askings
  BY AccountTypes DEF NotAsking, Askings
<1> QED
  BY <1>1, AccountTypes DEF NoRequest, Done, Asks

(* A link whose fate is decided.                                           *)
LEMMA LinkDecided ==
  ASSUME NEW k \in LinkRows, LinkRow(k), k.fate = "live", NEW f \in {"expired", "used", "void"},
         f = "used" => ~k.stale
  PROVE  /\ [k EXCEPT !.fate = f] \in LinkRows /\ LinkRow([k EXCEPT !.fate = f])
         /\ [k EXCEPT !.fate = f].fate = f
         /\ [k EXCEPT !.fate = f].purpose = k.purpose /\ [k EXCEPT !.fate = f].member = k.member
         /\ [k EXCEPT !.fate = f].mailbox = k.mailbox
         /\ [k EXCEPT !.fate = f].password = k.password
<1>1. /\ [k EXCEPT !.fate = f] \in LinkRows
      /\ [k EXCEPT !.fate = f].fate = f
      /\ [k EXCEPT !.fate = f].purpose = k.purpose /\ [k EXCEPT !.fate = f].member = k.member
      /\ [k EXCEPT !.fate = f].mailbox = k.mailbox /\ [k EXCEPT !.fate = f].stale = k.stale
      /\ [k EXCEPT !.fate = f].password = k.password
  BY DEF LinkRows
<1> QED
  BY <1>1 DEF LinkRow

LEMMA DecidedIsRefused ==
  ASSUME NEW k, k.fate # "live"
  PROVE  Refused(k)'
  BY DEF Refused
-----------------------------------------------------------------------------
(* Requests that read.                                                     *)
LEMMA OnlyAsked ==
  ASSUME AccountInv, UNCHANGED <<account, hashes, emailTokens, writer>>,
         asked' \in [Visitors -> Askings], asking' \in 0 .. MaxRequests,
         sessions' \in [Members -> SUBSET Passwords],
         \A v \in Visitors : AskRow(asked'[v])
  PROVE  AccountInv'
<1>1. AccountsTypeOK'
  BY AccountTypes DEF AccountsTypeOK
<1>2. ASSUME NEW u \in Members PROVE AccountSound(u)'
  BY <1>2, MemberParts DEF AccountSound, FreshHash, Writing
<1>3. ASSUME NEW t \in Links PROVE LinkRow(emailTokens[t])' /\ Refused(emailTokens[t])'
  BY <1>3, LinkParts DEF LinkRow, Refused, Had, FreshHash, Writing
<1>4. ASSUME NEW v \in Visitors PROVE AskRow(asked[v])'
  BY <1>4 DEF AskRow, SameLink, Had, FreshHash, Writing
<1>5. WriterSound'
  BY DEF AccountInv, WriterSound
<1> QED
  BY <1>1, <1>2, <1>3, <1>4, <1>5 DEF AccountInv

LEMMA RequestKeeps ==
  ASSUME AccountInv, NEW v \in Visitors, NEW r \in Askings, Asks(v, r), AskRow(r),
         UNCHANGED <<account, hashes, sessions, emailTokens, writer>>
  PROVE  AccountInv'
<1>1. asked' \in [Visitors -> Askings] /\ asking' \in 0 .. MaxRequests
  BY AskTyped
<1>2. ASSUME NEW w \in Visitors PROVE AskRow(asked'[w])
  <2>1. asked' = [asked EXCEPT ![v] = r] /\ asked \in [Visitors -> Askings]
    BY AccountTypes DEF Asks
  <2>2. asked'[w] = IF w = v THEN r ELSE asked[w]
    BY <1>2, <2>1
  <2> QED
    BY <1>2, <2>2, AskParts
<1> QED
  BY <1>1, <1>2, AccountTypes, OnlyAsked

LEMMA DoneKeeps ==
  ASSUME AccountInv, NEW v \in Visitors, Done(v),
         UNCHANGED <<account, hashes, emailTokens, writer>>,
         sessions' \in [Members -> SUBSET Passwords]
  PROVE  AccountInv'
<1>1. asked' \in [Visitors -> Askings] /\ asking' \in 0 .. MaxRequests
  BY AskTyped
<1>2. ASSUME NEW w \in Visitors PROVE AskRow(asked'[w])
  <2>1. asked'[w] = asked[w] \/ asked'[w] = NotAsking
    BY <1>2, DoneAsked
  <2> QED
    BY <1>2, <2>1, AskParts DEF AskRow, NotAsking
<1> QED
  BY <1>1, <1>2, OnlyAsked

(* A member who may sign in has a hash, and no record brings it anew.      *)
LEMMA EligibleHad ==
  ASSUME AccountInv, NEW u \in Members, Eligible(u)
  PROVE  Had(u, account[u].password)
  BY MemberParts DEF Eligible, AccountSound, Had

LEMMA AskingKeeps ==
  ASSUME AccountInv, NEW v \in Visitors,
         \/ \E m \in Mailboxes : AsksLink(v, m) \/ \E u \in Members : AsksToBind(v, u, m)
         \/ \E u \in Members : UnbindReads(v, u) \/ LoginReads(v, u) \/ ChangeReads(v, u)
  PROVE  AccountInv'
<1>1. NotAsking \in Askings /\ NotAsking.member = NoMember
  BY AccountTypes DEF NotAsking, Askings
<1>2. ASSUME NEW u \in Members PROVE account[u].password \in Passwords
  BY <1>2, MemberParts
<1>4. ASSUME NEW m \in Mailboxes, AsksLink(v, m) PROVE AccountInv'
  <2>1. UNCHANGED <<account, hashes, sessions, emailTokens, writer>>
    BY <1>4 DEF AsksLink
  <2>2. CASE Asks(v, [NotAsking EXCEPT !.does = "registration", !.mailbox = m])
    <3> DEFINE r == [NotAsking EXCEPT !.does = "registration", !.mailbox = m]
    <3>1. r \in Askings /\ r.does = "registration" /\ r.member = NoMember
      BY <1>1 DEF Askings
    <3>2. Asks(v, r)
      BY <2>2
    <3> HIDE DEF r
    <3>3. AskRow(r)
      BY <3>1 DEF AskRow
    <3> QED
      BY <2>1, <3>1, <3>2, <3>3, RequestKeeps
  <2>3. CASE \E u \in Members :
               /\ account[u].mailbox = m /\ Eligible(u)
               /\ Asks(v, [NotAsking EXCEPT !.does = "reset", !.member = u, !.mailbox = m,
                                            !.password = account[u].password])
    <3>1. PICK u \in Members :
               /\ account[u].mailbox = m /\ Eligible(u)
               /\ Asks(v, [NotAsking EXCEPT !.does = "reset", !.member = u, !.mailbox = m,
                                            !.password = account[u].password])
      BY <2>3
    <3> DEFINE r == [NotAsking EXCEPT !.does = "reset", !.member = u, !.mailbox = m,
                                      !.password = account[u].password]
    <3>2. /\ r \in Askings /\ r.does = "reset" /\ r.member = u /\ r.mailbox = m
          /\ r.password = account[u].password
      BY <1>1, <1>2 DEF Askings
    <3>3. Asks(v, r) /\ Had(u, account[u].password)
      BY <3>1, EligibleHad
    <3> HIDE DEF r
    <3>4. AskRow(r)
      BY <3>2, <3>3 DEF AskRow
    <3> QED
      BY <2>1, <3>2, <3>3, <3>4, RequestKeeps
  <2> QED
    BY <1>4, <2>2, <2>3 DEF AsksLink
<1>5. ASSUME NEW m \in Mailboxes, NEW u \in Members, AsksToBind(v, u, m) PROVE AccountInv'
  <2> DEFINE r == [NotAsking EXCEPT !.does = "bind", !.member = u, !.mailbox = m,
                                    !.password = account[u].password]
  <2>1. /\ r \in Askings /\ r.does = "bind" /\ r.member = u /\ r.mailbox = m
        /\ r.password = account[u].password
    BY <1>1, <1>2 DEF Askings
  <2>2. /\ Asks(v, r) /\ Had(u, account[u].password)
        /\ UNCHANGED <<account, hashes, sessions, emailTokens, writer>>
    BY <1>5, EligibleHad DEF AsksToBind, PasswordGiven
  <2> HIDE DEF r
  <2>3. AskRow(r)
    BY <2>1, <2>2 DEF AskRow
  <2> QED
    BY <2>1, <2>2, <2>3, RequestKeeps
<1>6. ASSUME NEW u \in Members, UnbindReads(v, u) \/ LoginReads(v, u) PROVE AccountInv'
  <2> DEFINE r(d) == [NotAsking EXCEPT !.does = d, !.member = u, !.password = account[u].password]
  <2>1. ASSUME NEW d \in {"unbind", "login"}
        PROVE  /\ r(d) \in Askings /\ r(d).does = d /\ r(d).member = u
               /\ r(d).password = account[u].password
    BY <1>1, <1>2 DEF Askings
  <2>2. PICK d \in {"unbind", "login"} : /\ Asks(v, r(d)) /\ Had(u, account[u].password)
                                         /\ UNCHANGED <<account, hashes, sessions, emailTokens, writer>>
    <3>1. CASE UnbindReads(v, u)
      BY <3>1, EligibleHad DEF UnbindReads, PasswordGiven
    <3>2. CASE LoginReads(v, u)
      BY <3>2, EligibleHad DEF LoginReads
    <3> QED
      BY <1>6, <3>1, <3>2
  <2> HIDE DEF r
  <2>3. AskRow(r(d))
    BY <2>1, <2>2 DEF AskRow
  <2> QED
    BY <2>1, <2>2, <2>3, RequestKeeps
<1>7. ASSUME NEW u \in Members, ChangeReads(v, u) PROVE AccountInv'
  <2> DEFINE r == [NotAsking EXCEPT !.does = "change", !.member = u]
  <2>1. r \in Askings /\ r.does = "change" /\ r.member = u
    BY <1>1 DEF Askings
  <2>2. /\ Asks(v, r) /\ UNCHANGED <<account, hashes, sessions, emailTokens, writer>>
        /\ account[u].enabled
    BY <1>7 DEF ChangeReads, InSession
  <2> HIDE DEF r
  <2>3. AskRow(r)
    BY <2>1, <2>2, MemberParts DEF AskRow, AccountSound
  <2> QED
    BY <2>1, <2>2, <2>3, RequestKeeps
<1> QED
  BY <1>4, <1>5, <1>6, <1>7

(* A link opened: the request has what the link says.                      *)
LEMMA OpeningKeeps ==
  ASSUME AccountInv, NEW v \in Visitors, NEW t \in Links, VerifyReads(v, t) \/ ResetReads(v, t)
  PROVE  AccountInv'
<1> DEFINE k == emailTokens[t]
           R(d) == [does |-> d, member |-> k.member, mailbox |-> k.mailbox,
                    password |-> k.password, link |-> t]
<1>1. PICK d \in {"verify", "confirm"} :
        /\ Asks(v, R(d)) /\ Live(t)
        /\ d = "verify" => k.purpose \in {"bind", "registration"}
        /\ d = "confirm" => k.purpose = "reset"
        /\ UNCHANGED <<account, hashes, sessions, emailTokens, writer>>
  BY DEF VerifyReads, ResetReads
<1>2. /\ R(d) \in Askings /\ R(d).does = d /\ R(d).link = t /\ R(d).member = k.member
      /\ R(d).mailbox = k.mailbox /\ R(d).password = k.password
  BY LinkParts DEF Askings, LinkRows
<1>3. AskRow(R(d))
  BY <1>1, <1>2 DEF AskRow, SameLink, Live
<1> HIDE DEF R
<1> QED
  BY <1>1, <1>2, <1>3, RequestKeeps

LEMMA SignInKeeps ==
  ASSUME AccountInv, NEW v \in Visitors, Logins(v) \/ TurnedDown(v)
  PROVE  AccountInv'
<1>1. /\ Done(v) /\ UNCHANGED <<account, hashes, emailTokens, writer>>
      /\ sessions' = sessions \/ sessions' =
           [sessions EXCEPT ![asked[v].member] = @ \union {asked[v].password}]
  BY DEF Logins, TurnedDown
<1>2. sessions' \in [Members -> SUBSET Passwords]
  BY <1>1, AskParts, AccountTypes
<1> QED
  BY <1>1, <1>2, DoneKeeps
-----------------------------------------------------------------------------
(* The invariant of a step that grows, from its parts.                     *)
LEMMA Closing ==
  ASSUME AccountInv, AccountsTypeOK', Grows,
         NoRequest \/ \E w \in Visitors : Done(w),
         writer' = writer \/ writer' = NoWriter \/ writer'.member \in Members,
         \A u \in Members : AccountSound(u)',
         \A t \in Links : LinkRow(emailTokens[t])' /\ Refused(emailTokens[t])'
  PROVE  AccountInv'
<1>1. ASSUME NEW v \in Visitors PROVE AskRow(asked[v])'
  BY <1>1, DoneAsked, AsksFollow
<1>2. WriterSound'
  BY DEF AccountInv, WriterSound
<1> QED
  BY <1>1, <1>2 DEF AccountInv

(* A link is left as it is or its fate is decided.                         *)
Decided(t) == /\ Live(t)
              /\ \E f \in {"expired", "used", "void"} :
                   /\ f = "used" => ~emailTokens[t].stale
                   /\ emailTokens'[t] = [emailTokens[t] EXCEPT !.fate = f]
SameFields(t) == /\ emailTokens'[t].fate # "free" /\ emailTokens'[t] \in LinkRows
                 /\ emailTokens'[t].purpose = emailTokens[t].purpose
                 /\ emailTokens'[t].member = emailTokens[t].member
                 /\ emailTokens'[t].mailbox = emailTokens[t].mailbox
                 /\ emailTokens'[t].password = emailTokens[t].password

LEMMA DecidedFields ==
  ASSUME AccountInv, NEW t \in Links, emailTokens'[t] = emailTokens[t] \/ Decided(t)
  PROVE  /\ emailTokens[t].fate # "free" => SameFields(t)
         /\ emailTokens'[t] \in LinkRows
<1>1. CASE Decided(t)
  BY <1>1, LinkParts, LinkDecided DEF Decided, SameFields, Live
<1>2. CASE emailTokens'[t] = emailTokens[t]
  BY <1>2, LinkParts DEF SameFields
<1> QED
  BY <1>1, <1>2

LEMMA LinkStep ==
  ASSUME AccountInv, AccountsTypeOK', Grows, NEW t \in Links,
         Decided(t) \/ (emailTokens'[t] = emailTokens[t] /\ Refused(emailTokens[t])')
  PROVE  LinkRow(emailTokens[t])' /\ Refused(emailTokens[t])'
<1>1. CASE Decided(t)
  <2>1. PICK f \in {"expired", "used", "void"} :
          /\ f = "used" => ~emailTokens[t].stale
          /\ emailTokens'[t] = [emailTokens[t] EXCEPT !.fate = f]
    BY <1>1 DEF Decided
  <2>2. /\ emailTokens[t] \in LinkRows /\ LinkRow(emailTokens[t]) /\ emailTokens[t].fate = "live"
    BY <1>1, LinkParts DEF Decided, Live
  <2>3. ASSUME NEW x, x = [emailTokens[t] EXCEPT !.fate = f]
        PROVE  x \in LinkRows /\ LinkRow(x) /\ x.fate = f
    BY <2>1, <2>2, <2>3, LinkDecided
  <2>4. ASSUME NEW x, x = emailTokens'[t]
        PROVE  LinkRow(emailTokens[t])' /\ Refused(emailTokens[t])'
    BY <2>1, <2>3, <2>4, LinkGrows DEF Refused
  <2> QED
    BY <2>4
<1>2. CASE emailTokens'[t] = emailTokens[t] /\ Refused(emailTokens[t])'
  BY <1>2, LinkParts, LinkGrows
<1> QED
  BY <1>1, <1>2
-----------------------------------------------------------------------------
(* A step of the mail handlers: the record under way is left alone.        *)
LEMMA MailGrows ==
  ASSUME AccountInv, UNCHANGED writer,
         \A u \in Members : hashes[u] <= hashes'[u] /\ account'[u].row = account[u].row,
         \A t \in Links : emailTokens[t].fate # "free" => SameFields(t)
  PROVE  Grows
<1>1. ASSUME NEW u \in Members, NEW p \in Passwords, FreshHash(u, p) PROVE FreshHash(u, p)'
  BY <1>1 DEF FreshHash, Writing
<1> QED
  BY <1>1 DEF Grows, SameFields

LEMMA IssueKeeps ==
  ASSUME AccountInv, NEW v \in Visitors, NEW t \in Links, Issues(v, t)
  PROVE  AccountInv'
<1> DEFINE r == asked[v]
           k == [purpose |-> r.does, member |-> r.member, mailbox |-> r.mailbox,
                 password |-> r.password, fate |-> "live",
                 stale |-> r.does = "reset" /\ account[r.member].mailbox # r.mailbox]
<1>1. /\ r.does \in {"registration", "reset", "bind"} /\ emailTokens[t] = FreeLink
      /\ emailTokens' = [emailTokens EXCEPT ![t] = k]
      /\ Done(v) /\ UNCHANGED <<account, hashes, sessions, writer>>
  BY DEF Issues
<1>2. /\ k \in LinkRows /\ k.purpose = r.does /\ k.member = r.member /\ k.mailbox = r.mailbox
      /\ k.password = r.password /\ k.fate = "live"
      /\ k.stale => r.does = "reset" /\ account[r.member].mailbox # r.mailbox
  BY <1>1, AskParts DEF LinkRows
<1> HIDE DEF k
<1>3. LinkRow(k)
  BY <1>1, <1>2, AskParts DEF LinkRow, AskRow, Personal
<1>5. emailTokens' \in [Links -> LinkRows]
  BY <1>1, <1>2, AccountTypes
<1>6. ASSUME NEW s \in Links PROVE emailTokens'[s] = IF s = t THEN k ELSE emailTokens[s]
  BY <1>1, <1>6, AccountTypes
<1>7. AccountsTypeOK'
  BY <1>1, <1>5, AskTyped, AccountTypes DEF AccountsTypeOK
<1>8. Grows
  <2>1. ASSUME NEW s \in Links, emailTokens[s].fate # "free" PROVE SameFields(s)
    BY <1>1, <1>5, <1>6, <2>1, LinkParts DEF SameFields, FreeLink
  <2>2. ASSUME NEW u \in Members
        PROVE  hashes[u] <= hashes'[u] /\ account'[u].row = account[u].row
    BY <1>1, <2>2, MemberParts
  <2> QED
    BY <1>1, <2>1, <2>2, MailGrows
<1>9. ASSUME NEW u \in Members PROVE AccountSound(u)'
  BY <1>1, <1>9, MemberParts DEF AccountSound, FreshHash, Writing
<1>10. ASSUME NEW s \in Links PROVE LinkRow(emailTokens[s])' /\ Refused(emailTokens[s])'
  <2>1. CASE s = t
    <3>1. ASSUME NEW x, x = k PROVE LinkRow(x)'
      BY <1>2, <1>3, <1>7, <1>8, <3>1, LinkGrows
    <3>2. ASSUME NEW x, x = k PROVE Refused(x)'
      BY <1>1, <1>2, <3>2 DEF Refused
    <3>3. ASSUME NEW x, x = emailTokens'[s]
          PROVE  LinkRow(emailTokens[s])' /\ Refused(emailTokens[s])'
      BY <1>6, <1>10, <2>1, <3>1, <3>2, <3>3
    <3> QED
      BY <3>3
  <2>2. CASE s # t
    <3>1. Refused(emailTokens[s])'
      BY <1>1, <1>6, <1>10, <2>2, LinkParts DEF Refused, Writing
    <3> QED
      BY <1>6, <1>7, <1>8, <1>10, <2>2, <3>1, LinkStep
  <2> QED
    BY <2>1, <2>2
<1> QED
  BY <1>1, <1>7, <1>8, <1>9, <1>10, Closing

LEMMA ExpireKeeps ==
  ASSUME AccountInv, NEW t \in Links, Expires(t)
  PROVE  AccountInv'
<1>1. /\ Live(t) /\ emailTokens' = [emailTokens EXCEPT ![t].fate = "expired"]
      /\ NoRequest /\ UNCHANGED <<account, hashes, sessions, writer>>
  BY DEF Expires
<1>2. ASSUME NEW s \in Links PROVE Decided(s) \/ (emailTokens'[s] = emailTokens[s] /\ s # t)
  BY <1>1, <1>2, AccountTypes DEF Decided
<1>3. ASSUME NEW s \in Links
      PROVE  /\ emailTokens[s].fate # "free" => SameFields(s)
             /\ emailTokens'[s] \in LinkRows
  BY <1>2, <1>3, DecidedFields
<1>4. AccountsTypeOK'
  <2>1. emailTokens' \in [Links -> LinkRows]
    BY <1>1, <1>3, AccountTypes
  <2> QED
    BY <1>1, <2>1, AskTyped, AccountTypes DEF AccountsTypeOK
<1>5. Grows
  <2>1. ASSUME NEW u \in Members
        PROVE  hashes[u] <= hashes'[u] /\ account'[u].row = account[u].row
    BY <1>1, <2>1, MemberParts
  <2> QED
    BY <1>1, <1>3, <2>1, MailGrows
<1>6. ASSUME NEW u \in Members PROVE AccountSound(u)'
  BY <1>1, <1>6, MemberParts DEF AccountSound, FreshHash, Writing
<1>7. ASSUME NEW s \in Links PROVE LinkRow(emailTokens[s])' /\ Refused(emailTokens[s])'
  <2>1. emailTokens'[s] = emailTokens[s] => Refused(emailTokens[s])'
    BY <1>1, <1>7, LinkParts DEF Refused, Writing
  <2> QED
    BY <1>2, <1>4, <1>5, <1>7, <2>1, LinkStep
<1> QED
  BY <1>1, <1>4, <1>5, <1>6, <1>7, Closing

(* The links of a member are void; the one that was opened is used.        *)
Overtaken(u) ==
  \/ emailTokens' = Consume(emailTokens, u, {"bind", "reset"})
  \/ \E t \in Links : /\ Live(t) /\ ~emailTokens[t].stale
                      /\ emailTokens' = Consume(Spent(t), u, {"bind", "reset"})

LEMMA Consumed ==
  ASSUME AccountInv, NEW u \in Members, Overtaken(u), NEW s \in Links
  PROVE  /\ emailTokens'[s] \in LinkRows
         /\ \/ Decided(s)
            \/ /\ emailTokens'[s] = emailTokens[s]
               /\ Live(s) /\ emailTokens[s].purpose \in Personal => emailTokens[s].member # u
<1>1. CASE emailTokens' = Consume(emailTokens, u, {"bind", "reset"})
  <2>1. /\ emailTokens' = [x \in Links |-> emailTokens'[x]]
        /\ emailTokens'[s] = IF /\ emailTokens[s].fate = "live" /\ emailTokens[s].member = u
                                /\ emailTokens[s].purpose \in {"bind", "reset"}
                             THEN [emailTokens[s] EXCEPT !.fate = "void"] ELSE emailTokens[s]
    BY <1>1 DEF Consume
  <2>2. \/ Decided(s)
        \/ /\ emailTokens'[s] = emailTokens[s]
           /\ Live(s) /\ emailTokens[s].purpose \in Personal => emailTokens[s].member # u
    BY <2>1 DEF Decided, Live, Personal
  <2> QED
    BY <2>1, <2>2, DecidedFields
<1>2. ASSUME NEW t \in Links, Live(t), ~emailTokens[t].stale,
             emailTokens' = Consume(Spent(t), u, {"bind", "reset"})
      PROVE  /\ emailTokens' = [x \in Links |-> emailTokens'[x]]
             /\ \/ Decided(s)
                \/ /\ emailTokens'[s] = emailTokens[s]
                   /\ Live(s) /\ emailTokens[s].purpose \in Personal => emailTokens[s].member # u
  <2> DEFINE rows == Spent(t)
  <2>1. rows[s] = IF s = t THEN [emailTokens[t] EXCEPT !.fate = "used"] ELSE emailTokens[s]
    BY AccountTypes DEF Spent
  <2>2. rows[t].fate = "used"
    BY <2>1, AccountTypes, LinkParts DEF Spent, LinkRows
  <2> HIDE DEF rows
  <2>3. emailTokens' = Consume(rows, u, {"bind", "reset"})
    BY <1>2 DEF rows
  <2>4. /\ emailTokens' = [x \in Links |-> emailTokens'[x]]
        /\ emailTokens'[s] = IF /\ rows[s].fate = "live" /\ rows[s].member = u
                                /\ rows[s].purpose \in {"bind", "reset"}
                             THEN [rows[s] EXCEPT !.fate = "void"] ELSE rows[s]
    BY <2>3 DEF Consume
  <2>5. CASE s = t
    BY <1>2, <2>1, <2>2, <2>4, <2>5 DEF Decided
  <2>6. CASE s # t
    BY <2>1, <2>4, <2>6 DEF Decided, Live, Personal
  <2> QED
    BY <2>4, <2>5, <2>6
<1> QED
  BY <1>1, <1>2, DecidedFields DEF Overtaken

LEMMA OvertakenKeeps ==
  ASSUME AccountInv, AccountsTypeOK', Grows, NEW u \in Members, Overtaken(u), UNCHANGED writer,
         \A w \in Members \ {u} : account'[w] = account[w], NEW s \in Links
  PROVE  LinkRow(emailTokens[s])' /\ Refused(emailTokens[s])'
<1>1. CASE Decided(s)
  BY <1>1, LinkStep
<1>2. CASE /\ emailTokens'[s] = emailTokens[s]
           /\ Live(s) /\ emailTokens[s].purpose \in Personal => emailTokens[s].member # u
  <2>1. emailTokens[s].stale /\ Live(s) => emailTokens[s].member \in Members \ {u}
    BY <1>2, LinkParts DEF LinkRow, Had
  <2>2. Refused(emailTokens[s])'
    BY <1>2, <2>1, LinkParts DEF Refused, Live, Writing
  <2> QED
    BY <1>2, <2>2, LinkStep
<1> QED
  BY <1>1, <1>2, Consumed

LEMMA OvertakenTyped ==
  ASSUME AccountInv, NEW u \in Members, Overtaken(u)
  PROVE  emailTokens' \in [Links -> LinkRows]
<1>1. emailTokens' = [x \in Links |-> emailTokens'[x]]
  BY DEF Overtaken, Consume
<1>2. \A s \in Links : emailTokens'[s] \in LinkRows
  BY Consumed
<1> QED
  BY <1>1, <1>2

(* A live link that is confirmed is not stale.                             *)
LEMMA ConfirmedIsCurrent ==
  ASSUME AccountInv, NEW v \in Visitors, asked[v].does \in {"verify", "confirm"},
         Live(asked[v].link),
         asked[v].member # NoMember => Unchanged(v),
         asked[v].does = "confirm" => Unchanged(v) /\ StillBound(v)
  PROVE  /\ asked[v].link \in Links /\ ~emailTokens[asked[v].link].stale
         /\ asked[v].member = emailTokens[asked[v].link].member
         /\ asked[v].mailbox = emailTokens[asked[v].link].mailbox
         /\ asked[v].member # NoMember =>
              asked[v].member \in Members /\ asked[v].mailbox \in Mailboxes
         /\ asked[v].does = "confirm" => asked[v].member \in Members
<1> DEFINE k == emailTokens[asked[v].link]
<1>1. /\ asked[v].link \in Links /\ SameLink(asked[v], k)
      /\ asked[v].does = "verify" => k.purpose \in {"bind", "registration"}
      /\ asked[v].does = "confirm" => k.purpose = "reset"
  BY AskParts DEF AskRow
<1>2. LinkRow(k) /\ Refused(k)
  BY <1>1, LinkParts
<1> QED
  BY <1>1, <1>2, AccountTypes
     DEF LinkRow, Refused, SameLink, Live, Unchanged, StillBound, Personal, Had
-----------------------------------------------------------------------------
(* A mailbox is bound or left.                                             *)
LEMMA MailboxKeeps ==
  ASSUME AccountInv, NEW v \in Visitors, NEW u \in Members, NEW m \in Mailboxes \union {NoMail},
         account' = [account EXCEPT ![u].mailbox = m], Overtaken(u), account[u].row # "none",
         Done(v), UNCHANGED <<hashes, sessions, writer>>
  PROVE  AccountInv'
<1>1. ASSUME NEW w \in Members
      PROVE  /\ account'[w] \in AccountRows /\ account'[w].row = account[w].row
             /\ account'[w].password = account[w].password
             /\ account'[w].enabled = account[w].enabled /\ w # u => account'[w] = account[w]
  BY <1>1, AccountTypes DEF AccountRows
<1>2. AccountsTypeOK'
  <2>1. account' \in [Members -> AccountRows]
    BY <1>1, AccountTypes
  <2>2. emailTokens' \in [Links -> LinkRows]
    BY OvertakenTyped
  <2> QED
    BY <2>1, <2>2, AskTyped, AccountTypes DEF AccountsTypeOK
<1>3. Grows
  <2>1. ASSUME NEW s \in Links, emailTokens[s].fate # "free" PROVE SameFields(s)
    BY <2>1, Consumed, DecidedFields
  <2>2. ASSUME NEW w \in Members
        PROVE  hashes[w] <= hashes'[w] /\ account'[w].row = account[w].row
    BY <1>1, <2>2, MemberParts
  <2> QED
    BY <2>1, <2>2, MailGrows
<1>4. ASSUME NEW w \in Members PROVE AccountSound(w)'
  BY <1>1, <1>4, MemberParts DEF AccountSound, FreshHash, Writing
<1> QED
  BY <1>1, <1>2, <1>3, <1>4, OvertakenKeeps, Closing

LEMMA UnbindKeeps ==
  ASSUME AccountInv, NEW v \in Visitors, Unbinds(v)
  PROVE  AccountInv'
<1>1. /\ asked[v].member \in Members /\ asked[v].password > 0
  BY AskParts DEF Unbinds, AskRow, Had
<1>2. account[asked[v].member].row # "none"
  BY <1>1, MemberParts, AskParts DEF Unbinds, Unchanged, AccountSound
<1> QED
  BY <1>1, <1>2, AccountTypes, MailboxKeeps DEF Unbinds, Overtaken
LEMMA VerifyKeeps ==
  ASSUME AccountInv, NEW v \in Visitors, Verifies(v)
  PROVE  AccountInv'
<1> DEFINE r == asked[v]
           t == r.link
           k == emailTokens[t]
<1>1. /\ r.does = "verify" /\ Live(t) /\ Done(v) /\ UNCHANGED <<hashes, sessions, writer>>
      /\ r.member # NoMember => Unchanged(v)
  BY DEF Verifies
<1>2. /\ t \in Links /\ ~k.stale /\ r.mailbox \in Mailboxes \union {NoMail}
      /\ r.member # NoMember => r.member \in Members
  BY <1>1, ConfirmedIsCurrent, AskParts
<1>3. CASE r.member # NoMember
  <2>1. /\ account' = [account EXCEPT ![r.member].mailbox = r.mailbox] /\ Overtaken(r.member)
    BY <1>1, <1>2, <1>3 DEF Verifies, Overtaken
  <2>2. account[r.member].row # "none"
    BY <1>1, <1>2, <1>3, MemberParts, LinkParts, ConfirmedIsCurrent, AskParts
       DEF Unchanged, AccountSound, AskRow, SameLink, LinkRow, Had, NoAccount, Personal
  <2> QED
    BY <1>1, <1>2, <1>3, <2>1, <2>2, MailboxKeeps
<1>4. CASE r.member = NoMember
  <2>1. PICK p \in Links :
          /\ emailTokens[p] = FreeLink
          /\ emailTokens' = [Spent(t) EXCEPT ![p] =
               [FreeLink EXCEPT !.purpose = "proof", !.mailbox = r.mailbox, !.fate = "live"]]
          /\ UNCHANGED account
    BY <1>2, <1>4, AccountTypes DEF Verifies
  <2> DEFINE n == [FreeLink EXCEPT !.purpose = "proof", !.mailbox = r.mailbox, !.fate = "live"]
  <2>2. n \in LinkRows /\ n.purpose = "proof" /\ n.fate = "live" /\ n.member = NoMember /\ ~n.stale
    BY <1>2, AccountTypes DEF FreeLink, LinkRows
  <2>3. p # t
    BY <1>1, <2>1 DEF Live, FreeLink
  <2> HIDE DEF n
  <2>4. ASSUME NEW s \in Links
        PROVE  emailTokens'[s] = IF s = p THEN n
                                 ELSE IF s = t THEN [emailTokens[t] EXCEPT !.fate = "used"]
                                 ELSE emailTokens[s]
    BY <1>2, <2>1, <2>3, <2>4, AccountTypes DEF Spent, n
  <2>5. ASSUME NEW s \in Links, s # p
        PROVE  Decided(s) \/ (emailTokens'[s] = emailTokens[s] /\ Refused(emailTokens[s])')
    <3>1. CASE s = t
      BY <1>1, <1>2, <2>4, <2>5, <3>1 DEF Decided
    <3>2. CASE s # t
      BY <1>1, <2>1, <2>4, <2>5, <3>2, LinkParts DEF Refused, Writing
    <3> QED
      BY <3>1, <3>2
  <2>6. AccountsTypeOK'
    <3>1. \A s \in Links : emailTokens'[s] \in LinkRows
      BY <2>2, <2>4, <2>5, DecidedFields
    <3>2. emailTokens' = [s \in Links |-> emailTokens'[s]]
      BY <2>1, AccountTypes DEF Spent
    <3>3. emailTokens' \in [Links -> LinkRows]
      BY <3>1, <3>2
    <3> QED
      BY <1>1, <2>1, <3>3, AskTyped, AccountTypes DEF AccountsTypeOK
  <2>7. Grows
    <3>1. ASSUME NEW s \in Links, emailTokens[s].fate # "free" PROVE SameFields(s)
      BY <2>1, <2>5, <3>1, DecidedFields DEF FreeLink
    <3>2. ASSUME NEW u \in Members
          PROVE  hashes[u] <= hashes'[u] /\ account'[u].row = account[u].row
      BY <1>1, <2>1, <3>2, MemberParts
    <3> QED
      BY <1>1, <3>1, <3>2, MailGrows
  <2>8. ASSUME NEW u \in Members PROVE AccountSound(u)'
    BY <1>1, <2>1, <2>8, MemberParts DEF AccountSound, FreshHash, Writing
  <2>9. ASSUME NEW s \in Links PROVE LinkRow(emailTokens[s])' /\ Refused(emailTokens[s])'
    <3>1. CASE s = p
      BY <2>2, <2>4, <2>9, <3>1 DEF LinkRow, Refused, Personal
    <3>2. CASE s # p
      BY <2>5, <2>6, <2>7, <2>9, <3>2, LinkStep
    <3> QED
      BY <3>1, <3>2
  <2> QED
    BY <1>1, <2>6, <2>7, <2>8, <2>9, Closing
<1> QED
  BY <1>3, <1>4

(* A password is reset: it is new, also to a record under way.             *)
LEMMA ResetKeeps ==
  ASSUME AccountInv, NEW v \in Visitors, Resets(v)
  PROVE  AccountInv'
<1> DEFINE u == asked[v].member
<1>1. /\ asked[v].does = "confirm" /\ Live(asked[v].link) /\ Unchanged(v) /\ StillBound(v)
      /\ Takes(u) /\ account' = [account EXCEPT ![u].password = NextHash(u)]
      /\ sessions' = [sessions EXCEPT ![u] = {}]
      /\ emailTokens' = Consume(Spent(asked[v].link), u, {"bind", "reset"})
      /\ Done(v) /\ UNCHANGED writer
  BY DEF Resets
<1>2. u \in Members /\ asked[v].link \in Links /\ ~emailTokens[asked[v].link].stale
  BY <1>1, ConfirmedIsCurrent
<1>3. Overtaken(u)
  BY <1>1, <1>2 DEF Overtaken
<1>4. /\ NextHash(u) = hashes[u] + 1 /\ NextHash(u) \in Passwords
      /\ hashes' = [hashes EXCEPT ![u] = NextHash(u)]
  BY <1>1, <1>2, MemberParts, AccountTypes DEF Takes, NextHash, Passwords
<1>5. account[u].password > 0
  BY <1>1, <1>2, AskParts, LinkParts
     DEF Unchanged, AskRow, SameLink, LinkRow, Had, Personal
<1>6. ASSUME NEW w \in Members
      PROVE  /\ account'[w] \in AccountRows /\ account'[w].row = account[w].row
             /\ account'[w].enabled = account[w].enabled
             /\ account'[w].password = IF w = u THEN NextHash(u) ELSE account[w].password
             /\ w # u => account'[w] = account[w]
             /\ hashes'[w] = IF w = u THEN NextHash(u) ELSE hashes[w]
  BY <1>1, <1>2, <1>4, <1>6, AccountTypes DEF AccountRows
<1>7. AccountsTypeOK'
  <2>1. account' \in [Members -> AccountRows] /\ hashes' \in [Members -> Passwords]
    BY <1>1, <1>4, <1>6, AccountTypes
  <2>2. sessions' \in [Members -> SUBSET Passwords]
    BY <1>1, AccountTypes
  <2> QED
    BY <1>1, <1>2, <1>3, <2>1, <2>2, OvertakenTyped, AskTyped, AccountTypes DEF AccountsTypeOK
<1>8. Grows
  <2>1. ASSUME NEW s \in Links, emailTokens[s].fate # "free" PROVE SameFields(s)
    BY <1>2, <1>3, <2>1, Consumed, DecidedFields
  <2>2. ASSUME NEW w \in Members
        PROVE  hashes[w] <= hashes'[w] /\ account'[w].row = account[w].row
    BY <1>4, <1>6, <2>2, MemberParts
  <2> QED
    BY <1>1, <2>1, <2>2, MailGrows
<1>9. ASSUME NEW w \in Members PROVE AccountSound(w)'
  <2>1. CASE w # u
    BY <1>1, <1>6, <1>9, <2>1, MemberParts DEF AccountSound, FreshHash, Writing
  <2>2. CASE w = u
    <3>1. account[u].row \in {"kept", "archived"}
      BY <1>2, <1>5, MemberParts DEF AccountSound, NoAccount
    <3> QED
      BY <1>1, <1>4, <1>6, <1>9, <2>2, <3>1, MemberParts DEF AccountSound, FreshHash, Writing
  <2> QED
    BY <2>1, <2>2
<1>10. ASSUME NEW s \in Links PROVE LinkRow(emailTokens[s])' /\ Refused(emailTokens[s])'
  BY <1>1, <1>2, <1>3, <1>6, <1>7, <1>8, <1>10, OvertakenKeeps
<1> QED
  BY <1>1, <1>7, <1>8, <1>9, <1>10, Closing
-----------------------------------------------------------------------------
(* A record is taken, with the hash its member has or with a new one.      *)
LEMMA TakeKeeps ==
  ASSUME AccountInv, NEW u \in Members, NEW p \in Passwords, NEW e \in BOOLEAN, NEW n \in BOOLEAN,
         TakesRecord(u, p, e, n), writer = NoWriter,
         \/ ~n /\ p = account[u].password /\ UNCHANGED hashes
         \/ n /\ p = NextHash(u) /\ Takes(u),
         account[u].row \in {"kept", "archived"},
         UNCHANGED <<account, emailTokens>>, sessions' \in [Members -> SUBSET Passwords],
         NoRequest \/ \E v \in Visitors : Done(v)
  PROVE  AccountInv'
<1>1. /\ writer' \in Writers /\ writer'.member = u /\ writer'.password = p /\ writer'.renews = n
      /\ writer.member = NoMember /\ NoMember \notin Members
  BY AccountTypes DEF TakesRecord, Writers, NoWriter
<1>2. /\ p > 0 /\ p \in Nat /\ hashes'[u] \in Nat /\ p <= hashes'[u] /\ hashes[u] <= hashes'[u]
      /\ n => p = hashes[u] + 1
      /\ hashes' \in [Members -> Passwords]
      /\ \A w \in Members \ {u} : hashes'[w] = hashes[w]
  <2>1. CASE ~n /\ p = account[u].password /\ UNCHANGED hashes
    BY <2>1, AccountTypes, MemberParts DEF AccountSound
  <2>2. CASE n /\ p = NextHash(u) /\ Takes(u)
    <3>1. hashes' = [hashes EXCEPT ![u] = hashes[u] + 1] /\ p = hashes[u] + 1
      BY <2>2 DEF NextHash, Takes
    <3> QED
      BY <2>2, <3>1, AccountTypes, MemberParts
  <2> QED
    BY <2>1, <2>2
<1>3. AccountsTypeOK'
  BY <1>1, <1>2, AskTyped, AccountTypes DEF AccountsTypeOK
<1>4. ASSUME NEW w \in Members, NEW q \in Passwords, q <= hashes[w] PROVE FreshHash(w, q)'
  <2>1. q \in Nat /\ hashes[w] \in Nat
    BY <1>4, MemberParts, AccountTypes
  <2> QED
    BY <1>1, <1>2, <1>4, <2>1 DEF FreshHash, Writing
<1>5. Grows
  <2>1. ASSUME NEW w \in Members PROVE hashes[w] <= hashes'[w]
    BY <1>2, <2>1, MemberParts
  <2> QED
    BY <1>4, <2>1 DEF Grows
<1>6. ASSUME NEW w \in Members PROVE AccountSound(w)'
  <2>1. FreshHash(w, account[w].password)'
    BY <1>4, <1>6, MemberParts DEF AccountSound
  <2>2. account[w].password <= hashes'[w]
    BY <1>2, <1>6, MemberParts DEF AccountSound
  <2> QED
    BY <1>1, <1>2, <1>6, <2>1, <2>2, MemberParts DEF AccountSound, Writing
<1>7. ASSUME NEW t \in Links PROVE LinkRow(emailTokens[t])' /\ Refused(emailTokens[t])'
  <2> DEFINE k == emailTokens[t]
  <2>1. CASE k.stale /\ Live(t) /\ k.member = u
    <3>1. k.password <= hashes[u] /\ k.password \in Nat /\ hashes[u] \in Nat
      BY <1>7, <2>1, LinkParts, MemberParts, AccountTypes DEF LinkRow, Had
    <3>2. \/ k.purpose = "reset" /\ account[u].mailbox # k.mailbox
          \/ account[u].password # k.password
      BY <1>7, <2>1, LinkParts DEF Refused, Live
    <3>3. account[u].password # k.password => p # k.password
      BY <1>2, <3>1
    <3>4. Refused(emailTokens[t])'
      BY <1>1, <2>1, <3>2, <3>3 DEF Refused, Writing
    <3> QED
      BY <1>3, <1>5, <1>7, <3>4, LinkStep
  <2>2. CASE ~(k.stale /\ Live(t) /\ k.member = u)
    <3>1. Refused(emailTokens[t])'
      BY <1>1, <1>7, <2>2, LinkParts DEF Refused, Writing, Live
    <3> QED
      BY <1>3, <1>5, <1>7, <3>1, LinkStep
  <2> QED
    BY <2>1, <2>2
<1>8. writer'.member \in Members
  BY <1>1
<1> QED
  BY <1>3, <1>5, <1>6, <1>7, <1>8, Closing

LEMMA ChangeHoldsKeeps ==
  ASSUME AccountInv, NEW v \in Visitors, ChangeHolds(v)
  PROVE  AccountInv'
<1> DEFINE u == asked[v].member
<1>1. /\ asked[v].does = "change" /\ writer = NoWriter
      /\ Done(v) /\ UNCHANGED <<account, sessions, emailTokens>>
      /\ \/ UNCHANGED <<hashes, writer>>
         \/ /\ account[u].row # "deleted"
            /\ Takes(u) /\ TakesRecord(u, NextHash(u), account[u].enabled, TRUE)
  BY DEF ChangeHolds
<1>2. u \in Members /\ account[u].row # "none"
  BY <1>1, AskParts DEF AskRow
<1>3. CASE UNCHANGED <<hashes, writer>>
  BY <1>1, <1>3, AccountTypes, DoneKeeps
<1>4. CASE /\ account[u].row # "deleted"
           /\ Takes(u) /\ TakesRecord(u, NextHash(u), account[u].enabled, TRUE)
  <2>1. NextHash(u) \in Passwords
    BY <1>2, <1>4, MemberParts, AccountTypes DEF Takes, NextHash, Passwords
  <2>2. account[u].enabled \in BOOLEAN /\ account[u].row \in {"kept", "archived"}
    BY <1>2, <1>4, MemberParts
  <2>3. /\ writer = NoWriter /\ UNCHANGED <<account, emailTokens>> /\ TRUE \in BOOLEAN
        /\ sessions' \in [Members -> SUBSET Passwords] /\ \E w \in Visitors : Done(w)
    BY <1>1, AccountTypes
  <2> QED
    BY <1>2, <1>4, <2>1, <2>2, <2>3, TakeKeeps
<1> QED
  BY <1>1, <1>3, <1>4

LEMMA EditHoldsKeeps ==
  ASSUME AccountInv, NEW u \in Members, EditHolds(u)
  PROVE  AccountInv'
<1>1. PICK e \in BOOLEAN :
        \/ TakesRecord(u, account[u].password, e, FALSE) /\ UNCHANGED <<hashes, sessions>>
        \/ /\ Takes(u) /\ TakesRecord(u, NextHash(u), e, TRUE)
           /\ sessions' = [sessions EXCEPT ![u] = {}]
  BY DEF EditHolds
<1>2. /\ writer = NoWriter /\ account[u].row = "kept" /\ NoRequest
      /\ UNCHANGED <<account, emailTokens>>
  BY DEF EditHolds
<1>3. CASE TakesRecord(u, account[u].password, e, FALSE) /\ UNCHANGED <<hashes, sessions>>
  <2>1. /\ account[u].password \in Passwords /\ FALSE \in BOOLEAN
        /\ sessions' \in [Members -> SUBSET Passwords] /\ UNCHANGED hashes
    BY <1>3, MemberParts, AccountTypes
  <2> QED
    BY <1>2, <1>3, <2>1, TakeKeeps
<1>4. CASE /\ Takes(u) /\ TakesRecord(u, NextHash(u), e, TRUE)
           /\ sessions' = [sessions EXCEPT ![u] = {}]
  <2>1. NextHash(u) \in Passwords
    BY <1>4, MemberParts, AccountTypes DEF Takes, NextHash, Passwords
  <2>2. sessions' \in [Members -> SUBSET Passwords]
    BY <1>4, AccountTypes
  <2> QED
    BY <1>1, <1>2, <1>4, <2>1, <2>2, TakeKeeps
<1> QED
  BY <1>1, <1>3, <1>4
-----------------------------------------------------------------------------
(* Nothing is under way any more.                                          *)
LEMMA WriterRests ==
  ASSUME AccountInv
  PROVE  NoWriter \in Writers /\ NoWriter.member = NoMember /\ NoMember \notin Members
  BY AccountTypes DEF NoWriter, Writers

LEMMA SaveFailsKeeps ==
  ASSUME AccountInv, SaveFails
  PROVE  AccountInv'
<1>1. /\ writer' = NoWriter /\ NoRequest /\ UNCHANGED <<account, hashes, sessions, emailTokens>>
  BY DEF SaveFails
<1>2. AccountsTypeOK'
  BY <1>1, WriterRests, AskTyped, AccountTypes DEF AccountsTypeOK
<1>3. Grows
  BY <1>1, WriterRests, MemberParts DEF Grows, FreshHash, Writing
<1>4. ASSUME NEW w \in Members PROVE AccountSound(w)'
  BY <1>1, <1>4, WriterRests, MemberParts DEF AccountSound, FreshHash, Writing
<1>5. ASSUME NEW t \in Links PROVE LinkRow(emailTokens[t])' /\ Refused(emailTokens[t])'
  <2>1. emailTokens[t].stale /\ Live(t) => emailTokens[t].member \in Members
    BY <1>5, LinkParts DEF LinkRow, Had
  <2>2. Refused(emailTokens[t])'
    BY <1>1, <1>5, <2>1, WriterRests, LinkParts DEF Refused, Writing, Live
  <2> QED
    BY <1>1, <1>2, <1>3, <1>5, <2>2, LinkStep
<1> QED
  BY <1>1, <1>2, <1>3, <1>4, <1>5, Closing

(* A record is saved.  Links that were live become stale when it brings a  *)
(* hash, which none of them has.                                           *)
LEMMA SaveKeeps ==
  ASSUME AccountInv, Saves, NEW u \in Members, writer.member = u
  PROVE  AccountInv'
<1>1. /\ account' = [account EXCEPT ![u].password = writer.password,
                                    ![u].enabled = writer.enabled]
      /\ writer' = NoWriter /\ NoRequest /\ UNCHANGED hashes
      /\ IF writer.renews
         THEN sessions' = [sessions EXCEPT ![u] = {}] /\ emailTokens' = Outdate(u)
         ELSE UNCHANGED <<sessions, emailTokens>>
  BY DEF Saves
<1>2. /\ u \in Members /\ writer.password \in Passwords /\ writer.enabled \in BOOLEAN
      /\ NoMember \notin Members /\ NoWriter.member = NoMember /\ NoWriter \in Writers
  BY WriterRests, AccountTypes DEF Writers
<1>3. ASSUME NEW w \in Members
      PROVE  /\ account'[w] \in AccountRows /\ account'[w].row = account[w].row
             /\ account'[w].mailbox = account[w].mailbox
             /\ account'[w].password = IF w = u THEN writer.password ELSE account[w].password
             /\ account'[w].enabled = IF w = u THEN writer.enabled ELSE account[w].enabled
             /\ w # u => account'[w] = account[w]
  <2> DEFINE r == [account[u] EXCEPT !.password = writer.password, !.enabled = writer.enabled]
  <2>1. /\ r \in AccountRows /\ r.row = account[u].row /\ r.mailbox = account[u].mailbox
        /\ r.password = writer.password /\ r.enabled = writer.enabled
    BY <1>2, MemberParts DEF AccountRows
  <2>2. account' = [account EXCEPT ![u] = r]
    BY <1>1, <1>2, AccountTypes
  <2> HIDE DEF r
  <2>3. account'[w] = IF w = u THEN r ELSE account[w]
    BY <1>3, <2>2, AccountTypes
  <2> QED
    BY <1>3, <2>1, <2>3, MemberParts
<1>4. ASSUME NEW t \in Links
      PROVE  \/ emailTokens'[t] = emailTokens[t]
             \/ /\ writer.renews /\ Live(t) /\ emailTokens[t].member = u
                /\ emailTokens'[t] = [emailTokens[t] EXCEPT !.stale = TRUE]
  BY <1>1, <1>4 DEF Outdate
<1>5. ASSUME NEW t \in Links
      PROVE  /\ emailTokens'[t] \in LinkRows /\ (emailTokens[t].fate # "free" => SameFields(t))
  <2>1. CASE emailTokens'[t] = emailTokens[t]
    BY <1>5, <2>1, DecidedFields
  <2>2. CASE emailTokens'[t] = [emailTokens[t] EXCEPT !.stale = TRUE]
    BY <1>5, <2>2, LinkParts DEF SameFields, LinkRows
  <2> QED
    BY <1>4, <1>5, <2>1, <2>2
<1>6. AccountsTypeOK'
  <2>1. account' \in [Members -> AccountRows]
    BY <1>1, <1>3, AccountTypes
  <2>2. emailTokens' \in [Links -> LinkRows]
    <3>1. emailTokens' = [t \in Links |-> emailTokens'[t]]
      BY <1>1, AccountTypes DEF Outdate
    <3> QED
      BY <1>5, <3>1
  <2>3. sessions' \in [Members -> SUBSET Passwords]
    BY <1>1, AccountTypes
  <2> QED
    BY <1>1, <1>2, <2>1, <2>2, <2>3, AskTyped, AccountTypes DEF AccountsTypeOK
<1>7. Grows
  <2>1. ASSUME NEW w \in Members
        PROVE  /\ hashes[w] <= hashes'[w]
               /\ account'[w].row = "none" => account[w].row = "none"
    <3>1. hashes'[w] = hashes[w] /\ hashes[w] \in Nat
      BY <1>1, <2>1, MemberParts
    <3> QED
      BY <1>3, <2>1, <3>1
  <2>2. ASSUME NEW w \in Members, NEW q \in Passwords PROVE FreshHash(w, q)'
    BY <1>1, <1>2, <2>2 DEF FreshHash, Writing
  <2> QED
    BY <1>5, <2>1, <2>2 DEF Grows, SameFields
<1>8. ASSUME NEW w \in Members PROVE AccountSound(w)'
  <2>1. CASE w = u
    BY <1>1, <1>2, <1>3, <1>8, <2>1, MemberParts DEF AccountSound, FreshHash, Writing
  <2>2. CASE w # u
    BY <1>1, <1>2, <1>3, <1>8, <2>2, MemberParts DEF AccountSound, FreshHash, Writing
  <2> QED
    BY <2>1, <2>2
<1>9. ASSUME NEW t \in Links PROVE LinkRow(emailTokens[t])' /\ Refused(emailTokens[t])'
  <2>1. CASE emailTokens'[t] = emailTokens[t]
    <3>1. ASSUME emailTokens[t].stale, Live(t), NEW w, w = emailTokens[t].member
          PROVE  Refused(emailTokens[t])'
      <4>1. /\ w \in Members
            /\ \/ emailTokens[t].purpose = "reset" /\ account[w].mailbox # emailTokens[t].mailbox
               \/ /\ account[w].password # emailTokens[t].password
                  /\ w = u => writer.password # emailTokens[t].password
        BY <1>9, <3>1, LinkParts DEF LinkRow, Had, Refused, Live, Writing
      <4>2. /\ account'[w].mailbox = account[w].mailbox
            /\ account'[w].password = IF w = u THEN writer.password ELSE account[w].password
        BY <1>3, <4>1
      <4>3. ~Writing(w)'
        BY <1>1, <1>2, <4>1 DEF Writing
      <4> QED
        BY <2>1, <3>1, <4>1, <4>2, <4>3 DEF Refused
    <3>2. Refused(emailTokens[t])'
      BY <2>1, <3>1 DEF Refused, Live
    <3> QED
      BY <1>6, <1>7, <1>9, <2>1, <3>2, LinkStep
  <2>2. CASE /\ writer.renews /\ Live(t) /\ emailTokens[t].member = u
             /\ emailTokens'[t] = [emailTokens[t] EXCEPT !.stale = TRUE]
    <3>1. /\ emailTokens[t].purpose \in Personal /\ Had(u, emailTokens[t].password)
          /\ emailTokens[t].mailbox \in Mailboxes
      BY <1>2, <1>9, <2>2, LinkParts DEF LinkRow
    <3>2. /\ emailTokens'[t].purpose = emailTokens[t].purpose /\ emailTokens'[t].member = u
          /\ emailTokens'[t].mailbox = emailTokens[t].mailbox
          /\ emailTokens'[t].password = emailTokens[t].password
          /\ emailTokens'[t].fate = "live" /\ emailTokens'[t].stale
      BY <1>9, <2>2, LinkParts DEF LinkRows, Live
    <3>3. account'[u].password # emailTokens[t].password
      BY <1>3, <2>2, <3>1 DEF Had, FreshHash, Writing
    <3>4. ~Writing(u)'
      BY <1>1, <1>2 DEF Writing
    <3>5. ASSUME NEW p \in Passwords, p = emailTokens[t].password PROVE Had(u, p)'
      BY <1>6, <1>7, <3>1, <3>5, HadGrows
    <3>6. Had(emailTokens[t].member, emailTokens[t].password)'
      BY <1>9, <3>2, <3>5, LinkParts
    <3>7. LinkRow(emailTokens[t])'
      BY <3>1, <3>2, <3>6 DEF LinkRow, Personal
    <3>8. Refused(emailTokens[t])'
      BY <3>2, <3>3, <3>4 DEF Refused
    <3> QED
      BY <3>7, <3>8
  <2> QED
    BY <1>4, <1>9, <2>1, <2>2
<1> QED
  BY <1>1, <1>6, <1>7, <1>8, <1>9, Closing
-----------------------------------------------------------------------------
(* Rows made and removed while nothing is under way.                       *)
LEMMA RowKeeps ==
  ASSUME AccountInv, NEW u \in Members, NEW r \in AccountRows, NEW h \in Passwords,
         writer = NoWriter, UNCHANGED writer, NoRequest,
         account' = [account EXCEPT ![u] = r], hashes' = [hashes EXCEPT ![u] = h],
         hashes[u] <= h, r.password <= h, r.row # "none",
         r.row \in {"kept", "archived"} <=> r.password > 0,
         r.row = "deleted" => ~r.enabled,
         \/ account[u].row = "none"
         \/ /\ r.mailbox = account[u].mailbox \/ r.mailbox = NoMail
            /\ r.password = account[u].password \/ r.password = 0,
         sessions' \in [Members -> SUBSET Passwords],
         \A t \in Links : \/ emailTokens'[t] = emailTokens[t]
                          \/ Decided(t),
         emailTokens' = [t \in Links |-> emailTokens'[t]]
  PROVE  AccountInv'
<1>1. ASSUME NEW w \in Members
      PROVE  /\ account'[w] = IF w = u THEN r ELSE account[w]
             /\ hashes'[w] = IF w = u THEN h ELSE hashes[w]
  BY <1>1, AccountTypes
<1>2. ASSUME NEW w \in Members PROVE ~Writing(w)'
  BY <1>2, WriterRests DEF Writing
<1>3. AccountsTypeOK'
  <2>1. account' \in [Members -> AccountRows] /\ hashes' \in [Members -> Passwords]
    BY AccountTypes
  <2>2. emailTokens' \in [Links -> LinkRows]
    BY DecidedFields
  <2> QED
    BY <2>1, <2>2, AskTyped, AccountTypes DEF AccountsTypeOK
<1>4. Grows
  <2>1. ASSUME NEW w \in Members
        PROVE  /\ hashes[w] <= hashes'[w]
               /\ account'[w].row = "none" => account[w].row = "none"
    BY <1>1, <2>1, MemberParts
  <2>2. ASSUME NEW w \in Members, NEW q \in Passwords PROVE FreshHash(w, q)'
    BY <1>2, <2>2 DEF FreshHash
  <2>3. ASSUME NEW t \in Links, emailTokens[t].fate # "free" PROVE SameFields(t)
    BY <2>3, DecidedFields
  <2> QED
    BY <2>1, <2>2, <2>3 DEF Grows, SameFields
<1>5. ASSUME NEW w \in Members PROVE AccountSound(w)'
  <2>1. CASE w = u
    BY <1>1, <1>2, <1>5, <2>1 DEF AccountSound, FreshHash, AccountRows
  <2>2. CASE w # u
    BY <1>1, <1>2, <1>5, <2>2, MemberParts DEF AccountSound, FreshHash
  <2> QED
    BY <2>1, <2>2
<1>6. ASSUME NEW t \in Links PROVE LinkRow(emailTokens[t])' /\ Refused(emailTokens[t])'
  <2>1. CASE emailTokens'[t] = emailTokens[t]
    <3>1. ASSUME emailTokens[t].stale, Live(t), NEW w, w = emailTokens[t].member
          PROVE  Refused(emailTokens[t])'
      <4>1. /\ w \in Members /\ emailTokens[t].mailbox \in Mailboxes
            /\ emailTokens[t].password > 0 /\ emailTokens[t].password <= hashes[w]
            /\ \/ emailTokens[t].purpose = "reset" /\ account[w].mailbox # emailTokens[t].mailbox
               \/ account[w].password # emailTokens[t].password
        BY <1>6, <3>1, LinkParts DEF LinkRow, Had, Refused, Live
      <4>2. account[w].row = "none" => hashes[w] = 0
        BY <4>1, MemberParts DEF AccountSound
      <4>3. account[w].row # "none"
        BY <1>6, <4>1, <4>2, LinkParts
      <4>4. \/ emailTokens[t].purpose = "reset" /\ account'[w].mailbox # emailTokens[t].mailbox
            \/ account'[w].password # emailTokens[t].password
        BY <1>1, <4>1, <4>3, AccountTypes
      <4> QED
        BY <1>2, <2>1, <3>1, <4>1, <4>4 DEF Refused
    <3>2. Refused(emailTokens[t])'
      BY <2>1, <3>1 DEF Refused, Live
    <3> QED
      BY <1>3, <1>4, <1>6, <2>1, <3>2, LinkStep
  <2>2. CASE Decided(t)
    BY <1>3, <1>4, <1>6, <2>2, LinkStep
  <2> QED
    BY <1>6, <2>1, <2>2
<1> QED
  BY <1>3, <1>4, <1>5, <1>6, Closing

LEMMA AddKeeps ==
  ASSUME AccountInv, NEW u \in Members, NEW e \in BOOLEAN, NEW m \in Mailboxes \union {NoMail},
         AddsAccount(u, e, m), sessions' \in [Members -> SUBSET Passwords],
         \/ UNCHANGED emailTokens
         \/ \E t \in Links : /\ Live(t) /\ emailTokens[t].purpose = "proof"
                             /\ emailTokens' = Spent(t)
  PROVE  AccountInv'
<1> DEFINE r == Member(1, e, m)
<1>1. /\ writer = NoWriter /\ account[u] = NoAccount /\ account' = [account EXCEPT ![u] = r]
      /\ hashes' = [hashes EXCEPT ![u] = 1] /\ NoRequest /\ UNCHANGED writer
  BY DEF AddsAccount
<1>2. r \in AccountRows /\ r.password = 1 /\ r.row = "kept" /\ 1 \in Passwords
  BY AccountTypes DEF Member, AccountRows
<1>3. account[u].row = "none" /\ hashes[u] = 0
  BY <1>1, MemberParts DEF AccountSound, NoAccount
<1>4. emailTokens' = [t \in Links |-> emailTokens'[t]]
  BY AccountTypes DEF Spent
<1>5. ASSUME NEW s \in Links PROVE emailTokens'[s] = emailTokens[s] \/ Decided(s)
  <2>1. CASE UNCHANGED emailTokens
    BY <2>1
  <2>2. ASSUME NEW t \in Links, Live(t), emailTokens[t].purpose = "proof", emailTokens' = Spent(t)
        PROVE  emailTokens'[s] = emailTokens[s] \/ Decided(s)
    <3>1. ~emailTokens[t].stale
      BY <2>2, LinkParts DEF LinkRow, Personal
    <3> QED
      BY <1>5, <2>2, <3>1, AccountTypes DEF Spent, Decided
  <2> QED
    BY <2>1, <2>2
<1> HIDE DEF r
<1>6. /\ hashes[u] <= 1 /\ r.password <= 1 /\ r.row # "none"
      /\ r.row \in {"kept", "archived"} <=> r.password > 0
      /\ r.row = "deleted" => ~r.enabled
  BY <1>2, <1>3
<1> QED
  BY <1>1, <1>2, <1>3, <1>4, <1>5, <1>6, RowKeeps

LEMMA RegisterKeeps ==
  ASSUME AccountInv, NEW u \in Members, Registers(u) \/ Creates(u)
  PROVE  AccountInv'
<1>1. CASE Registers(u)
  <2>1. sessions' \in [Members -> SUBSET Passwords]
    BY <1>1, AccountTypes DEF Registers
  <2>2. CASE AddsAccount(u, TRUE, NoMail) /\ UNCHANGED emailTokens
    BY <2>1, <2>2, AddKeeps
  <2>3. ASSUME NEW t \in Links, Live(t), emailTokens[t].purpose = "proof",
               AddsAccount(u, TRUE, emailTokens[t].mailbox), emailTokens' = Spent(t)
        PROVE  AccountInv'
    <3>1. emailTokens[t].mailbox \in Mailboxes \union {NoMail}
      BY <2>3, LinkParts DEF LinkRows
    <3> QED
      BY <2>1, <2>3, <3>1, AddKeeps
  <2> QED
    BY <1>1, <2>2, <2>3 DEF Registers
<1>2. CASE Creates(u)
  BY <1>2, AccountTypes, AddKeeps DEF Creates
<1> QED
  BY <1>1, <1>2

LEMMA RemoveKeeps ==
  ASSUME AccountInv, NEW u \in Members, Removes(u)
  PROVE  AccountInv'
<1>1. /\ writer = NoWriter /\ account[u].row = "kept" /\ account[u].password > 0
      /\ account[u].password <= hashes[u] /\ sessions' \in [Members -> SUBSET Passwords]
      /\ NoRequest /\ UNCHANGED <<hashes, emailTokens, writer>>
  BY MemberParts, AccountTypes DEF Removes, AccountSound
<1>2. PICK r \in AccountRows :
        /\ account' = [account EXCEPT ![u] = r]
        /\ r.mailbox = account[u].mailbox \/ r.mailbox = NoMail
        /\ \/ r.row = "archived" /\ r.password = account[u].password
           \/ r.row = "deleted" /\ r.password = 0
        /\ ~r.enabled
  <2>1. CASE account' = [account EXCEPT ![u].row = "archived", ![u].enabled = FALSE]
    <3> DEFINE r == [account[u] EXCEPT !.row = "archived", !.enabled = FALSE]
    <3>1. /\ r \in AccountRows /\ r.mailbox = account[u].mailbox /\ r.row = "archived"
          /\ r.password = account[u].password /\ ~r.enabled
      BY MemberParts DEF AccountRows
    <3>2. account' = [account EXCEPT ![u] = r]
      BY <2>1, AccountTypes
    <3> QED
      BY <3>1, <3>2
  <2>2. CASE account' = [account EXCEPT ![u] = [NoAccount EXCEPT !.row = "deleted"]]
    <3> DEFINE r == [NoAccount EXCEPT !.row = "deleted"]
    <3>1. /\ r \in AccountRows /\ r.mailbox = NoMail /\ r.row = "deleted"
          /\ r.password = 0 /\ ~r.enabled
      BY AccountTypes DEF AccountRows, NoAccount
    <3> QED
      BY <2>2, <3>1
  <2> QED
    BY <2>1, <2>2 DEF Removes
<1>3. hashes' = [hashes EXCEPT ![u] = hashes[u]] /\ hashes[u] \in Passwords /\ hashes[u] \in Nat
  BY <1>1, MemberParts, AccountTypes
<1>4. emailTokens' = [t \in Links |-> emailTokens'[t]]
  BY <1>1, AccountTypes
<1>5. /\ hashes[u] <= hashes[u] /\ r.password <= hashes[u] /\ r.row # "none"
      /\ r.row \in {"kept", "archived"} <=> r.password > 0
      /\ r.row = "deleted" => ~r.enabled
      /\ r.mailbox = account[u].mailbox \/ r.mailbox = NoMail
      /\ r.password = account[u].password \/ r.password = 0
      /\ \A t \in Links : emailTokens'[t] = emailTokens[t]
      /\ UNCHANGED writer
  BY <1>1, <1>2, <1>3, MemberParts
<1>6. account' = [account EXCEPT ![u] = r]
  BY <1>2
<1> QED
  BY <1>1, <1>3, <1>4, <1>5, <1>6, RowKeeps
-----------------------------------------------------------------------------
LEMMA AccountsStart ==
  ASSUME AccountsInit
  PROVE  AccountInv
<1>1. /\ MaxPasswords \in Nat \ {0} /\ MaxRequests \in Nat \ {0}
      /\ NoMember \notin Members /\ NoMail \notin Mailboxes
  BY AccountsAssumption
<1>2. 0 \in Passwords /\ 1 \in Passwords /\ Passwords \subseteq Nat
  BY <1>1 DEF Passwords
<1>11. PICK old \in SUBSET Members : \E mailbox \in [old -> Mailboxes \union {NoMail}] :
        /\ account = [u \in Members |-> IF u \in old THEN Member(1, TRUE, mailbox[u]) ELSE NoAccount]
        /\ hashes = [u \in Members |-> IF u \in old THEN 1 ELSE 0]
  BY DEF AccountsInit
<1>3. PICK mailbox \in [old -> Mailboxes \union {NoMail}] :
        /\ account = [u \in Members |-> IF u \in old THEN Member(1, TRUE, mailbox[u]) ELSE NoAccount]
        /\ hashes = [u \in Members |-> IF u \in old THEN 1 ELSE 0]
  BY <1>11
<1>4. ASSUME NEW u \in Members
      PROVE  /\ account[u] \in AccountRows /\ hashes[u] \in Passwords
             /\ account[u].password = hashes[u] /\ hashes[u] \in {0, 1}
             /\ account[u].row = IF hashes[u] = 1 THEN "kept" ELSE "none"
             /\ hashes[u] = 0 => account[u] = NoAccount /\ ~account[u].enabled
  BY <1>2, <1>3, <1>4 DEF AccountRows, Member, NoAccount
<1>5. /\ sessions = [u \in Members |-> {}] /\ emailTokens = [t \in Links |-> FreeLink]
      /\ asked = [v \in Visitors |-> NotAsking] /\ asking = 0 /\ writer = NoWriter
  BY DEF AccountsInit
<1>6. FreeLink \in LinkRows /\ NotAsking \in Askings /\ NoWriter \in Writers
  BY <1>2 DEF FreeLink, LinkRows, NotAsking, Askings, NoWriter, Writers
<1>7. AccountsTypeOK
  <2>1. account \in [Members -> AccountRows] /\ hashes \in [Members -> Passwords]
    BY <1>3, <1>4
  <2>2. asking \in 0 .. MaxRequests /\ sessions \in [Members -> SUBSET Passwords]
    BY <1>1, <1>5
  <2> QED
    BY <1>5, <1>6, <2>1, <2>2 DEF AccountsTypeOK
<1>8. ASSUME NEW u \in Members PROVE AccountSound(u)
  BY <1>1, <1>4, <1>5, <1>8 DEF AccountSound, FreshHash, Writing, NoWriter
<1>9. ASSUME NEW t \in Links PROVE LinkRow(emailTokens[t]) /\ Refused(emailTokens[t])
  BY <1>5, <1>9 DEF LinkRow, Refused, FreeLink, Personal
<1>10. ASSUME NEW v \in Visitors PROVE AskRow(asked[v])
  BY <1>5, <1>10 DEF AskRow, NotAsking
<1> QED
  BY <1>5, <1>7, <1>8, <1>9, <1>10 DEF AccountInv, WriterSound

LEMMA AccountsStep ==
  ASSUME AccountInv, [AccountsNext]_AccountVars
  PROVE  AccountInv'
<1>1. ASSUME NEW v \in Visitors,
             \/ \E m \in Mailboxes : AsksLink(v, m) \/ \E u \in Members : AsksToBind(v, u, m)
             \/ \E t \in Links : Issues(v, t) \/ VerifyReads(v, t) \/ ResetReads(v, t)
             \/ \E u \in Members : UnbindReads(v, u) \/ LoginReads(v, u) \/ ChangeReads(v, u)
             \/ Verifies(v) \/ Resets(v) \/ Unbinds(v) \/ TurnedDown(v) \/ Logins(v)
             \/ ChangeHolds(v)
      PROVE  AccountInv'
  BY <1>1, AskingKeeps, IssueKeeps, OpeningKeeps, VerifyKeeps, ResetKeeps, UnbindKeeps,
     SignInKeeps, ChangeHoldsKeeps
<1>2. ASSUME Saves PROVE AccountInv'
  <2>1. writer.member \in Members
    BY <1>2 DEF Saves, AccountInv, WriterSound
  <2> QED
    BY <1>2, <2>1, SaveKeeps
<1>3. CASE UNCHANGED AccountVars
  <2>1. UNCHANGED <<account, hashes, sessions, emailTokens, asked, asking, writer>>
    BY <1>3 DEF AccountVars
  <2> QED
    BY <2>1, AccountTypes, AskParts, OnlyAsked
<1> QED
  BY <1>1, <1>2, <1>3, ExpireKeeps, EditHoldsKeeps, RegisterKeeps, RemoveKeeps, SaveFailsKeeps
     DEF AccountsNext

(* Whatever requests and record writers overlap, a stale link that could   *)
(* still be opened finds another hash or mailbox than it was sent for.     *)
THEOREM AccountsSafe == AccountsSpec => []AccountInv
<1> QED
  BY AccountsStart, AccountsStep, PTL DEF AccountsSpec

(* Rows, links, requests and the record under way keep their shapes.       *)
THEOREM AccountsTyped == AccountsSpec => []AccountsTypeOK
<1>1. AccountInv => AccountsTypeOK
  BY DEF AccountInv
<1> QED
  BY <1>1, AccountsSafe, PTL

(* confirmEmailToken and its like spend a link in the transaction that     *)
(* compares the hash and the mailbox: none that was spent had been         *)
(* overtaken by a change of either, for any number of members, links and   *)
(* requests.                                                               *)
THEOREM LinksWereCurrent == AccountsSpec => []SpentLinksWereCurrent
<1>1. AccountInv => SpentLinksWereCurrent
  BY AccountTypes, LinkParts DEF SpentLinksWereCurrent, LinkRow
<1> QED
  BY <1>1, AccountsSafe, PTL
-----------------------------------------------------------------------------
(* The outbox: whom a row is addressed to, and what a late worker knows.   *)

(* What is settled was bound when it happened.                             *)
SalesKnow ==
  \A s \in Mails : sale[s].state # "none" /\ sale[s].settled => sale[s].owner = bound

(* A notice has a row once its sale took place, and is addressed to its    *)
(* owner; only what has a row is handed over.                              *)
RowsAddressed ==
  \A m \in Mails :
    /\ m \in notices /\ outbox[m] # NoRow =>
         sale[m].state # "none" /\ outbox[m].to = sale[m].owner
    /\ handed[m] # {} => outbox[m] # NoRow

(* What a worker knows of its mail stays true, whoever holds the lease.    *)
MailersKnow ==
  \A w \in MailWorkers :
    /\ mailer[w].at = "capture" =>
         mailer[w].list \subseteq {s \in notices : sale[s].state # "none"}
    /\ mailer[w].at \in {"claimed", "sending", "accepted", "refused"} =>
         outbox[mailer[w].mail] # NoRow
    /\ mailer[w].at \in {"sending", "accepted", "refused"} /\ mailer[w].mail \in notices =>
         mailer[w].checked = outbox[mailer[w].mail].to
    /\ mailer[w].at = "accepted" => handed[mailer[w].mail] # {}

HandedInv == \A s \in notices : \A h \in handed[s] : h.to = sale[s].owner /\ h.to = h.checked
SentInv == \A m \in Mails : outbox[m] # NoRow /\ outbox[m].state = "sent" => handed[m] # {}

OutboxInv ==
  OutboxTypeOK /\ SalesKnow /\ RowsAddressed /\ MailersKnow /\ HandedInv /\ SentInv
-----------------------------------------------------------------------------
(* A row is not the absence of one.                                        *)
LEMMA RowIsRow == ASSUME NEW r \in MailRows PROVE r # NoRow
<1>1. "state" \in DOMAIN r
  BY DEF MailRows
<1>2. "state" \notin DOMAIN NoRow
  BY DEF NoRow
<1> QED
  BY <1>1, <1>2

LEMMA NewMailIsRow ==
  ASSUME NEW x \in Receivers
  PROVE  NewMail(x) \in MailRows /\ NewMail(x).to = x /\ NewMail(x).state = "pending"
<1> USE OutboxAssumption
<1> QED
  BY DEF NewMail, MailRows

LEMMA ClosedRow ==
  ASSUME NEW r \in MailRows,
         NEW state \in {"pending", "sending", "retry", "sent", "failed", "expired", "cancelled"}
  PROVE  /\ ClosedAs(r, state) \in MailRows
         /\ ClosedAs(r, state).to = r.to /\ ClosedAs(r, state).state = state
BY DEF ClosedAs, MailRows

LEMMA TidiedOf ==
  ASSUME NEW r \in MailRows
  PROVE  /\ TidiedRow(r) \in MailRows /\ TidiedRow(r).to = r.to
         /\ TidiedRow(r).state = "sent" => r.state = "sent"
<1>1. CASE TidiedRow(r) = ClosedAs(r, "expired")
  BY <1>1, ClosedRow
<1>2. CASE TidiedRow(r) = ClosedAs(r, "failed")
  BY <1>2, ClosedRow
<1>3. CASE TidiedRow(r) = r
  BY <1>3
<1> QED
  BY <1>1, <1>2, <1>3 DEF TidiedRow

(* What an action may do to the table: rows keep their addressee and come  *)
(* to say "sent" only of mail that was handed over.                        *)
NoticesKept ==
  /\ outbox' \in [Mails -> MailRows \union {NoRow}]
  /\ \A m \in Mails :
       /\ outbox[m] = NoRow => outbox'[m] = NoRow
       /\ outbox[m] # NoRow =>
            /\ outbox'[m] # NoRow /\ outbox'[m].to = outbox[m].to
            /\ outbox'[m].state = "sent" => outbox[m].state = "sent" \/ handed[m] # {}

LEMMA SameNotices == ASSUME OutboxTypeOK, outbox' = outbox PROVE NoticesKept
BY DEF NoticesKept, OutboxTypeOK

LEMMA OneRow ==
  ASSUME OutboxTypeOK, NEW m \in Mails, outbox[m] # NoRow, NEW r \in MailRows,
         outbox' = [outbox EXCEPT ![m] = r], r.to = outbox[m].to,
         r.state = "sent" => outbox[m].state = "sent" \/ handed[m] # {}
  PROVE  NoticesKept
BY RowIsRow DEF NoticesKept, OutboxTypeOK

LEMMA TidiedRows ==
  ASSUME OutboxTypeOK
  PROVE  /\ Tidied \in [Mails -> MailRows \union {NoRow}]
         /\ \A m \in Mails :
              /\ outbox[m] = NoRow => Tidied[m] = NoRow
              /\ outbox[m] # NoRow =>
                   /\ Tidied[m] \in MailRows /\ Tidied[m].to = outbox[m].to
                   /\ Tidied[m].state = "sent" => outbox[m].state = "sent"
<1>1. \A m \in Mails : outbox[m] # NoRow => outbox[m] \in MailRows
  BY DEF OutboxTypeOK
<1> QED
  BY <1>1, TidiedOf DEF Tidied

(* What a worker may do to itself.                                         *)
LEMMA MailerKinds ==
  ASSUME OutboxTypeOK, NEW w \in MailWorkers
  PROVE  /\ mailer[w] = AtRest
            \/ mailer[w] \in [at : {"capture"}, list : SUBSET Mails]
            \/ mailer[w] \in [at : {"claimed", "sending", "accepted", "refused"}, mail : Mails,
                              checked : Receivers]
         /\ mailer[w].at \in {"claimed", "sending", "accepted", "refused"} =>
              mailer[w] \in [at : {"claimed", "sending", "accepted", "refused"}, mail : Mails,
                             checked : Receivers]
         /\ mailer[w].at = "capture" => mailer[w].list \subseteq Mails
BY DEF OutboxTypeOK, Mailers, AtRest

LEMMA NextMailer ==
  ASSUME OutboxTypeOK, NEW w \in MailWorkers, NEW x \in Mailers,
         mailer' = [mailer EXCEPT ![w] = x]
  PROVE  /\ mailer' \in [MailWorkers -> Mailers] /\ mailer'[w] = x
         /\ \A v \in MailWorkers \ {w} : mailer'[v] = mailer[v]
BY DEF OutboxTypeOK

(* Whoever does not move knows what it knew.                               *)
KnowsOf(x) ==
  /\ x.at = "capture" => x.list \subseteq {s \in notices : sale[s].state # "none"}
  /\ x.at \in {"claimed", "sending", "accepted", "refused"} => outbox[x.mail] # NoRow
  /\ x.at \in {"sending", "accepted", "refused"} /\ x.mail \in notices =>
       x.checked = outbox[x.mail].to
  /\ x.at = "accepted" => handed[x.mail] # {}


LEMMA InitOutboxInv == OutboxInit => OutboxInv
<1> USE OutboxAssumption
<1> SUFFICES ASSUME OutboxInit PROVE OutboxInv
  OBVIOUS
<1>1. OutboxTypeOK
  BY DEF OutboxInit, OutboxTypeOK, SaleRows, Receivers, Mailers, AtRest
<1> QED
  BY <1>1 DEF OutboxInit, OutboxInv, SalesKnow, RowsAddressed, MailersKnow, HandedInv, SentInv, AtRest

LEMMA MailersKnowIt ==
  ASSUME OutboxInv, NEW w \in MailWorkers PROVE KnowsOf(mailer[w]) /\ mailer[w] \in Mailers
BY DEF OutboxInv, OutboxTypeOK, MailersKnow, KnowsOf

(* A step that sells nothing and hands over nothing keeps the invariant,   *)
(* if rows keep their addressee and each worker knows what it relies on.   *)
LEMMA QuietRequest ==
  ASSUME OutboxInv, NoticesKept, UNCHANGED <<notices, bound, sale, handed>>,
         usable' \in BOOLEAN, mailer' \in [MailWorkers -> Mailers],
         \A w \in MailWorkers : KnowsOf(mailer'[w])
  PROVE  OutboxInv'
<1> USE OutboxAssumption
<1>1. OutboxTypeOK'
  BY DEF OutboxInv, OutboxTypeOK, NoticesKept
<1>2. SalesKnow' /\ HandedInv'
  BY DEF OutboxInv, SalesKnow, HandedInv
<1>3. RowsAddressed'
  BY DEF OutboxInv, RowsAddressed, NoticesKept
<1>4. MailersKnow'
  <2> SUFFICES ASSUME NEW w \in MailWorkers
               PROVE  /\ mailer'[w].at = "capture" =>
                           mailer'[w].list \subseteq {n \in notices' : sale'[n].state # "none"}
                      /\ mailer'[w].at \in {"claimed", "sending", "accepted", "refused"} =>
                           outbox'[mailer'[w].mail] # NoRow
                      /\ mailer'[w].at \in {"sending", "accepted", "refused"}
                         /\ mailer'[w].mail \in notices' =>
                           mailer'[w].checked = outbox'[mailer'[w].mail].to
                      /\ mailer'[w].at = "accepted" => handed'[mailer'[w].mail] # {}
    BY DEF MailersKnow
  <2>1. KnowsOf(mailer'[w]) /\ mailer'[w] \in Mailers
    OBVIOUS
  <2>2. mailer'[w].at \in {"claimed", "sending", "accepted", "refused"} => mailer'[w].mail \in Mails
    BY <2>1 DEF Mailers, AtRest
  <2> QED
    BY <2>1, <2>2 DEF KnowsOf, NoticesKept
<1>5. SentInv'
  BY DEF OutboxInv, SentInv, NoticesKept
<1> QED
  BY <1>1, <1>2, <1>3, <1>4, <1>5 DEF OutboxInv

(* Steps that leave the workers where they are.                            *)
LEMMA RowStep ==
  ASSUME OutboxInv, NoticesKept, UNCHANGED <<notices, bound, usable, sale, handed, mailer>>
  PROVE  OutboxInv'
BY QuietRequest, MailersKnowIt DEF OutboxInv, OutboxTypeOK

LEMMA WorkerStep ==
  ASSUME OutboxInv, NoticesKept, UNCHANGED <<notices, bound, usable, sale, handed>>,
         NEW w \in MailWorkers, NEW x \in Mailers, mailer' = [mailer EXCEPT ![w] = x], KnowsOf(x)
  PROVE  OutboxInv'
<1>1. \A v \in MailWorkers : KnowsOf(mailer'[v])
  BY MailersKnowIt, NextMailer DEF OutboxInv
<1> QED
  BY <1>1, QuietRequest, NextMailer DEF OutboxInv, OutboxTypeOK

LEMMA RestKnows == KnowsOf(AtRest) /\ AtRest \in Mailers
BY DEF KnowsOf, AtRest, Mailers
-----------------------------------------------------------------------------
LEMMA RebindInv == ASSUME OutboxInv, NEW x \in Receivers, Rebind(x) PROVE OutboxInv'
<1>1. /\ bound' = x /\ UNCHANGED <<notices, usable, outbox, mailer, handed>>
      /\ sale' \in [Mails -> SaleRows]
      /\ \A m \in Mails : /\ sale'[m].state = sale[m].state
                          /\ sale'[m].owner = sale[m].owner
                          /\ sale'[m].settled <=> sale[m].state = "none"
  BY DEF Rebind, OutboxInv, OutboxTypeOK, SaleRows
<1>2. OutboxTypeOK'
  BY <1>1 DEF OutboxInv, OutboxTypeOK
<1>3. SalesKnow'
  BY <1>1 DEF SalesKnow
<1>4. RowsAddressed' /\ SentInv'
  BY <1>1 DEF OutboxInv, RowsAddressed, SentInv
<1>5. MailersKnow'
  BY <1>1 DEF OutboxInv, OutboxTypeOK, MailersKnow
<1>6. HandedInv'
  BY <1>1 DEF OutboxInv, OutboxTypeOK, HandedInv
<1> QED
  BY <1>2, <1>3, <1>4, <1>5, <1>6 DEF OutboxInv

LEMMA SaleHappensInv == ASSUME OutboxInv, NEW s \in Mails, SaleHappens(s) PROVE OutboxInv'
<1>1. /\ UNCHANGED <<notices, bound, usable, outbox, mailer, handed>>
      /\ s \in notices /\ sale[s].state = "none"
      /\ sale' \in [Mails -> SaleRows]
      /\ sale'[s].state = "open" /\ sale'[s].owner = bound
      /\ \A m \in Mails \ {s} : sale'[m] = sale[m]
  BY DEF SaleHappens, MemberVars, OutboxInv, OutboxTypeOK, SaleRows
<1>2. OutboxTypeOK'
  BY <1>1 DEF OutboxInv, OutboxTypeOK
<1>3. SalesKnow'
  BY <1>1 DEF OutboxInv, SalesKnow
<1>4. outbox[s] = NoRow /\ handed[s] = {}
  BY <1>1 DEF OutboxInv, RowsAddressed
<1>5. RowsAddressed' /\ SentInv'
  BY <1>1, <1>4 DEF OutboxInv, RowsAddressed, SentInv
<1>6. MailersKnow'
  BY <1>1 DEF OutboxInv, OutboxTypeOK, MailersKnow
<1>7. HandedInv'
  BY <1>1, <1>4 DEF OutboxInv, OutboxTypeOK, HandedInv
<1> QED
  BY <1>2, <1>3, <1>5, <1>6, <1>7 DEF OutboxInv

(* A row that is written where there was none.                             *)
LEMMA NewRowInv ==
  ASSUME OutboxInv, NEW m \in Mails, NEW x \in Receivers, outbox[m] = NoRow,
         outbox' = [outbox EXCEPT ![m] = NewMail(x)],
         m \in notices => sale[m].state # "none" /\ x = sale[m].owner
  PROVE  /\ outbox' \in [Mails -> MailRows \union {NoRow}]
         /\ \A n \in Mails : n \in notices /\ outbox'[n] # NoRow =>
              sale[n].state # "none" /\ outbox'[n].to = sale[n].owner
         /\ \A n \in Mails : handed[n] # {} => outbox'[n] # NoRow
         /\ \A n \in Mails : outbox[n] # NoRow => outbox'[n] = outbox[n]
         /\ \A n \in Mails : outbox'[n] # NoRow /\ outbox'[n].state = "sent" => handed[n] # {}
<1>1. outbox'[m] = NewMail(x) /\ \A n \in Mails \ {m} : outbox'[n] = outbox[n]
  BY DEF OutboxInv, OutboxTypeOK
<1>2. NewMail(x) \in MailRows /\ NewMail(x).to = x /\ NewMail(x).state = "pending" /\ NewMail(x) # NoRow
  BY NewMailIsRow, RowIsRow
<1> QED
  BY <1>1, <1>2 DEF OutboxInv, OutboxTypeOK, RowsAddressed, SentInv

LEMMA WriteLetterInv == ASSUME OutboxInv, NEW l \in Mails, WriteLetter(l) PROVE OutboxInv'
<1>1. /\ UNCHANGED <<notices, bound, usable, sale, mailer, handed>>
      /\ l \notin notices /\ outbox[l] = NoRow
      /\ outbox' = [outbox EXCEPT ![l] = NewMail(NoInbox)]
      /\ NoInbox \in Receivers
  BY DEF WriteLetter, MemberVars, Receivers
<1>2. /\ outbox' \in [Mails -> MailRows \union {NoRow}]
      /\ \A n \in Mails : n \in notices /\ outbox'[n] # NoRow =>
              sale[n].state # "none" /\ outbox'[n].to = sale[n].owner
      /\ \A n \in Mails : handed[n] # {} => outbox'[n] # NoRow
      /\ \A n \in Mails : outbox[n] # NoRow => outbox'[n] = outbox[n]
      /\ \A n \in Mails : outbox'[n] # NoRow /\ outbox'[n].state = "sent" => handed[n] # {}
  BY <1>1, NewRowInv
<1>3. OutboxTypeOK'
  BY <1>1, <1>2 DEF OutboxInv, OutboxTypeOK
<1>4. SalesKnow' /\ HandedInv' /\ RowsAddressed' /\ SentInv'
  BY <1>1, <1>2 DEF OutboxInv, SalesKnow, HandedInv, RowsAddressed, SentInv
<1>5. MailersKnow'
  BY <1>1, <1>2, MailerKinds DEF OutboxInv, MailersKnow
<1> QED
  BY <1>3, <1>4, <1>5 DEF OutboxInv

LEMMA RowStepsInv ==
  ASSUME OutboxInv, NEW m \in Mails,
         RetryMail(m) \/ LetterExpires(m) \/ LeaseLapses(m) \/ MailFallsDue(m)
  PROVE  OutboxInv'
<1>1. outbox[m] # NoRow /\ UNCHANGED <<notices, bound, usable, sale, mailer, handed>>
  BY DEF RetryMail, LetterExpires, LeaseLapses, MailFallsDue, LapseOf, MemberVars
<1>2. outbox[m] \in MailRows
  BY <1>1 DEF OutboxInv, OutboxTypeOK
<1>3. CASE RetryMail(m)
  <2> DEFINE r == RetriedRow(outbox[m])
  <2>1. outbox' = [outbox EXCEPT ![m] = r] /\ outbox[m].round < MaxRounds
    BY <1>3 DEF RetryMail
  <2>2. r \in MailRows /\ r.to = outbox[m].to /\ r.state = "pending"
    <3>1. outbox[m].round + 1 \in 0 .. MaxRounds /\ 0 \in 0 .. MaxTries
      BY <1>2, <2>1, OutboxAssumption DEF MailRows
    <3> QED
      BY <1>2, <3>1 DEF MailRows, RetriedRow
  <2>3. NoticesKept
    BY <1>1, <2>1, <2>2, OneRow DEF OutboxInv
  <2> QED
    BY <1>1, <2>3, RowStep
<1>4. CASE LetterExpires(m)
  <2> DEFINE r == [outbox[m] EXCEPT !.over = TRUE]
  <2>1. outbox' = [outbox EXCEPT ![m] = r]
    BY <1>4 DEF LetterExpires, LapseOf
  <2>2. r \in MailRows /\ r.to = outbox[m].to /\ r.state = outbox[m].state
    BY <1>2 DEF MailRows
  <2>3. NoticesKept
    BY <1>1, <2>1, <2>2, OneRow DEF OutboxInv
  <2> QED
    BY <1>1, <2>3, RowStep
<1>5. CASE LeaseLapses(m)
  <2> DEFINE r == [outbox[m] EXCEPT !.lapsed = TRUE]
  <2>1. outbox' = [outbox EXCEPT ![m] = r]
    BY <1>5 DEF LeaseLapses, LapseOf
  <2>2. r \in MailRows /\ r.to = outbox[m].to /\ r.state = outbox[m].state
    BY <1>2 DEF MailRows
  <2>3. NoticesKept
    BY <1>1, <2>1, <2>2, OneRow DEF OutboxInv
  <2> QED
    BY <1>1, <2>3, RowStep
<1>6. CASE MailFallsDue(m)
  <2> DEFINE r == [outbox[m] EXCEPT !.due = TRUE]
  <2>1. outbox' = [outbox EXCEPT ![m] = r]
    BY <1>6 DEF MailFallsDue, LapseOf
  <2>2. r \in MailRows /\ r.to = outbox[m].to /\ r.state = outbox[m].state
    BY <1>2 DEF MailRows
  <2>3. NoticesKept
    BY <1>1, <2>1, <2>2, OneRow DEF OutboxInv
  <2> QED
    BY <1>1, <2>3, RowStep
<1> QED
  BY <1>3, <1>4, <1>5, <1>6

LEMMA ListSalesInv == ASSUME OutboxInv, NEW w \in MailWorkers, ListSales(w) PROVE OutboxInv'
<1> DEFINE list == {s \in notices : sale[s].state = "open"}
           x == [at |-> "capture", list |-> list]
<1>1. /\ UNCHANGED <<notices, bound, usable, sale, outbox, handed>>
      /\ mailer' = [mailer EXCEPT ![w] = x]
  BY DEF ListSales, MemberVars
<1>2. x \in Mailers
  BY DEF Mailers, OutboxInv, OutboxTypeOK
<1>3. KnowsOf(x)
  BY DEF KnowsOf
<1> QED
  BY <1>1, <1>2, <1>3, SameNotices, WorkerStep DEF OutboxInv

LEMMA FindsNoMailInv == ASSUME OutboxInv, NEW w \in MailWorkers, FindsNoMail(w) PROVE OutboxInv'
<1>1. outbox' = Tidied /\ UNCHANGED <<notices, bound, usable, sale, mailer, handed>>
  BY DEF FindsNoMail, MemberVars
<1>2. NoticesKept
  BY <1>1, TidiedRows, RowIsRow DEF NoticesKept, OutboxInv
<1> QED
  BY <1>1, <1>2, RowStep

LEMMA ClaimMailInv ==
  ASSUME OutboxInv, NEW w \in MailWorkers, NEW m \in Mails, ClaimMail(w, m) PROVE OutboxInv'
<1> DEFINE x == [at |-> "claimed", mail |-> m, checked |-> NoInbox]
           r == ClaimedRow(Tidied[m], w)
<1>1. /\ UNCHANGED <<notices, bound, usable, sale, handed>>
      /\ mailer' = [mailer EXCEPT ![w] = x]
      /\ outbox' = [Tidied EXCEPT ![m] = r]
      /\ Tidied[m] # NoRow /\ Tidied[m].tries < MaxTries
  <2>1. Tidied \in [Mails -> MailRows \union {NoRow}]
    BY TidiedRows DEF OutboxInv
  <2>2. outbox' = [Tidied EXCEPT ![m] = r]
    BY DEF ClaimMail
  <2> QED
    BY <2>1, <2>2 DEF ClaimMail, MemberVars, IsDue
<1>2. outbox[m] # NoRow /\ Tidied[m] \in MailRows /\ Tidied[m].to = outbox[m].to
  BY <1>1, TidiedRows DEF OutboxInv
<1>3. r \in MailRows /\ r.to = outbox[m].to /\ r.state = "sending"
  <2>1. Tidied[m].tries + 1 \in 0 .. MaxTries
    BY <1>1, <1>2, OutboxAssumption DEF MailRows
  <2> QED
    BY <1>2, <2>1 DEF MailRows, ClaimedRow
<1>4. NoticesKept
  BY <1>1, <1>2, <1>3, TidiedRows, RowIsRow DEF NoticesKept, OutboxInv
<1>5. x \in Mailers /\ KnowsOf(x)
  BY <1>2 DEF Mailers, KnowsOf, Receivers
<1> QED
  BY <1>1, <1>4, <1>5, WorkerStep

LEMMA ReadClaimedInv == ASSUME OutboxInv, NEW w \in MailWorkers, ReadClaimed(w) PROVE OutboxInv'
<1> DEFINE m == mailer[w].mail
           x == [at |-> "sending", mail |-> m, checked |-> IF m \in notices THEN bound ELSE NoInbox]
<1>1. UNCHANGED <<notices, bound, usable, sale, handed>> /\ mailer[w].at = "claimed"
  BY DEF ReadClaimed, MemberVars
<1>2. m \in Mails /\ outbox[m] # NoRow /\ outbox[m] \in MailRows
  <2>1. m \in Mails /\ outbox[m] # NoRow
    BY <1>1, MailerKinds DEF OutboxInv, MailersKnow
  <2> QED
    BY <2>1 DEF OutboxInv, OutboxTypeOK
<1>3. CASE HoldsLease(w) /\ MayReceive(m)
  <2>1. mailer' = [mailer EXCEPT ![w] = x] /\ outbox' = outbox
    BY <1>3 DEF ReadClaimed
  <2>2. x \in Mailers
    BY <1>2 DEF Mailers, Receivers, OutboxInv, OutboxTypeOK
  <2>3. KnowsOf(x)
    BY <1>2, <1>3 DEF KnowsOf, MayReceive
  <2> QED
    BY <1>1, <2>1, <2>2, <2>3, SameNotices, WorkerStep DEF OutboxInv
<1>4. CASE ~(HoldsLease(w) /\ MayReceive(m))
  <2>1. mailer' = [mailer EXCEPT ![w] = AtRest]
    BY <1>4 DEF ReadClaimed
  <2>2. NoticesKept
    <3>1. CASE HoldsLease(w)
      <4>1. outbox' = [outbox EXCEPT ![m] = ClosedAs(outbox[m], "cancelled")]
        BY <1>4, <3>1 DEF ReadClaimed
      <4>2. /\ ClosedAs(outbox[m], "cancelled") \in MailRows
            /\ ClosedAs(outbox[m], "cancelled").to = outbox[m].to
            /\ ClosedAs(outbox[m], "cancelled").state = "cancelled"
        BY <1>2, ClosedRow
      <4> QED
        BY <1>2, <4>1, <4>2, OneRow DEF OutboxInv
    <3>2. CASE ~HoldsLease(w)
      BY <1>4, <3>2, SameNotices DEF ReadClaimed, OutboxInv
    <3> QED
      BY <3>1, <3>2
  <2> QED
    BY <1>1, <2>1, <2>2, RestKnows, WorkerStep
<1> QED
  BY <1>3, <1>4

LEMMA MarkMailInv == ASSUME OutboxInv, NEW w \in MailWorkers, MarkMail(w) PROVE OutboxInv'
<1> DEFINE m == mailer[w].mail
<1>1. /\ UNCHANGED <<notices, bound, usable, sale, handed>>
      /\ mailer' = [mailer EXCEPT ![w] = AtRest] /\ mailer[w].at \in {"accepted", "refused"}
  BY DEF MarkMail, MemberVars
<1>2. /\ m \in Mails /\ outbox[m] # NoRow /\ outbox[m] \in MailRows
      /\ mailer[w].at = "accepted" => handed[m] # {}
  <2>1. m \in Mails /\ outbox[m] # NoRow /\ (mailer[w].at = "accepted" => handed[m] # {})
    BY <1>1, MailerKinds DEF OutboxInv, MailersKnow
  <2> QED
    BY <2>1 DEF OutboxInv, OutboxTypeOK
<1>3. NoticesKept
  <2>1. CASE ~HoldsLease(w)
    BY <2>1, SameNotices DEF MarkMail, OutboxInv
  <2>2. CASE HoldsLease(w) /\ mailer[w].at = "accepted"
    <3>1. outbox' = [outbox EXCEPT ![m] = ClosedAs(outbox[m], "sent")]
      BY <2>2 DEF MarkMail
    <3>2. /\ ClosedAs(outbox[m], "sent") \in MailRows
          /\ ClosedAs(outbox[m], "sent").to = outbox[m].to
      BY <1>2, ClosedRow
    <3> QED
      BY <1>2, <2>2, <3>1, <3>2, OneRow DEF OutboxInv
  <2>3. CASE HoldsLease(w) /\ mailer[w].at # "accepted"
    <3>1. outbox' = [outbox EXCEPT ![m] = AfterFailure(outbox[m])]
      BY <2>3 DEF MarkMail
    <3>2. /\ AfterFailure(outbox[m]) \in MailRows /\ AfterFailure(outbox[m]).to = outbox[m].to
          /\ AfterFailure(outbox[m]).state # "sent"
      <4>1. /\ ClosedAs(outbox[m], "failed") \in MailRows /\ ClosedAs(outbox[m], "failed").to = outbox[m].to
            /\ ClosedAs(outbox[m], "failed").state = "failed"
            /\ ClosedAs(outbox[m], "retry") \in MailRows /\ ClosedAs(outbox[m], "retry").to = outbox[m].to
            /\ ClosedAs(outbox[m], "retry").state = "retry"
        BY <1>2, ClosedRow
      <4>2. LET r == [ClosedAs(outbox[m], "retry") EXCEPT !.due = FALSE]
            IN  r \in MailRows /\ r.to = outbox[m].to /\ r.state = "retry"
        BY <4>1 DEF MailRows
      <4> QED
        BY <4>1, <4>2 DEF AfterFailure
    <3> QED
      BY <1>2, <3>1, <3>2, OneRow DEF OutboxInv
  <2> QED
    BY <2>1, <2>2, <2>3
<1> QED
  BY <1>1, <1>3, RestKnows, WorkerStep

LEMMA CaptureSaleInv ==
  ASSUME OutboxInv, NEW w \in MailWorkers, NEW s \in notices, CaptureSale(w, s) PROVE OutboxInv'
<1> DEFINE to == EntitledInbox(s)
           rest == mailer[w].list \ {s}
           x == IF rest = {} THEN AtRest ELSE [at |-> "capture", list |-> rest]
<1>1. /\ UNCHANGED <<notices, bound, usable, handed>>
      /\ mailer[w].at = "capture" /\ s \in mailer[w].list /\ s \in Mails
      /\ mailer' = [mailer EXCEPT ![w] = x]
  BY DEF CaptureSale, MemberVars, OutboxInv, OutboxTypeOK
<1>2. /\ sale' \in [Mails -> SaleRows]
      /\ \A m \in Mails : /\ sale'[m].owner = sale[m].owner /\ sale'[m].settled = sale[m].settled
                          /\ sale'[m].state = "none" <=> sale[m].state = "none"
  <2>1. CASE sale[s].state # "open"
    BY <2>1 DEF CaptureSale, OutboxInv, OutboxTypeOK
  <2>2. CASE sale[s].state = "open"
    <3>1. \E state \in {"skipped", "queued"} : sale' = [sale EXCEPT ![s].state = state]
      BY <2>2 DEF CaptureSale
    <3> QED
      BY <1>1, <2>2, <3>1 DEF OutboxInv, OutboxTypeOK, SaleRows
  <2> QED
    BY <2>1, <2>2
<1>3. sale[s].state # "none" /\ (to # NoInbox => to = sale[s].owner) /\ to \in Receivers
  <2>1. sale[s].state # "none"
    BY <1>1 DEF OutboxInv, MailersKnow
  <2> QED
    BY <1>1, <2>1 DEF EntitledInbox, OutboxInv, SalesKnow, OutboxTypeOK, Receivers
<1>4. /\ outbox' \in [Mails -> MailRows \union {NoRow}]
      /\ \A n \in Mails : n \in notices /\ outbox'[n] # NoRow =>
              sale[n].state # "none" /\ outbox'[n].to = sale[n].owner
      /\ \A n \in Mails : handed[n] # {} => outbox'[n] # NoRow
      /\ \A n \in Mails : outbox[n] # NoRow => outbox'[n] = outbox[n]
      /\ \A n \in Mails : outbox'[n] # NoRow /\ outbox'[n].state = "sent" => handed[n] # {}
  <2>1. CASE to # NoInbox /\ outbox[s] = NoRow
    <3>1. outbox' = [outbox EXCEPT ![s] = NewMail(to)]
      BY <2>1 DEF CaptureSale
    <3> QED
      BY <1>1, <1>3, <2>1, <3>1, NewRowInv
  <2>2. CASE ~(to # NoInbox /\ outbox[s] = NoRow)
    <3>1. outbox' = outbox
      BY <2>2 DEF CaptureSale
    <3> QED
      BY <3>1 DEF OutboxInv, OutboxTypeOK, RowsAddressed, SentInv
  <2> QED
    BY <2>1, <2>2
<1>5. x \in Mailers /\ KnowsOf(x)
  <2>1. mailer[w].list \subseteq {n \in notices : sale[n].state # "none"} /\ mailer[w].list \subseteq Mails
    BY <1>1, MailerKinds DEF OutboxInv, MailersKnow
  <2>2. CASE rest = {}
    BY <2>2, RestKnows
  <2>3. CASE rest # {}
    BY <2>1, <2>3 DEF Mailers, KnowsOf
  <2> QED
    BY <2>2, <2>3
<1>6. mailer' \in [MailWorkers -> Mailers] /\ \A v \in MailWorkers : KnowsOf(mailer'[v])
  BY <1>1, <1>5, MailersKnowIt, NextMailer DEF OutboxInv
<1>7. OutboxTypeOK'
  BY <1>1, <1>2, <1>4, <1>6 DEF OutboxInv, OutboxTypeOK
<1>8. SalesKnow' /\ HandedInv'
  BY <1>1, <1>2 DEF OutboxInv, OutboxTypeOK, SalesKnow, HandedInv
<1>9. RowsAddressed' /\ SentInv'
  BY <1>1, <1>2, <1>4 DEF RowsAddressed, SentInv
<1>10. MailersKnow'
  <2> SUFFICES ASSUME NEW v \in MailWorkers
               PROVE  /\ mailer'[v].at = "capture" =>
                           mailer'[v].list \subseteq {n \in notices' : sale'[n].state # "none"}
                      /\ mailer'[v].at \in {"claimed", "sending", "accepted", "refused"} =>
                           outbox'[mailer'[v].mail] # NoRow
                      /\ mailer'[v].at \in {"sending", "accepted", "refused"}
                         /\ mailer'[v].mail \in notices' =>
                           mailer'[v].checked = outbox'[mailer'[v].mail].to
                      /\ mailer'[v].at = "accepted" => handed'[mailer'[v].mail] # {}
    BY DEF MailersKnow
  <2>1. KnowsOf(mailer'[v]) /\ mailer'[v] \in Mailers
    BY <1>6
  <2>2. mailer'[v].at \in {"claimed", "sending", "accepted", "refused"} => mailer'[v].mail \in Mails
    BY <2>1 DEF Mailers, AtRest
  <2>3. notices \subseteq Mails
    BY DEF OutboxInv, OutboxTypeOK
  <2> QED
    BY <1>1, <1>2, <1>4, <2>1, <2>2, <2>3 DEF KnowsOf
<1> QED
  BY <1>7, <1>8, <1>9, <1>10 DEF OutboxInv

LEMMA HandOverInv ==
  ASSUME OutboxInv, NEW w \in MailWorkers, NEW accepted \in BOOLEAN, NEW answered \in BOOLEAN,
         HandOver(w, accepted, answered)
  PROVE  OutboxInv'
<1> DEFINE m == mailer[w].mail
           h == [to |-> outbox[m].to, checked |-> mailer[w].checked]
           at == IF answered THEN "accepted" ELSE "refused"
<1>1. /\ UNCHANGED <<notices, bound, usable, sale, outbox>>
      /\ mailer[w].at = "sending" /\ (answered => accepted)
      /\ mailer' = [mailer EXCEPT ![w].at = at]
  BY DEF HandOver, MemberVars
<1>2. /\ m \in Mails /\ outbox[m] # NoRow /\ outbox[m] \in MailRows
      /\ mailer[w].checked \in Receivers /\ (m \in notices => mailer[w].checked = outbox[m].to)
  <2>1. /\ m \in Mails /\ outbox[m] # NoRow
        /\ mailer[w].checked \in Receivers /\ (m \in notices => mailer[w].checked = outbox[m].to)
    BY <1>1, MailerKinds DEF OutboxInv, MailersKnow
  <2> QED
    BY <2>1 DEF OutboxInv, OutboxTypeOK
<1>3. h \in [to : Receivers, checked : Receivers]
  BY <1>2 DEF MailRows
<1>4. /\ handed' \in [Mails -> SUBSET [to : Receivers, checked : Receivers]]
      /\ handed'[m] \subseteq handed[m] \union {h} /\ handed[m] \subseteq handed'[m]
      /\ accepted => handed'[m] # {}
      /\ \A n \in Mails \ {m} : handed'[n] = handed[n]
  <2>1. CASE accepted
    <3>1. handed' = [handed EXCEPT ![m] = handed[m] \union {h}]
      BY <2>1 DEF HandOver
    <3> QED
      BY <1>2, <1>3, <3>1 DEF OutboxInv, OutboxTypeOK
  <2>2. CASE ~accepted
    <3>1. handed' = handed
      BY <2>2 DEF HandOver
    <3> QED
      BY <1>2, <2>2, <3>1 DEF OutboxInv, OutboxTypeOK
  <2> QED
    BY <2>1, <2>2
<1>5. /\ mailer' \in [MailWorkers -> Mailers] /\ mailer'[w].at = at
      /\ mailer'[w].mail = m /\ mailer'[w].checked = mailer[w].checked
      /\ \A v \in MailWorkers \ {w} : mailer'[v] = mailer[v]
  <2>1. mailer[w] \in [at : {"claimed", "sending", "accepted", "refused"}, mail : Mails,
                       checked : Receivers]
    BY <1>1, MailerKinds DEF OutboxInv
  <2>2. LET x == [mailer[w] EXCEPT !.at = at]
        IN  x \in Mailers /\ x.at = at /\ x.mail = m /\ x.checked = mailer[w].checked
    BY <2>1 DEF Mailers
  <2>3. mailer' = [mailer EXCEPT ![w] = [mailer[w] EXCEPT !.at = at]]
    BY <1>1
  <2> QED
    BY <2>2, <2>3, NextMailer DEF OutboxInv
<1>6. OutboxTypeOK'
  BY <1>1, <1>4, <1>5 DEF OutboxInv, OutboxTypeOK
<1>7. SalesKnow' /\ SentInv'
  BY <1>1, <1>4 DEF OutboxInv, SalesKnow, SentInv
<1>8. RowsAddressed'
  BY <1>1, <1>2, <1>4 DEF OutboxInv, RowsAddressed
<1>9. HandedInv'
  <2>1. m \in notices => h.to = sale[m].owner /\ h.to = h.checked
    BY <1>2 DEF OutboxInv, RowsAddressed
  <2> QED
    BY <1>1, <1>4, <2>1 DEF OutboxInv, OutboxTypeOK, HandedInv
<1>10. MailersKnow'
  <2>1. at \in {"accepted", "refused"} /\ (at = "accepted" => handed'[m] # {})
    BY <1>1, <1>4
  <2>2. \A v \in MailWorkers : mailer[v].at = "accepted" => mailer[v].mail \in Mails
    BY MailerKinds DEF OutboxInv
  <2>3. \A n \in Mails : handed[n] # {} => handed'[n] # {}
    BY <1>4
  <2> QED
    BY <1>1, <1>2, <1>5, <2>1, <2>2, <2>3 DEF OutboxInv, MailersKnow
<1> QED
  BY <1>6, <1>7, <1>8, <1>9, <1>10 DEF OutboxInv

(* The invariant of the outbox: rows are addressed to the owner of their   *)
(* sale, and what a worker has read of its mail stays true however late it *)
(* comes, since a row's addressee never changes (email_delivery.go).       *)
THEOREM OutboxSafe == OutboxSpec => []OutboxInv
<1>1. OutboxInv /\ [OutboxNext]_OutboxVars => OutboxInv'
  <2> SUFFICES ASSUME OutboxInv, [OutboxNext]_OutboxVars PROVE OutboxInv'
    OBVIOUS
  <2>1. CASE UNCHANGED OutboxVars
    BY <2>1, SameNotices, RowStep DEF OutboxVars, OutboxInv
  <2>2. ASSUME NEW x \in Receivers, Rebind(x) PROVE OutboxInv'
    BY <2>2, RebindInv
  <2>3. CASE ChangeMember
    <3>1. usable' \in BOOLEAN /\ UNCHANGED <<notices, bound, sale, outbox, mailer, handed>>
      BY <2>3 DEF ChangeMember
    <3> QED
      BY <3>1, SameNotices, MailersKnowIt, QuietRequest DEF OutboxInv, OutboxTypeOK
  <2>4. ASSUME NEW m \in Mails,
               \/ SaleHappens(m) \/ WriteLetter(m) \/ RetryMail(m)
               \/ LetterExpires(m) \/ LeaseLapses(m) \/ MailFallsDue(m)
        PROVE  OutboxInv'
    BY <2>4, SaleHappensInv, WriteLetterInv, RowStepsInv
  <2>5. ASSUME NEW w \in MailWorkers,
               \/ ListSales(w) \/ \E s \in notices : CaptureSale(w, s)
               \/ FindsNoMail(w) \/ \E m \in Mails : ClaimMail(w, m)
               \/ ReadClaimed(w) \/ MarkMail(w)
               \/ \E accepted, answered \in BOOLEAN : HandOver(w, accepted, answered)
        PROVE  OutboxInv'
    BY <2>5, ListSalesInv, CaptureSaleInv, FindsNoMailInv, ClaimMailInv, ReadClaimedInv,
       MarkMailInv, HandOverInv
  <2>6. ASSUME NEW w \in MailWorkers, MailerDies(w) PROVE OutboxInv'
    <3>1. /\ UNCHANGED <<notices, bound, usable, sale, outbox, handed>>
          /\ mailer' = [mailer EXCEPT ![w] = AtRest]
      BY <2>6 DEF MailerDies, MemberVars
    <3> QED
      BY <3>1, SameNotices, RestKnows, WorkerStep DEF OutboxInv
  <2> QED
    BY <2>1, <2>2, <2>3, <2>4, <2>5, <2>6 DEF OutboxNext
<1> QED
  BY <1>1, InitOutboxInv, PTL DEF OutboxSpec

(* A notice of a sale reaches the address its owner had bound, or nobody,  *)
(* and what is called sent was accepted (docs/EMAIL.md, processEmail).     *)
THEOREM MailsAreOwned == OutboxSpec => []MailsReachTheirOwner
<1>1. OutboxInv => MailsReachTheirOwner
  BY DEF OutboxInv, OutboxTypeOK, HandedInv, SentInv, MailsReachTheirOwner
<1> QED
  BY <1>1, OutboxSafe, PTL
=============================================================================
