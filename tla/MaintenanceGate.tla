---------------------------- MODULE MaintenanceGate ----------------------------
(* The fence an installer raises around a panel while it replaces it       *)
(* (maintenance_gate.go).  Nothing is locked: the fence is a file,         *)
(* requests and data workers are counted before they look at it, and       *)
(* /api/health reads the file, the two counters and the two marks of       *)
(* background jobs one after the other while all of them change.           *)
(* maintenanceWorkerGroup runs the data workers in generations.            *)
EXTENDS Integers, FiniteSets

CONSTANTS DataWorkers,  \* dataWorkers: loops on data and on other systems
          GateVisits    \* requests in flight, other than GET /api/health

ASSUME GateAssumption ==
  /\ IsFiniteSet(DataWorkers) /\ DataWorkers # {}
  /\ IsFiniteSet(GateVisits)

VARIABLES fence,        \* deploymentMaintenanceFlag exists
          alive,        \* the process's context is not done
          group,        \* where maintenanceWorkerGroup stands
          crew,         \* the workers of its generation
          skipped,      \* a worker of this generation met the fence
          activeWork,   \* maintenanceActive
          visit,        \* requests
          inFlight,     \* maintenanceRequests
          collecting,   \* publicCancel: a collection of proxies runs
          fetching,     \* importRunning, publicSourceID: the worker, or NoOne
          reading,      \* maintenanceFrozen: what it reads next, or NoOne
          acknowledged  \* /api/health has said background_frozen

GateVars == <<fence, alive, group, crew, skipped, activeWork, visit, inFlight,
              collecting, fetching, reading, acknowledged>>
WorkVars == <<group, crew, skipped, activeWork>>
VisitVars == <<visit, inFlight>>
JobVars == <<collecting, fetching>>
AskVars == <<reading, acknowledged>>
-----------------------------------------------------------------------------
NoOne == "nothing"
GroupStates == {"waiting", "starting", "watching", "pausing", "ending", "ended"}
CrewStates == {"unstarted", "counted", "checking", "working", "returned"}
VisitStates == {"none", "counted", "served"}
Readings == {NoOne, "active", "requests", "collecting", "fetching"}

(* The type invariant of MaintenanceGate.                                  *)
GateTypeOK ==
  /\ fence \in BOOLEAN /\ alive \in BOOLEAN /\ skipped \in BOOLEAN
  /\ group \in GroupStates
  /\ crew \in [DataWorkers -> CrewStates]
  /\ visit \in [GateVisits -> VisitStates]
  /\ activeWork \in Int /\ inFlight \in Int
  /\ collecting \in BOOLEAN
  /\ fetching \in DataWorkers \union {NoOne}
  /\ reading \in Readings /\ acknowledged \in BOOLEAN

Unstarted == [w \in DataWorkers |-> "unstarted"]

(* Run, for one process; the fence outlives it.                            *)
Boots ==
  /\ alive' = TRUE /\ group' = "waiting" /\ crew' = Unstarted /\ skipped' = FALSE
  /\ activeWork' = 0 /\ visit' = [v \in GateVisits |-> "none"] /\ inFlight' = 0
  /\ collecting' = FALSE /\ fetching' = NoOne /\ reading' = NoOne

GateInit ==
  /\ fence \in BOOLEAN /\ acknowledged = FALSE
  /\ alive = TRUE /\ group = "waiting" /\ crew = Unstarted /\ skipped = FALSE
  /\ activeWork = 0 /\ visit = [v \in GateVisits |-> "none"] /\ inFlight = 0
  /\ collecting = FALSE /\ fetching = NoOne /\ reading = NoOne
-----------------------------------------------------------------------------
(* The group.  The workers' context ends with the process's or with cancel. *)
Cancelled == ~alive \/ group \in {"pausing", "ending"}
AllReturned == \A w \in DataWorkers : crew[w] = "returned"

(* The loops at its head: no fence was seen.                               *)
BeginGeneration ==
  /\ group = "waiting" /\ alive /\ ~fence
  /\ group' = "starting" /\ crew' = Unstarted /\ skipped' = FALSE
  /\ UNCHANGED <<fence, alive, activeWork, VisitVars, JobVars, AskVars>>

LeaveGroup ==
  /\ group = "waiting" /\ ~alive
  /\ group' = "ended"
  /\ UNCHANGED <<fence, alive, crew, skipped, activeWork, VisitVars, JobVars, AskVars>>

(* A worker is counted before its goroutine starts.                        *)
Launch(w) ==
  /\ group = "starting" /\ crew[w] = "unstarted"
  /\ crew' = [crew EXCEPT ![w] = "counted"]
  /\ activeWork' = activeWork + 1
  /\ UNCHANGED <<fence, alive, group, skipped, VisitVars, JobVars, AskVars>>

AllLaunched ==
  /\ group = "starting" /\ \A w \in DataWorkers : crew[w] # "unstarted"
  /\ group' = "watching"
  /\ UNCHANGED <<fence, alive, crew, skipped, activeWork, VisitVars, JobVars, AskVars>>

(* The watch: all returned, the ticker met the fence, or the process ends. *)
WatchReturned ==
  /\ group = "watching" /\ AllReturned
  /\ group' = IF fence \/ skipped THEN "pausing" ELSE "ending"
  /\ UNCHANGED <<fence, alive, crew, skipped, activeWork, VisitVars, JobVars, AskVars>>

WatchFenced ==
  /\ group = "watching" /\ fence
  /\ group' = "pausing"
  /\ UNCHANGED <<fence, alive, crew, skipped, activeWork, VisitVars, JobVars, AskVars>>

WatchEnds ==
  /\ group = "watching" /\ ~alive
  /\ group' = "ending"
  /\ UNCHANGED <<fence, alive, crew, skipped, activeWork, VisitVars, JobVars, AskVars>>

(* After cancel() and <-done.                                              *)
EndGeneration ==
  /\ group \in {"pausing", "ending"} /\ AllReturned
  /\ group' = IF group = "pausing" THEN "waiting" ELSE "ended"
  /\ UNCHANGED <<fence, alive, crew, skipped, activeWork, VisitVars, JobVars, AskVars>>
-----------------------------------------------------------------------------
(* One worker.                                                             *)
Return(w) ==
  /\ crew' = [crew EXCEPT ![w] = "returned"]
  /\ activeWork' = activeWork - 1

EnterWork(w) ==
  /\ crew[w] = "counted"
  /\ IF Cancelled THEN Return(w)
     ELSE crew' = [crew EXCEPT ![w] = "checking"] /\ UNCHANGED activeWork
  /\ UNCHANGED <<fence, alive, group, skipped, VisitVars, JobVars, AskVars>>

(* Mutant: a worker does not look at the fence again when it starts.       *)
StartUnchecked(w) ==
  /\ crew[w] = "checking"
  /\ crew' = [crew EXCEPT ![w] = "working"]
  /\ UNCHANGED <<fence, alive, group, skipped, activeWork, VisitVars, JobVars, AskVars>>
CheckFence(w) ==
  /\ crew[w] = "checking"
  /\ IF fence THEN skipped' = TRUE /\ Return(w)
     ELSE /\ crew' = [crew EXCEPT ![w] = "working"]
          /\ UNCHANGED <<skipped, activeWork>>
  /\ UNCHANGED <<fence, alive, group, VisitVars, JobVars, AskVars>>

(* A worker's loop ends with its context; a task runner that fails ends    *)
(* the process (main.go).                                                  *)
StopWork(w) ==
  /\ crew[w] = "working" /\ fetching # w
  /\ Cancelled
  /\ Return(w)
  /\ UNCHANGED <<fence, alive, group, skipped, VisitVars, JobVars, AskVars>>

FailWork(w) ==
  /\ crew[w] = "working" /\ fetching # w
  /\ alive' = FALSE
  /\ Return(w)
  /\ UNCHANGED <<fence, group, skipped, VisitVars, JobVars, AskVars>>
-----------------------------------------------------------------------------
(* Background jobs.  A list is fetched within a task of the runner; a      *)
(* collection outlives the task or the request that began it, and only the *)
(* end of the process cancels it.                                          *)
BeginFetch(w) ==
  /\ crew[w] = "working" /\ fetching = NoOne /\ ~collecting
  /\ fetching' = w
  /\ UNCHANGED <<fence, alive, WorkVars, VisitVars, collecting, AskVars>>

EndFetch ==
  /\ fetching # NoOne
  /\ fetching' = NoOne
  /\ UNCHANGED <<fence, alive, WorkVars, VisitVars, collecting, AskVars>>

(* startPublicCycle.                                                       *)
BeginCollecting ==
  /\ \/ \E w \in DataWorkers : crew[w] = "working"
     \/ \E v \in GateVisits : visit[v] = "served"
  /\ alive /\ ~collecting /\ fetching = NoOne
  /\ collecting' = TRUE
  /\ UNCHANGED <<fence, alive, WorkVars, VisitVars, fetching, AskVars>>

EndCollecting ==
  /\ collecting
  /\ collecting' = FALSE
  /\ UNCHANGED <<fence, alive, WorkVars, VisitVars, fetching, AskVars>>
-----------------------------------------------------------------------------
(* maintenanceHandler: a request is counted, then it looks at the fence.   *)
Arrive(v) ==
  /\ visit[v] = "none"
  /\ visit' = [visit EXCEPT ![v] = "counted"] /\ inFlight' = inFlight + 1
  /\ UNCHANGED <<fence, alive, WorkVars, JobVars, AskVars>>

Leave(v) == visit' = [visit EXCEPT ![v] = "none"] /\ inFlight' = inFlight - 1

Admit(v) ==
  /\ visit[v] = "counted"
  /\ IF fence THEN Leave(v)
     ELSE visit' = [visit EXCEPT ![v] = "served"] /\ UNCHANGED inFlight
  /\ UNCHANGED <<fence, alive, WorkVars, JobVars, AskVars>>

Respond(v) ==
  /\ visit[v] = "served"
  /\ Leave(v)
  /\ UNCHANGED <<fence, alive, WorkVars, JobVars, AskVars>>
-----------------------------------------------------------------------------
(* The installer: it alone raises and lowers the fence                     *)
(* (deploy/maintenance_gate.py), and whoever asks /api/health meanwhile    *)
(* waits for the answer before it asks again or the fence is lowered.      *)
RaiseFence ==
  /\ ~fence
  /\ fence' = TRUE
  /\ UNCHANGED <<alive, WorkVars, VisitVars, JobVars, AskVars>>

LowerFence ==
  /\ fence /\ reading = NoOne
  /\ fence' = FALSE /\ acknowledged' = FALSE
  /\ UNCHANGED <<alive, WorkVars, VisitVars, JobVars, reading>>

(* maintenanceFrozen, one read at a time.                                  *)
AskFrozen ==
  /\ fence /\ reading = NoOne
  /\ reading' = "active"
  /\ UNCHANGED <<fence, alive, WorkVars, VisitVars, JobVars, acknowledged>>

ReadOn(quiet, next) == reading' = IF quiet THEN next ELSE NoOne

ReadActive ==
  /\ reading = "active" /\ ReadOn(activeWork = 0, "requests")
  /\ UNCHANGED <<fence, alive, WorkVars, VisitVars, JobVars, acknowledged>>

ReadRequests ==
  /\ reading = "requests" /\ ReadOn(inFlight = 0, "collecting")
  /\ UNCHANGED <<fence, alive, WorkVars, VisitVars, JobVars, acknowledged>>

ReadCollecting ==
  /\ reading = "collecting" /\ ReadOn(~collecting, "fetching")
  /\ UNCHANGED <<fence, alive, WorkVars, VisitVars, JobVars, acknowledged>>

Acknowledge ==
  /\ reading = "fetching"
  /\ reading' = NoOne
  /\ acknowledged' = (acknowledged \/ fetching = NoOne)
  /\ UNCHANGED <<fence, alive, WorkVars, VisitVars, JobVars>>
-----------------------------------------------------------------------------
(* SIGTERM, a lost controller lease or a listener that fails ends the      *)
(* process's context; it ends, or dies at any moment, and starts again.    *)
StopProcess ==
  /\ alive
  /\ alive' = FALSE
  /\ UNCHANGED <<fence, WorkVars, VisitVars, JobVars, AskVars>>

RestartProcess == Boots /\ UNCHANGED <<fence, acknowledged>>

GateNext ==
  \/ BeginGeneration \/ LeaveGroup \/ AllLaunched
  \/ WatchReturned \/ WatchFenced \/ WatchEnds \/ EndGeneration
  \/ \E w \in DataWorkers :
       Launch(w) \/ EnterWork(w) \/ CheckFence(w) \/ StopWork(w) \/ FailWork(w)
         \/ BeginFetch(w)
  \/ EndFetch \/ BeginCollecting \/ EndCollecting
  \/ \E v \in GateVisits : Arrive(v) \/ Admit(v) \/ Respond(v)
  \/ RaiseFence \/ LowerFence \/ AskFrozen
  \/ ReadActive \/ ReadRequests \/ ReadCollecting \/ Acknowledge
  \/ StopProcess \/ RestartProcess

GateSpec == GateInit /\ [][GateNext]_GateVars
-----------------------------------------------------------------------------
(* OPERATIONS.md:90, maintenance_gate.go:53-54: once the panel has called  *)
(* itself frozen, nothing works on its data until the fence is lowered: no *)
(* worker, no request, no fetch and no collection, whatever began while    *)
(* the answer was put together, and across restarts.                       *)
FrozenIsQuiet ==
  acknowledged =>
    /\ \A w \in DataWorkers : crew[w] # "working"
    /\ \A v \in GateVisits : visit[v] # "served"
    /\ ~collecting /\ fetching = NoOne

(* The group of workers ends only with the process, however a fence that    *)
(* comes and goes meets their dispatch.  (Of single workers it says nothing:  *)
(* one that found the fence up stays out until the next generation, which a   *)
(* fence lowered before the others noticed it does not bring.)                *)
WorkersComeBack == group \in {"ending", "ended"} => ~alive
=============================================================================
