-------------------------------- MODULE Jobs --------------------------------
(***************************************************************************)
(* The durable task queue of one site controller                           *)
(* (backend/internal/jobs/manager.go).  Rows of the tasks table survive a   *)
(* crash; the runner, its worker goroutines and the map of cancel functions *)
(* do not.  Every section the code runs under Manager.mu, and every single  *)
(* SQL statement outside it, is one action; a task therefore can be         *)
(* cancelled, pruned or resubmitted between any two steps of its worker.    *)
(***************************************************************************)
EXTENDS Integers, FiniteSets

CONSTANTS
    TaskIds,        \* random 16-byte ids, each used for at most one row
    Keys,           \* dedup keys kind ":" target
    Slots,          \* worker goroutine slots (Options.Workers)
    Nil,            \* no key, no task, no cancel function
    Capacity,       \* Options.Capacity
    MaxAttempts,    \* a busy task is retried while attempts < MaxAttempts (6)
    MaxCrashes      \* bound on process crashes and shutdowns

ASSUME JobsAssumption ==
    /\ Nil \notin Slots \cup Keys \cup TaskIds
    /\ IsFiniteSet(TaskIds)
    /\ Capacity \in Nat \ {0}
    /\ MaxAttempts \in Nat
    /\ MaxCrashes \in Nat

VARIABLES
    row,      \* the tasks table, by id
    runner,   \* Manager.Run: "stopped", "running", or "stopping" (ctx cancelled)
    failure,  \* an entry waits in Manager.failures
    worker,   \* the goroutine in each slot: pc in execute, task id, attempts, result
    cancels,  \* Manager.cancels: which goroutine a task's cancel function belongs to
    ctxDone,  \* slots whose own context was cancelled or timed out
    second,   \* the logical second of the newest row's created stamp
    crashes   \* crashes and shutdowns so far

vars == <<row, runner, failure, worker, cancels, ctxDone, second, crashes>>

Active   == {"queued", "running"}
Finished == {"succeeded", "failed", "cancelled"}
States   == Active \cup Finished \cup {"none", "pruned"}

\* Blank("none") is an id not drawn yet, Blank("pruned") one whose row was deleted.
Row == [state: States, key: Keys \cup {Nil}, dedup: BOOLEAN, created: Nat, due: BOOLEAN,
        attempts: Nat]

Blank(st) == [state |-> st, key |-> Nil, dedup |-> FALSE, created |-> 0,
              due |-> FALSE, attempts |-> 0]

\* Where execute() stands: claimed (before cancels is written), registered
\* (before the re-read), handling, finalize (before the final UPDATE), leaving
\* (before the deferred delete from cancels).
Holding == {"claimed", "registered", "handling", "finalize"}
PCs     == Holding \cup {"idle", "leaving"}

Worker == [pc: PCs, id: TaskIds \cup {Nil}, key: Keys \cup {Nil}, attempts: Nat,
           result: {"ok", "busy", "error"}]

Idle == [pc |-> "idle", id |-> Nil, key |-> Nil, attempts |-> 0, result |-> "ok"]

ActiveRows == {i \in TaskIds : row[i].state \in Active}
FinishedRows == {i \in TaskIds : row[i].state \in Finished}

-----------------------------------------------------------------------------

Init ==
    /\ row = [i \in TaskIds |-> Blank("none")]
    /\ runner = "stopped"
    /\ failure = FALSE
    /\ worker = [w \in Slots |-> Idle]
    /\ cancels = [i \in TaskIds |-> Nil]
    /\ ctxDone = {}
    /\ second = 0
    /\ crashes = 0

\* Submit: an active row with the same dedup_key is returned instead, and a
\* full queue refuses; both leave everything unchanged.
Submit(k, i, s) ==
    /\ \A j \in TaskIds : ~(row[j].dedup /\ row[j].key = k)
    /\ Cardinality(ActiveRows) < Capacity
    /\ row[i].state = "none"
    /\ row' = [row EXCEPT ![i] = [state |-> "queued", key |-> k, dedup |-> TRUE,
                 created |-> s, due |-> TRUE, attempts |-> 0]]
    /\ second' = s
    /\ UNCHANGED <<runner, failure, worker, cancels, ctxDone, crashes>>

\* A terminal state is written together with finished and dedup_key = NULL.
Close(r, st) == [r EXCEPT !.state = st, !.dedup = FALSE]

\* Mutant of Cancel: the row is closed but the running handler is not told.
CancelRowOnly(i) ==
    /\ row[i].state \in Active
    /\ row' = [row EXCEPT ![i] = Close(row[i], "cancelled")]
    /\ UNCHANGED <<runner, failure, worker, cancels, ctxDone, second, crashes>>

\* Cancel: the row and the cancel function are looked up in one mu section.
Cancel(i) ==
    /\ row[i].state \notin {"none", "pruned"}
    /\ row' = [row EXCEPT ![i] =
          IF row[i].state \in Active THEN Close(row[i], "cancelled") ELSE row[i]]
    /\ ctxDone' = ctxDone \cup ({cancels[i]} \ {Nil})
    /\ UNCHANGED <<runner, failure, worker, cancels, second, crashes>>

\* Mutant of Recovered: a restart leaves running rows as they are.
RecoveredNothing(r) == r

\* Recover: whatever a previous process left running is due again.
Recovered(r) ==
    [i \in TaskIds |-> IF r[i].state = "running"
                         THEN [r[i] EXCEPT !.state = "queued", !.due = TRUE]
                         ELSE r[i]]

RunStart ==
    /\ runner = "stopped"
    /\ runner' = "running"
    /\ failure' = FALSE
    /\ row' = Recovered(row)
    /\ UNCHANGED <<worker, cancels, ctxDone, second, crashes>>

\* claim: the oldest due queued row; rows created in the same second are
\* ordered by their random ids, so any of them may be first.
Claim(w, i) ==
    /\ runner = "running"
    /\ worker[w].pc = "idle"
    /\ row[i].state = "queued" /\ row[i].due
    /\ \A j \in TaskIds : row[j].state = "queued" /\ row[j].due
                             => row[i].created <= row[j].created
    /\ row' = [row EXCEPT ![i].state = "running", ![i].attempts = @ + 1]
    /\ worker' = [worker EXCEPT ![w] = [pc |-> "claimed", id |-> i, key |-> row[i].key,
                    attempts |-> row[i].attempts + 1, result |-> "ok"]]
    /\ UNCHANGED <<runner, failure, cancels, ctxDone, second, crashes>>

\* execute: publish the cancel function ...
Register(w) ==
    /\ worker[w].pc = "claimed"
    /\ cancels' = [cancels EXCEPT ![worker[w].id] = w]
    /\ worker' = [worker EXCEPT ![w].pc = "registered"]
    /\ UNCHANGED <<row, runner, failure, ctxDone, second, crashes>>

\* Mutant of Recheck: the handler starts without the second read.
RecheckSkipped(w) ==
    /\ worker[w].pc = "registered"
    /\ worker' = [worker EXCEPT ![w].pc = "handling"]
    /\ UNCHANGED <<row, runner, failure, cancels, ctxDone, second, crashes>>

\* Mutant of Recheck: a failed read returns before finalization.
RecheckGivesUp(w) ==
    /\ worker[w].pc = "registered"
    /\ worker' = [worker EXCEPT ![w].pc =
          IF row[worker[w].id].state = "running" /\ w \notin ctxDone THEN "handling" ELSE "leaving"]
    /\ UNCHANGED <<row, runner, failure, cancels, ctxDone, second, crashes>>

\* ... then read the row again.  The read fails when the context is already
\* cancelled, the row is gone or the database does not answer; the task must
\* still be finalized.
Recheck(w) ==
    /\ worker[w].pc = "registered"
    /\ \/ /\ row[worker[w].id].state \notin {"running", "pruned"}
          /\ worker' = [worker EXCEPT ![w].pc = "leaving"]
       \/ /\ row[worker[w].id].state = "running"
          /\ worker' = [worker EXCEPT ![w].pc = "handling"]
       \/ worker' = [worker EXCEPT ![w].pc = "finalize", ![w].result = "error"]
    /\ UNCHANGED <<row, runner, failure, cancels, ctxDone, second, crashes>>

\* invoke: the handler returns; a panic is an error.
Handle(w, res) ==
    /\ worker[w].pc = "handling"
    /\ worker' = [worker EXCEPT ![w].pc = "finalize", ![w].result = res]
    /\ UNCHANGED <<row, runner, failure, cancels, ctxDone, second, crashes>>

\* context.WithTimeout fires.
Timeout(w) ==
    /\ worker[w].pc \in {"registered", "handling"}
    /\ ctxDone' = ctxDone \cup {w}
    /\ UNCHANGED <<row, runner, failure, worker, cancels, second, crashes>>

\* Prune: finished rows past the retention window, and all but the newest
\* hundred; how long a finished row lasts is left open.
Pruned(r, gone) == [i \in TaskIds |-> IF i \in gone THEN Blank("pruned") ELSE r[i]]

PruneTick ==
    /\ runner = "running"
    /\ \E gone \in SUBSET FinishedRows : row' = Pruned(row, gone)
    /\ UNCHANGED <<runner, failure, worker, cancels, ctxDone, second, crashes>>

\* The final UPDATE ... WHERE state='running', by the parent context, the
\* handler's error and its own context, in that order; a terminal write is
\* followed by Prune.
Requeued(w, due) ==
    LET i == worker[w].id
    IN  IF row[i].state = "running"
          THEN [row EXCEPT ![i].state = "queued", ![i].due = due]
          ELSE row

\* Mutant of Outcome: a timed-out task gets a state the table does not know.
OutcomeUnknown(w) ==
    IF w \in ctxDone THEN "timeout" ELSE IF worker[w].result = "ok" THEN "succeeded" ELSE "failed"

Outcome(w) == IF worker[w].result = "ok" /\ w \notin ctxDone THEN "succeeded" ELSE "failed"

\* Mutant of Settled: the UPDATE lacks its AND state='running'.
SettledUnguarded(w) ==
    [row EXCEPT ![worker[w].id] = Close(row[worker[w].id], Outcome(w))]

Settled(w) ==
    LET i == worker[w].id
    IN  IF row[i].state = "running"
          THEN [row EXCEPT ![i] = Close(row[i], Outcome(w))]
          ELSE row

Retrying(w) == worker[w].result = "busy" /\ worker[w].attempts < MaxAttempts

Leaves(w) == worker' = [worker EXCEPT ![w].pc = "leaving"]

FinalizeShutdown(w) ==
    /\ worker[w].pc = "finalize" /\ runner = "stopping"
    /\ row' = Requeued(w, TRUE)
    /\ Leaves(w)
    /\ UNCHANGED <<runner, failure, cancels, ctxDone, second, crashes>>

FinalizeBusy(w) ==
    /\ worker[w].pc = "finalize" /\ runner # "stopping" /\ Retrying(w)
    /\ row' = Requeued(w, FALSE)
    /\ Leaves(w)
    /\ UNCHANGED <<runner, failure, cancels, ctxDone, second, crashes>>

FinalizeDone(w) ==
    /\ worker[w].pc = "finalize" /\ runner # "stopping" /\ ~Retrying(w)
    /\ \E gone \in SUBSET FinishedRows : row' = Pruned(Settled(w), gone)
    /\ Leaves(w)
    /\ UNCHANGED <<runner, failure, cancels, ctxDone, second, crashes>>

\* The final UPDATE fails: report() leaves the row running and stops the runner.
FinalizeFault(w) ==
    /\ worker[w].pc = "finalize"
    /\ crashes < MaxCrashes
    /\ failure' = TRUE
    /\ crashes' = crashes + 1
    /\ Leaves(w)
    /\ UNCHANGED <<row, runner, cancels, ctxDone, second>>

\* The deferred delete(m.cancels, t.ID), whoever owns the entry by then.
Leave(w) ==
    /\ worker[w].pc = "leaving"
    /\ worker' = [worker EXCEPT ![w] = Idle]
    /\ cancels' = [cancels EXCEPT ![worker[w].id] = Nil]
    /\ ctxDone' = ctxDone \ {w}
    /\ UNCHANGED <<row, runner, failure, second, crashes>>

\* next_at passes.  The back-off is at least two seconds and the deferred
\* cleanup of the attempt that asked for it is not: no worker still holds i.
BackoffElapses(i) ==
    /\ row[i].state = "queued" /\ ~row[i].due
    /\ \A w \in Slots : worker[w].id # i
    /\ row' = [row EXCEPT ![i].due = TRUE]
    /\ UNCHANGED <<runner, failure, worker, cancels, ctxDone, second, crashes>>

\* Run ends: a reported failure or a cancelled parent context stops claiming,
\* wg.Wait lets the workers persist their state, then the runner is gone.
RunnerFails ==
    /\ runner = "running" /\ failure
    /\ runner' = "stopping"
    /\ UNCHANGED <<row, failure, worker, cancels, ctxDone, second, crashes>>

Shutdown ==
    /\ runner = "running" /\ crashes < MaxCrashes
    /\ runner' = "stopping"
    /\ crashes' = crashes + 1
    /\ UNCHANGED <<row, failure, worker, cancels, ctxDone, second>>

RunEnds ==
    /\ runner = "stopping"
    /\ \A w \in Slots : worker[w].pc = "idle"
    /\ runner' = "stopped"
    /\ UNCHANGED <<row, failure, worker, cancels, ctxDone, second, crashes>>

\* The process dies at any point: only the table remains.
Crash ==
    /\ crashes < MaxCrashes
    /\ runner # "stopped"
    /\ runner' = "stopped"
    /\ failure' = FALSE
    /\ worker' = [w \in Slots |-> Idle]
    /\ cancels' = [i \in TaskIds |-> Nil]
    /\ ctxDone' = {}
    /\ crashes' = crashes + 1
    /\ UNCHANGED <<row, second>>

WorkerStep(w) ==
    \/ Register(w) \/ Recheck(w)
    \/ \E res \in {"ok", "busy", "error"} : Handle(w, res)
    \/ FinalizeShutdown(w) \/ FinalizeBusy(w) \/ FinalizeFault(w)
    \/ FinalizeDone(w)
    \/ Leave(w)

Next ==
    \/ \E k \in Keys, i \in TaskIds, s \in {second, second + 1} : Submit(k, i, s)
    \/ \E i \in TaskIds : Cancel(i)
    \/ \E w \in Slots, i \in TaskIds : Claim(w, i)
    \/ \E w \in Slots : WorkerStep(w)
    \/ \E w \in Slots : Timeout(w)
    \/ \E i \in TaskIds : BackoffElapses(i)
    \/ PruneTick \/ RunStart \/ RunnerFails \/ Shutdown \/ RunEnds \/ Crash

Spec == Init /\ [][Next]_vars

\* The supervisor restarts the process, the claim loop wakes at least every
\* three seconds, back-offs end, and a handler returns once its three-minute
\* context is done.
Fairness ==
    /\ WF_vars(RunStart) /\ WF_vars(RunEnds) /\ WF_vars(RunnerFails)
    /\ \A w \in Slots : /\ WF_vars(WorkerStep(w))
                        /\ WF_vars(\E i \in TaskIds : Claim(w, i))
    /\ \A i \in TaskIds : WF_vars(BackoffElapses(i))

FairSpec == Spec /\ Fairness

-----------------------------------------------------------------------------

\* Every row, worker and map entry has the shape the code gives it.
TypeOK ==
    /\ row \in [TaskIds -> Row]
    /\ runner \in {"stopped", "running", "stopping"}
    /\ failure \in BOOLEAN
    /\ worker \in [Slots -> Worker]
    /\ cancels \in [TaskIds -> Slots \cup {Nil}]
    /\ ctxDone \in SUBSET Slots
    /\ second \in Nat
    /\ crashes \in Nat

\* The unique dedup_key holds the key of exactly the queued and running rows, so
\* one (kind, target) never has two of them, through retry, recovery and cancel.
OneActivePerKey ==
    /\ \A i \in TaskIds : row[i].dedup <=> row[i].state \in Active
    /\ \A i, j \in ActiveRows : row[i].key = row[j].key => i = j

\* Requeueing, recovery and crashes never push the queue past its capacity.
CapacityBound == Cardinality(ActiveRows) <= Capacity

\* manager.go:262: "A claimed task must always reach finalization": while the
\* runner lives and reported no fault, each running row is held by one worker.
RunningIsHeld ==
    runner = "running" /\ ~failure =>
        \A i \in TaskIds : row[i].state = "running" =>
            \E w \in Slots : /\ worker[w].id = i /\ worker[w].pc \in Holding
                             /\ \A v \in Slots : worker[v].id = i /\ worker[v].pc \in Holding
                                                    => v = w

\* A cancelled task's handler is never left running with a live context,
\* wherever Cancel falls between claim, registration, re-read and handler.
CancelReachesHandler ==
    \A w \in Slots : worker[w].pc = "handling" /\ row[worker[w].id].state # "running"
                        => w \in ctxDone

\* A cancelled task frees its key at once, while its handler still unwinds; two
\* handlers of one key overlap only if one of them has been told to stop.
OneLiveHandlerPerKey ==
    \A v, w \in Slots :
        /\ v # w /\ worker[v].pc = "handling" /\ worker[w].pc = "handling"
        /\ worker[v].key = worker[w].key
        => v \in ctxDone \/ w \in ctxDone

\* A finished row never changes its verdict: a late worker does not overwrite a
\* cancellation, recovery does not revive it; it can only be pruned.
VerdictIsFinal ==
    [][\A i \in TaskIds : row[i].state \in Finished \cup {"pruned"} =>
          row'[i].state \in {row[i].state, "pruned"}]_vars

\* Once it is queued, every task is eventually given a verdict, through crashes,
\* shutdowns, busy retries and persistence faults.
EveryTaskEnds ==
    \A i \in TaskIds : row[i].state = "queued" ~> row[i].state \in Finished \cup {"pruned"}

=============================================================================
