----------------------------- MODULE JobsProofs -----------------------------
(***************************************************************************)
(* Every safety property of the task queue holds for any number of tasks,   *)
(* keys, workers, attempts and crashes.                                     *)
(***************************************************************************)
EXTENDS Jobs, FiniteSetTheorems, TLAPS

\* A goroutine slot is idle exactly when it carries no task, and no two slots
\* carry the same task.
SlotsApart ==
    /\ \A w \in Slots : worker[w].pc = "idle" <=> worker[w].id = Nil
    /\ \A v, w \in Slots : worker[v].id = worker[w].id /\ worker[v].id # Nil => v = w

\* A row that may be claimed, or an id that may be drawn, is in no slot.
FreeRows ==
    \A i \in TaskIds, w \in Slots :
        \/ row[i].state = "none"
        \/ row[i].state = "queued" /\ row[i].due /\ runner = "running"
        => worker[w].id # i

\* Without a runner there are no goroutines.
StoppedIsIdle == runner = "stopped" => \A w \in Slots : worker[w].pc = "idle"

\* From registration to the deferred delete, cancels leads to the goroutine.
Registered ==
    \A w \in Slots : worker[w].pc \in {"registered", "handling", "finalize"}
                        => cancels[worker[w].id] = w

\* A goroutine's copy of the task has the key of its row while that is active.
KeysAgree ==
    \A w \in Slots : worker[w].pc # "idle" /\ row[worker[w].id].state \in Active
                        => row[worker[w].id].key = worker[w].key

\* While the runner lives and saw no fault, a running row has a goroutine.
Held ==
    runner = "running" /\ ~failure =>
        \A i \in TaskIds : row[i].state = "running" =>
            \E w \in Slots : worker[w].id = i /\ worker[w].pc \in Holding

\* The inductive invariant of the queue.
QueueInv ==
    /\ TypeOK /\ OneActivePerKey
    /\ SlotsApart /\ FreeRows /\ StoppedIsIdle
    /\ Registered /\ CancelReachesHandler /\ KeysAgree /\ Held

-----------------------------------------------------------------------------

\* A closed row is a row with its own key, in the terminal state and off the index.
LEMMA CloseRow ==
    ASSUME NEW r \in Row, NEW st \in Finished
    PROVE  /\ Close(r, st) \in Row
           /\ Close(r, st).state = st
           /\ Close(r, st).dedup = FALSE
           /\ Close(r, st).key = r.key
BY DEF Close, Row, States, Finished

\* Waking a row changes only its due time.
LEMMA DueRow ==
    ASSUME NEW r \in Row
    PROVE  /\ [r EXCEPT !.due = TRUE] \in Row
           /\ [r EXCEPT !.due = TRUE].state = r.state
BY DEF Row

\* A goroutine that moves on keeps its task and leaves the others alone.
LEMMA MovedAlone ==
    ASSUME TypeOK, NEW w \in Slots, NEW p \in PCs,
           \/ worker' = [worker EXCEPT ![w].pc = p]
           \/ \E x \in {"ok", "busy", "error"} :
                 worker' = [worker EXCEPT ![w].pc = p, ![w].result = x]
    PROVE  /\ worker' \in [Slots -> Worker]
           /\ \A v \in Slots : worker'[v].id = worker[v].id /\ worker'[v].key = worker[v].key
           /\ \A v \in Slots \ {w} : worker'[v] = worker[v]
           /\ worker'[w].pc = p
<1>1. worker \in [Slots -> Worker]
  BY DEF TypeOK
<1>2. CASE worker' = [worker EXCEPT ![w].pc = p]
  <2>1. worker' = [worker EXCEPT ![w] = [worker[w] EXCEPT !.pc = p]]
    BY <1>1, <1>2
  <2> DEFINE q == [worker[w] EXCEPT !.pc = p]
  <2>2. worker[w] \in Worker
    BY <1>1
  <2>3. q \in Worker
    BY <2>2 DEF Worker
  <2>4. q.pc = p /\ q.id = worker[w].id /\ q.key = worker[w].key
    BY <2>2 DEF Worker
  <2> QED BY <1>1, <2>1, <2>3, <2>4
<1>3. ASSUME NEW x \in {"ok", "busy", "error"},
             worker' = [worker EXCEPT ![w].pc = p, ![w].result = x]
      PROVE  /\ worker' \in [Slots -> Worker]
             /\ \A v \in Slots : worker'[v].id = worker[v].id /\ worker'[v].key = worker[v].key
             /\ \A v \in Slots \ {w} : worker'[v] = worker[v]
             /\ worker'[w].pc = p
  <2>1. worker' = [worker EXCEPT ![w] = [worker[w] EXCEPT !.pc = p, !.result = x]]
    BY <1>1, <1>3
  <2> DEFINE q == [worker[w] EXCEPT !.pc = p, !.result = x]
  <2>2. worker[w] \in Worker
    BY <1>1
  <2>3. q \in Worker
    BY <2>2 DEF Worker
  <2>4. q.pc = p /\ q.id = worker[w].id /\ q.key = worker[w].key
    BY <2>2 DEF Worker
  <2> QED BY <1>1, <2>1, <2>3, <2>4
<1> QED BY <1>2, <1>3

USE DEF Active, Finished, States, Row, Blank, Holding, PCs, Worker, Idle, ActiveRows, vars

\* The empty queue satisfies the invariant.
LEMMA InitQueueInv == Init => QueueInv
<1> SUFFICES ASSUME Init PROVE QueueInv
  OBVIOUS
<1> USE JobsAssumption DEF Init
<1>1. TypeOK
  BY DEF TypeOK
<1>2. OneActivePerKey /\ SlotsApart /\ FreeRows
  BY DEF OneActivePerKey, SlotsApart, FreeRows
<1>3. StoppedIsIdle /\ Registered /\ CancelReachesHandler /\ KeysAgree /\ Held
  BY DEF StoppedIsIdle, Registered, CancelReachesHandler, KeysAgree, Held
<1> QED BY <1>1, <1>2, <1>3 DEF QueueInv

\* Requests of users and schedulers, which run concurrently with the workers.
LEMMA RequestsKeepQueueInv ==
    ASSUME QueueInv,
           \/ \E k \in Keys, i \in TaskIds, s \in {second, second + 1} : Submit(k, i, s)
           \/ \E i \in TaskIds : Cancel(i)
    PROVE  QueueInv'
<1> USE JobsAssumption DEF QueueInv
<1>1. CASE \E k \in Keys, i \in TaskIds, s \in {second, second + 1} : Submit(k, i, s)
  <2> PICK k \in Keys, i \in TaskIds, s \in {second, second + 1} : Submit(k, i, s)
    BY <1>1
  <2>1. TypeOK'
    BY DEF Submit, TypeOK
  <2>2. OneActivePerKey'
    BY DEF Submit, TypeOK, OneActivePerKey
  <2>3. SlotsApart' /\ StoppedIsIdle' /\ Registered'
    BY DEF Submit, SlotsApart, StoppedIsIdle, Registered
  <2>4. FreeRows'
    BY DEF Submit, TypeOK, FreeRows
  <2>5. CancelReachesHandler' /\ KeysAgree'
    BY DEF Submit, TypeOK, FreeRows, CancelReachesHandler, KeysAgree, SlotsApart
  <2>6. Held'
    BY DEF Submit, TypeOK, Held
  <2> QED BY <2>1, <2>2, <2>3, <2>4, <2>5, <2>6
<1>2. CASE \E i \in TaskIds : Cancel(i)
  <2> PICK i \in TaskIds : Cancel(i)
    BY <1>2
  <2>1. /\ Close(row[i], "cancelled") \in Row
        /\ Close(row[i], "cancelled").state = "cancelled"
        /\ Close(row[i], "cancelled").dedup = FALSE
    BY CloseRow DEF TypeOK
  <2>2. TypeOK'
    BY <2>1 DEF Cancel, TypeOK
  <2>3. OneActivePerKey'
    BY <2>1 DEF Cancel, TypeOK, OneActivePerKey
  <2>4. SlotsApart' /\ StoppedIsIdle' /\ Registered'
    BY DEF Cancel, SlotsApart, StoppedIsIdle, Registered
  <2>5. FreeRows'
    BY <2>1 DEF Cancel, TypeOK, FreeRows
  <2>6. CancelReachesHandler'
    BY <2>1 DEF Cancel, TypeOK, Registered, CancelReachesHandler, SlotsApart
  <2>7. KeysAgree'
    BY <2>1 DEF Cancel, TypeOK, KeysAgree, SlotsApart
  <2>8. Held'
    BY <2>1 DEF Cancel, TypeOK, Held
  <2> QED BY <2>2, <2>3, <2>4, <2>5, <2>6, <2>7, <2>8
<1> QED BY <1>1, <1>2

\* The runner's own steps: start with recovery, prune, stop, crash; and time.
LEMMA RunnerKeepsQueueInv ==
    ASSUME QueueInv,
           \/ RunStart \/ PruneTick \/ RunnerFails \/ Shutdown \/ RunEnds \/ Crash
           \/ \E i \in TaskIds : BackoffElapses(i)
    PROVE  QueueInv'
<1> USE JobsAssumption DEF QueueInv
<1>1. CASE RunStart
  <2> USE <1>1
  <2>1. \A i \in TaskIds :
          /\ row'[i] \in Row
          /\ row'[i].state = (IF row[i].state = "running" THEN "queued" ELSE row[i].state)
          /\ row'[i].key = row[i].key /\ row'[i].dedup = row[i].dedup
    <3>1. row \in [TaskIds -> Row] /\ row' = Recovered(row)
      BY DEF RunStart, TypeOK
    <3>2. ASSUME NEW i \in TaskIds
          PROVE  LET q == [row[i] EXCEPT !.state = "queued", !.due = TRUE]
                 IN  /\ q \in Row /\ q.state = "queued"
                     /\ q.key = row[i].key /\ q.dedup = row[i].dedup
      <4>1. row[i] \in Row
        BY <3>1
      <4> QED BY <4>1
    <3> HIDE DEF Row
    <3> QED BY <3>1, <3>2 DEF Recovered
  <2>2. TypeOK'
    <3>1. row' \in [TaskIds -> Row]
      BY <2>1 DEF RunStart, Recovered
    <3> HIDE DEF Row, Worker
    <3> QED BY <3>1 DEF RunStart, Recovered, TypeOK
  <2>3. OneActivePerKey'
    BY <2>1 DEF RunStart, TypeOK, OneActivePerKey
  <2>4. SlotsApart' /\ StoppedIsIdle'
    BY <2>1 DEF RunStart, TypeOK, SlotsApart, StoppedIsIdle, FreeRows
  <2>5. FreeRows'
    BY <2>1 DEF RunStart, TypeOK, SlotsApart, StoppedIsIdle, FreeRows
  <2>6. Registered'
    BY <2>1 DEF RunStart, TypeOK, SlotsApart, Registered, StoppedIsIdle
  <2>7. CancelReachesHandler'
    BY <2>1 DEF RunStart, TypeOK, SlotsApart, Registered, StoppedIsIdle, CancelReachesHandler, FreeRows
  <2>8. KeysAgree'
    BY <2>1 DEF RunStart, TypeOK, SlotsApart, StoppedIsIdle, KeysAgree, FreeRows
  <2>9. Held'
    BY <2>1 DEF RunStart, TypeOK, SlotsApart, Held
  <2> QED BY <2>2, <2>3, <2>4, <2>5, <2>6, <2>7, <2>8, <2>9
<1>2. CASE PruneTick
  <2> USE <1>2
  <2>1. TypeOK'
    BY DEF PruneTick, Pruned, FinishedRows, TypeOK
  <2>2. OneActivePerKey'
    BY DEF PruneTick, Pruned, FinishedRows, TypeOK, OneActivePerKey
  <2>3. SlotsApart' /\ StoppedIsIdle'
    BY DEF PruneTick, Pruned, FinishedRows, TypeOK, SlotsApart, StoppedIsIdle, FreeRows
  <2>4. FreeRows'
    BY DEF PruneTick, Pruned, FinishedRows, TypeOK, SlotsApart, StoppedIsIdle, FreeRows
  <2>5. Registered'
    BY DEF PruneTick, Pruned, FinishedRows, TypeOK, SlotsApart, Registered, StoppedIsIdle
  <2>6. CancelReachesHandler'
    BY DEF PruneTick, Pruned, FinishedRows, TypeOK, SlotsApart, Registered, StoppedIsIdle, CancelReachesHandler, FreeRows
  <2>7. KeysAgree'
    BY DEF PruneTick, Pruned, FinishedRows, TypeOK, SlotsApart, StoppedIsIdle, KeysAgree, FreeRows
  <2>8. Held'
    BY DEF PruneTick, Pruned, FinishedRows, TypeOK, SlotsApart, Held
  <2> QED BY <2>1, <2>2, <2>3, <2>4, <2>5, <2>6, <2>7, <2>8
<1>3. CASE RunnerFails \/ Shutdown \/ RunEnds
  <2> USE <1>3
  <2>1. TypeOK'
    BY DEF RunnerFails, Shutdown, RunEnds, TypeOK
  <2>2. OneActivePerKey'
    BY DEF RunnerFails, Shutdown, RunEnds, TypeOK, OneActivePerKey
  <2>3. SlotsApart' /\ StoppedIsIdle'
    BY DEF RunnerFails, Shutdown, RunEnds, TypeOK, SlotsApart, StoppedIsIdle, FreeRows
  <2>4. FreeRows'
    BY DEF RunnerFails, Shutdown, RunEnds, TypeOK, SlotsApart, StoppedIsIdle, FreeRows
  <2>5. Registered'
    BY DEF RunnerFails, Shutdown, RunEnds, TypeOK, SlotsApart, Registered, StoppedIsIdle
  <2>6. CancelReachesHandler'
    BY DEF RunnerFails, Shutdown, RunEnds, TypeOK, SlotsApart, Registered, StoppedIsIdle, CancelReachesHandler, FreeRows
  <2>7. KeysAgree'
    BY DEF RunnerFails, Shutdown, RunEnds, TypeOK, SlotsApart, StoppedIsIdle, KeysAgree, FreeRows
  <2>8. Held'
    BY DEF RunnerFails, Shutdown, RunEnds, TypeOK, SlotsApart, Held
  <2> QED BY <2>1, <2>2, <2>3, <2>4, <2>5, <2>6, <2>7, <2>8
<1>4. CASE Crash
  <2> USE <1>4
  <2>1. TypeOK'
    <3>1. worker' \in [Slots -> Worker]
      BY DEF Crash, TypeOK
    <3>2. failure' \in BOOLEAN /\ runner' \in {"stopped", "running", "stopping"}
      BY DEF Crash
    <3>3. cancels' \in [TaskIds -> Slots \cup {Nil}] /\ ctxDone' \in SUBSET Slots
      BY DEF Crash
    <3> HIDE DEF Row, Worker
    <3> QED BY <3>1, <3>2, <3>3 DEF Crash, TypeOK
  <2>2. OneActivePerKey'
    BY DEF Crash, TypeOK, OneActivePerKey
  <2>3. SlotsApart' /\ StoppedIsIdle'
    BY DEF Crash, TypeOK, SlotsApart, StoppedIsIdle, FreeRows
  <2>4. FreeRows'
    BY DEF Crash, TypeOK, SlotsApart, StoppedIsIdle, FreeRows
  <2>5. Registered'
    BY DEF Crash, TypeOK, SlotsApart, Registered, StoppedIsIdle
  <2>6. CancelReachesHandler'
    BY DEF Crash, TypeOK, SlotsApart, Registered, StoppedIsIdle, CancelReachesHandler, FreeRows
  <2>7. KeysAgree'
    BY DEF Crash, TypeOK, SlotsApart, StoppedIsIdle, KeysAgree, FreeRows
  <2>8. Held'
    BY DEF Crash, TypeOK, SlotsApart, Held
  <2> QED BY <2>1, <2>2, <2>3, <2>4, <2>5, <2>6, <2>7, <2>8
<1>5. CASE \E i \in TaskIds : BackoffElapses(i)
  <2> PICK i \in TaskIds : BackoffElapses(i)
    BY <1>5
  <2>1. TypeOK'
    <3>1. row' \in [TaskIds -> Row]
      BY DueRow DEF BackoffElapses, TypeOK
    <3> HIDE DEF Row, Worker
    <3> QED BY <3>1 DEF BackoffElapses, TypeOK
  <2>2. OneActivePerKey'
    BY DEF BackoffElapses, TypeOK, OneActivePerKey
  <2>3. SlotsApart' /\ StoppedIsIdle'
    BY DEF BackoffElapses, TypeOK, SlotsApart, StoppedIsIdle, FreeRows
  <2>4. FreeRows'
    BY DEF BackoffElapses, TypeOK, SlotsApart, StoppedIsIdle, FreeRows
  <2>5. Registered'
    BY DEF BackoffElapses, TypeOK, SlotsApart, Registered, StoppedIsIdle
  <2>6. CancelReachesHandler'
    BY DEF BackoffElapses, TypeOK, SlotsApart, Registered, StoppedIsIdle, CancelReachesHandler, FreeRows
  <2>7. KeysAgree'
    BY DEF BackoffElapses, TypeOK, SlotsApart, StoppedIsIdle, KeysAgree, FreeRows
  <2>8. Held'
    BY DEF BackoffElapses, TypeOK, SlotsApart, Held
  <2> QED BY <2>1, <2>2, <2>3, <2>4, <2>5, <2>6, <2>7, <2>8
<1> QED BY <1>1, <1>2, <1>3, <1>4, <1>5

\* A worker goroutine, from the claim to the deferred cleanup.
LEMMA WorkersKeepQueueInv ==
    ASSUME QueueInv,
           \/ \E w \in Slots, i \in TaskIds : Claim(w, i)
           \/ \E w \in Slots : WorkerStep(w)
           \/ \E w \in Slots : Timeout(w)
    PROVE  QueueInv'
<1> USE JobsAssumption DEF QueueInv
<1>1. CASE \E w \in Slots, i \in TaskIds : Claim(w, i)
  <2> PICK w \in Slots, i \in TaskIds : Claim(w, i)
    BY <1>1
  <2>1. TypeOK'
    <3>1. row' \in [TaskIds -> Row]
      BY DEF Claim, TypeOK
    <3>2. worker' \in [Slots -> Worker]
      BY DEF Claim, TypeOK
    <3> HIDE DEF Row, Worker
    <3> QED BY <3>1, <3>2 DEF Claim, TypeOK
  <2>2. OneActivePerKey'
    BY DEF Claim, TypeOK, OneActivePerKey
  <2>3. SlotsApart' /\ StoppedIsIdle'
    BY DEF Claim, TypeOK, SlotsApart, StoppedIsIdle, FreeRows
  <2>4. FreeRows'
    BY DEF Claim, TypeOK, SlotsApart, StoppedIsIdle, FreeRows
  <2>5. Registered'
    BY DEF Claim, TypeOK, SlotsApart, Registered, StoppedIsIdle
  <2>6. CancelReachesHandler'
    BY DEF Claim, TypeOK, SlotsApart, Registered, StoppedIsIdle, CancelReachesHandler, FreeRows
  <2>7. KeysAgree'
    BY DEF Claim, TypeOK, SlotsApart, StoppedIsIdle, KeysAgree, FreeRows
  <2>8. Held'
    BY DEF Claim, TypeOK, SlotsApart, Held
  <2> QED BY <2>1, <2>2, <2>3, <2>4, <2>5, <2>6, <2>7, <2>8
<1>2. CASE \E w \in Slots : Register(w)
  <2> PICK w \in Slots : Register(w)
    BY <1>2
  <2>1. TypeOK'
    <3>1. worker' \in [Slots -> Worker]
      BY MovedAlone DEF Register
    <3> HIDE DEF Row, Worker
    <3> QED BY <3>1 DEF Register, TypeOK
  <2>2. OneActivePerKey'
    BY DEF Register, TypeOK, OneActivePerKey
  <2>3. SlotsApart' /\ StoppedIsIdle'
    BY DEF Register, TypeOK, SlotsApart, StoppedIsIdle, FreeRows
  <2>4. FreeRows'
    BY DEF Register, TypeOK, SlotsApart, StoppedIsIdle, FreeRows
  <2>5. Registered'
    BY DEF Register, TypeOK, SlotsApart, Registered, StoppedIsIdle
  <2>6. CancelReachesHandler'
    BY DEF Register, TypeOK, SlotsApart, Registered, StoppedIsIdle, CancelReachesHandler, FreeRows
  <2>7. KeysAgree'
    BY DEF Register, TypeOK, SlotsApart, StoppedIsIdle, KeysAgree, FreeRows
  <2>8. Held'
    BY DEF Register, TypeOK, SlotsApart, Held
  <2> QED BY <2>1, <2>2, <2>3, <2>4, <2>5, <2>6, <2>7, <2>8
<1>3. CASE \E w \in Slots : Recheck(w)
  <2> PICK w \in Slots : Recheck(w)
    BY <1>3
  <2>1. /\ worker[w].id \in TaskIds
        /\ \A v \in Slots : worker'[v].id = worker[v].id /\ worker'[v].key = worker[v].key
        /\ \A v \in Slots \ {w} : worker'[v] = worker[v]
        /\ worker'[w].pc \in {"handling", "finalize", "leaving"}
    <3>1. PICK pc \in {"handling", "finalize", "leaving"}, res \in {worker[w].result, "error"} :
            worker' = [worker EXCEPT ![w].pc = pc, ![w].result = res]
      BY DEF Recheck, TypeOK
    <3>2. worker[w].pc = "registered" /\ worker \in [Slots -> Worker]
      BY DEF Recheck, TypeOK
    <3>3. worker[w].id \in TaskIds
      BY <3>2 DEF SlotsApart
    <3> QED BY <3>1, <3>2, <3>3 DEF Worker
  <2>2. TypeOK'
    <3>1. \/ worker' = [worker EXCEPT ![w].pc = "leaving"]
          \/ worker' = [worker EXCEPT ![w].pc = "handling"]
          \/ worker' = [worker EXCEPT ![w].pc = "finalize", ![w].result = "error"]
      BY DEF Recheck
    <3>2. {"leaving", "handling", "finalize"} \subseteq PCs
      BY DEF PCs, Holding
    <3>3. worker' \in [Slots -> Worker]
      BY <3>1, <3>2, MovedAlone
    <3> HIDE DEF Row, Worker
    <3> QED BY <3>3 DEF Recheck, TypeOK
  <2>3. OneActivePerKey'
    BY <2>1 DEF Recheck, TypeOK, OneActivePerKey
  <2>4. SlotsApart' /\ StoppedIsIdle'
    <3>1. runner' = runner /\ worker[w].pc = "registered"
      BY DEF Recheck
    <3> HIDE DEF Row, Worker
    <3> QED BY <2>1, <3>1 DEF SlotsApart, StoppedIsIdle
  <2>5. FreeRows'
    BY <2>1 DEF Recheck, TypeOK, SlotsApart, StoppedIsIdle, FreeRows
  <2>6. Registered'
    BY <2>1 DEF Recheck, TypeOK, SlotsApart, Registered, StoppedIsIdle
  <2>7. CancelReachesHandler'
    BY <2>1 DEF Recheck, TypeOK, SlotsApart, Registered, StoppedIsIdle, CancelReachesHandler, FreeRows
  <2>8. KeysAgree'
    BY <2>1 DEF Recheck, TypeOK, SlotsApart, StoppedIsIdle, KeysAgree, FreeRows
  <2>9. Held'
    BY <2>1 DEF Recheck, TypeOK, SlotsApart, Held
  <2> QED BY <2>2, <2>3, <2>4, <2>5, <2>6, <2>7, <2>8, <2>9
<1>4. CASE \E w \in Slots, res \in {"ok", "busy", "error"} : Handle(w, res)
  <2> PICK w \in Slots, res \in {"ok", "busy", "error"} : Handle(w, res)
    BY <1>4
  <2>1. /\ worker[w].id \in TaskIds
        /\ \A v \in Slots : worker'[v].id = worker[v].id /\ worker'[v].key = worker[v].key
        /\ \A v \in Slots \ {w} : worker'[v] = worker[v]
        /\ worker'[w].pc \in {"finalize"}
    BY DEF Handle, TypeOK, SlotsApart
  <2>2. TypeOK'
    <3>1. worker' \in [Slots -> Worker]
      BY MovedAlone DEF Handle
    <3> HIDE DEF Row, Worker
    <3> QED BY <3>1 DEF Handle, TypeOK
  <2>3. OneActivePerKey'
    BY <2>1 DEF Handle, TypeOK, OneActivePerKey
  <2>4. SlotsApart' /\ StoppedIsIdle'
    BY <2>1 DEF Handle, TypeOK, SlotsApart, StoppedIsIdle, FreeRows
  <2>5. FreeRows'
    BY <2>1 DEF Handle, TypeOK, SlotsApart, StoppedIsIdle, FreeRows
  <2>6. Registered'
    BY <2>1 DEF Handle, TypeOK, SlotsApart, Registered, StoppedIsIdle
  <2>7. CancelReachesHandler'
    BY <2>1 DEF Handle, TypeOK, SlotsApart, Registered, StoppedIsIdle, CancelReachesHandler, FreeRows
  <2>8. KeysAgree'
    BY <2>1 DEF Handle, TypeOK, SlotsApart, StoppedIsIdle, KeysAgree, FreeRows
  <2>9. Held'
    BY <2>1 DEF Handle, TypeOK, SlotsApart, Held
  <2> QED BY <2>2, <2>3, <2>4, <2>5, <2>6, <2>7, <2>8, <2>9
<1>5. CASE \E w \in Slots : FinalizeShutdown(w) \/ FinalizeBusy(w)
  <2> PICK w \in Slots : FinalizeShutdown(w) \/ FinalizeBusy(w)
    BY <1>5
  <2> DEFINE i == worker[w].id
  <2>1. /\ worker[w].pc = "finalize" /\ worker' = [worker EXCEPT ![w].pc = "leaving"]
        /\ UNCHANGED <<runner, failure, cancels, ctxDone, second, crashes>>
    BY DEF FinalizeShutdown, FinalizeBusy, Leaves
  <2>2. i \in TaskIds /\ \A v \in Slots : worker[v].id \in TaskIds \cup {Nil}
    BY <2>1 DEF TypeOK, SlotsApart
  <2>3. /\ worker' \in [Slots -> Worker]
        /\ \A v \in Slots : worker'[v].id = worker[v].id /\ worker'[v].key = worker[v].key
        /\ \A v \in Slots \ {w} : worker'[v] = worker[v]
        /\ worker'[w].pc = "leaving"
    BY <2>1, MovedAlone
  <2>4. \/ row' = row /\ row[i].state # "running"
        \/ /\ row[i].state = "running"
           /\ \E d \in BOOLEAN : /\ d => runner = "stopping"
                                 /\ row' = [row EXCEPT ![i] = [row[i] EXCEPT !.state = "queued", !.due = d]]
    BY DEF FinalizeShutdown, FinalizeBusy, Requeued
  <2>5. /\ row' \in [TaskIds -> Row]
        /\ \A j \in TaskIds :
              /\ row'[j].key = row[j].key /\ row'[j].dedup = row[j].dedup
              /\ \/ row'[j] = row[j]
                 \/ /\ j = i /\ row[j].state = "running" /\ row'[j].state = "queued"
                    /\ row'[j].due => runner = "stopping"
        /\ row'[i].state # "running"
    <3> HIDE DEF Row, i
    <3>0. row \in [TaskIds -> Row]
      BY DEF TypeOK
    <3>1. ASSUME NEW d \in BOOLEAN, d => runner = "stopping", row[i].state = "running",
                 row' = [row EXCEPT ![i] = [row[i] EXCEPT !.state = "queued", !.due = d]]
          PROVE  /\ row' \in [TaskIds -> Row]
                 /\ \A j \in TaskIds :
                       /\ row'[j].key = row[j].key /\ row'[j].dedup = row[j].dedup
                       /\ \/ row'[j] = row[j]
                          \/ /\ j = i /\ row[j].state = "running" /\ row'[j].state = "queued"
                             /\ row'[j].due => runner = "stopping"
                 /\ row'[i].state # "running"
      <4>1. LET q == [row[i] EXCEPT !.state = "queued", !.due = d]
            IN  /\ q \in Row /\ q.state = "queued" /\ q.due = d
                /\ q.key = row[i].key /\ q.dedup = row[i].dedup
        BY <2>2, <3>0 DEF Row
      <4> QED BY <2>2, <3>0, <3>1, <4>1
    <3> QED BY <2>4, <3>1 DEF TypeOK
  <2> HIDE DEF Row, Worker
  <2>6. TypeOK'
    BY <2>1, <2>3, <2>5 DEF TypeOK
  <2>7. OneActivePerKey'
    BY <2>5 DEF OneActivePerKey
  <2>8. SlotsApart' /\ StoppedIsIdle' /\ Registered'
    BY <2>1, <2>2, <2>3 DEF SlotsApart, StoppedIsIdle, Registered
  <2>9. FreeRows'
    BY <2>1, <2>3, <2>5 DEF FreeRows
  <2>10. CancelReachesHandler'
    BY <2>1, <2>2, <2>3, <2>5 DEF SlotsApart, CancelReachesHandler
  <2>11. KeysAgree'
    BY <2>1, <2>2, <2>3, <2>5 DEF SlotsApart, KeysAgree
  <2>12. Held'
    BY <2>1, <2>2, <2>3, <2>5 DEF Held
  <2> QED BY <2>6, <2>7, <2>8, <2>9, <2>10, <2>11, <2>12
<1>6. CASE \E w \in Slots : FinalizeDone(w)
  <2> PICK w \in Slots : FinalizeDone(w)
    BY <1>6
  <2> PICK gone \in SUBSET FinishedRows : row' = Pruned(Settled(w), gone)
    BY DEF FinalizeDone
  <2>1. /\ worker[w].id \in TaskIds
        /\ worker' \in [Slots -> Worker]
        /\ \A v \in Slots : worker'[v].id = worker[v].id /\ worker'[v].key = worker[v].key
        /\ \A v \in Slots \ {w} : worker'[v] = worker[v]
        /\ worker'[w].pc = "leaving" /\ worker[w].pc = "finalize"
        /\ \A v \in Slots : worker[v].pc # "idle" => worker[v].id \in TaskIds
    <3>1. worker[w] \in Worker /\ worker[w].pc = "finalize"
      BY DEF FinalizeDone, TypeOK
    <3>2. \A v \in Slots : worker[v].pc # "idle" => worker[v].id \in TaskIds
      BY DEF SlotsApart, TypeOK
    <3> HIDE DEF Worker
    <3> QED BY <3>1, <3>2, MovedAlone DEF FinalizeDone, Leaves
  <2>2. LET r == Close(row[worker[w].id], Outcome(w))
        IN  r \in Row /\ r.state \in Finished /\ r.dedup = FALSE
    <3>1. row[worker[w].id] \in Row /\ Outcome(w) \in Finished
      BY <2>1 DEF TypeOK, Outcome
    <3> HIDE DEF Row, Finished
    <3> QED BY <3>1, CloseRow
  <2> DEFINE id == worker[w].id
             Closed == Close(row[id], Outcome(w))
  <2>3. /\ \A i \in gone : row'[i] = Blank("pruned") /\ row[i].state \in Finished
        /\ \A i \in TaskIds \ gone :
              row'[i] = IF i = id /\ row[id].state = "running" THEN Closed ELSE row[i]
    <3>1. row \in [TaskIds -> Row] /\ gone \subseteq TaskIds
          /\ \A i \in gone : row[i].state \in Finished
      BY DEF TypeOK, FinishedRows
    <3> HIDE DEF Row, Finished, Blank
    <3>2. \A i \in TaskIds \ gone : row'[i] = Settled(w)[i]
      BY DEF Pruned
    <3>3. CASE row[id].state = "running"
      <4>1. Settled(w) = [row EXCEPT ![id] = Closed]
        BY <3>3 DEF Settled
      <4> HIDE DEF id, Closed
      <4> QED BY <3>1, <3>2, <3>3, <4>1 DEF Pruned
    <3>4. CASE row[id].state # "running"
      <4>1. Settled(w) = row
        BY <3>4 DEF Settled
      <4> HIDE DEF id, Closed
      <4> QED BY <3>1, <3>2, <3>4, <4>1 DEF Pruned
    <3> QED BY <3>3, <3>4
  <2>4. /\ \A i \in TaskIds :
              /\ row[i] \in Row /\ row'[i] \in Row
              /\ \/ row'[i] = row[i]
                 \/ row'[i].state \in Finished \cup {"pruned"} /\ row'[i].dedup = FALSE
        /\ row'[id].state # "running"
        /\ \A i \in TaskIds \ {id} : row[i].state = "running" => row'[i] = row[i]
    <3>1. row \in [TaskIds -> Row]
      BY DEF TypeOK
    <3>2. Blank("pruned") \in Row /\ Blank("pruned").state = "pruned"
          /\ Blank("pruned").dedup = FALSE
      OBVIOUS
    <3> HIDE DEF Row, Blank, id, Closed
    <3>3. Closed \in Row /\ Closed.state \in Finished /\ Closed.dedup = FALSE
      BY <2>2 DEF id, Closed
    <3>4. id \in TaskIds
      BY <2>1 DEF id
    <3> QED BY <2>3, <3>1, <3>2, <3>3, <3>4
  <2> HIDE DEF Closed
  <2>5. UNCHANGED <<runner, failure, cancels, ctxDone, second, crashes>>
    BY DEF FinalizeDone
  <2>6. TypeOK'
    <3>1. row' \in [TaskIds -> Row]
      <4> HIDE DEF Row
      <4> QED BY <2>4 DEF Pruned
    <3> HIDE DEF Row, Worker
    <3> QED BY <2>1, <2>5, <3>1 DEF TypeOK
  <2> HIDE DEF Row, Worker, Blank
  <2>7. OneActivePerKey'
    BY <2>4 DEF OneActivePerKey
  <2>8. SlotsApart' /\ StoppedIsIdle'
    BY <2>1, <2>5 DEF FinalizeDone, SlotsApart, StoppedIsIdle
  <2>9. FreeRows'
    BY <2>1, <2>4, <2>5 DEF FreeRows
  <2>10. Registered' /\ CancelReachesHandler'
    <3>1. Registered'
      BY <2>1, <2>5 DEF Registered
    <3>2. CancelReachesHandler'
      BY <2>1, <2>4, <2>5 DEF CancelReachesHandler, SlotsApart
    <3> QED BY <3>1, <3>2
  <2>11. KeysAgree'
    <3> SUFFICES ASSUME NEW v \in Slots, worker'[v].pc # "idle",
                        row'[worker'[v].id].state \in Active
                 PROVE  row'[worker'[v].id].key = worker'[v].key
      BY DEF KeysAgree
    <3>1. worker[v].pc # "idle" /\ worker[v].id \in TaskIds
      BY <2>1
    <3>2. row'[worker[v].id] = row[worker[v].id]
      BY <2>1, <2>4, <3>1
    <3> QED BY <2>1, <3>1, <3>2 DEF KeysAgree
  <2>12. Held'
    BY <2>1, <2>4, <2>5 DEF Held
  <2> QED BY <2>6, <2>7, <2>8, <2>9, <2>10, <2>11, <2>12
<1>7. CASE \E w \in Slots : FinalizeFault(w)
  <2> PICK w \in Slots : FinalizeFault(w)
    BY <1>7
  <2>1. TypeOK'
    <3>1. worker' \in [Slots -> Worker]
      BY DEF FinalizeFault, Leaves, TypeOK
    <3> HIDE DEF Row, Worker
    <3> QED BY <3>1 DEF FinalizeFault, Leaves, TypeOK
  <2>2. OneActivePerKey'
    BY DEF FinalizeFault, Leaves, TypeOK, OneActivePerKey
  <2>3. SlotsApart' /\ StoppedIsIdle'
    BY DEF FinalizeFault, Leaves, TypeOK, SlotsApart, StoppedIsIdle, FreeRows
  <2>4. FreeRows'
    BY DEF FinalizeFault, Leaves, TypeOK, SlotsApart, StoppedIsIdle, FreeRows
  <2>5. Registered'
    BY DEF FinalizeFault, Leaves, TypeOK, SlotsApart, Registered, StoppedIsIdle
  <2>6. CancelReachesHandler'
    BY DEF FinalizeFault, Leaves, TypeOK, SlotsApart, Registered, StoppedIsIdle, CancelReachesHandler, FreeRows
  <2>7. KeysAgree'
    BY DEF FinalizeFault, Leaves, TypeOK, SlotsApart, StoppedIsIdle, KeysAgree, FreeRows
  <2>8. Held'
    BY DEF FinalizeFault, Leaves, TypeOK, SlotsApart, Held
  <2> QED BY <2>1, <2>2, <2>3, <2>4, <2>5, <2>6, <2>7, <2>8
<1>8. CASE \E w \in Slots : Leave(w)
  <2> PICK w \in Slots : Leave(w)
    BY <1>8
  <2>1. TypeOK'
    <3>1. worker' \in [Slots -> Worker]
      BY DEF Leave, TypeOK
    <3> HIDE DEF Row, Worker
    <3> QED BY <3>1 DEF Leave, TypeOK
  <2>2. OneActivePerKey'
    BY DEF Leave, TypeOK, OneActivePerKey
  <2>3. SlotsApart' /\ StoppedIsIdle'
    BY DEF Leave, TypeOK, SlotsApart, StoppedIsIdle, FreeRows
  <2>4. FreeRows'
    BY DEF Leave, TypeOK, SlotsApart, StoppedIsIdle, FreeRows
  <2>5. Registered'
    BY DEF Leave, TypeOK, SlotsApart, Registered, StoppedIsIdle
  <2>6. CancelReachesHandler'
    BY DEF Leave, TypeOK, SlotsApart, Registered, StoppedIsIdle, CancelReachesHandler, FreeRows
  <2>7. KeysAgree'
    BY DEF Leave, TypeOK, SlotsApart, StoppedIsIdle, KeysAgree, FreeRows
  <2>8. Held'
    BY DEF Leave, TypeOK, SlotsApart, Held
  <2> QED BY <2>1, <2>2, <2>3, <2>4, <2>5, <2>6, <2>7, <2>8
<1>9. CASE \E w \in Slots : Timeout(w)
  <2> PICK w \in Slots : Timeout(w)
    BY <1>9
  <2>1. TypeOK'
    BY DEF Timeout, TypeOK
  <2>2. OneActivePerKey'
    BY DEF Timeout, TypeOK, OneActivePerKey
  <2>3. SlotsApart' /\ StoppedIsIdle'
    BY DEF Timeout, TypeOK, SlotsApart, StoppedIsIdle, FreeRows
  <2>4. FreeRows'
    BY DEF Timeout, TypeOK, SlotsApart, StoppedIsIdle, FreeRows
  <2>5. Registered'
    BY DEF Timeout, TypeOK, SlotsApart, Registered, StoppedIsIdle
  <2>6. CancelReachesHandler'
    BY DEF Timeout, TypeOK, SlotsApart, Registered, StoppedIsIdle, CancelReachesHandler, FreeRows
  <2>7. KeysAgree'
    BY DEF Timeout, TypeOK, SlotsApart, StoppedIsIdle, KeysAgree, FreeRows
  <2>8. Held'
    BY DEF Timeout, TypeOK, SlotsApart, Held
  <2> QED BY <2>1, <2>2, <2>3, <2>4, <2>5, <2>6, <2>7, <2>8
<1> QED BY <1>1, <1>2, <1>3, <1>4, <1>5, <1>6, <1>7, <1>8, <1>9 DEF WorkerStep

\* QueueInv is an invariant of the queue.
THEOREM QueueSafe == Spec => []QueueInv
<1>1. QueueInv /\ [Next]_vars => QueueInv'
  <2> SUFFICES ASSUME QueueInv, [Next]_vars PROVE QueueInv'
    OBVIOUS
  <2>1. CASE UNCHANGED vars
    BY <2>1 DEF QueueInv, TypeOK, OneActivePerKey, SlotsApart, FreeRows, StoppedIsIdle,
       Registered, CancelReachesHandler, KeysAgree, Held
  <2> QED BY <2>1, RequestsKeepQueueInv, RunnerKeepsQueueInv, WorkersKeepQueueInv DEF Next
<1> QED BY InitQueueInv, <1>1, PTL DEF Spec

\* At any moment one (kind, target) has at most one queued or running task, and
\* its unique key is set exactly while it is.
THEOREM DedupHolds == Spec => []OneActivePerKey
<1>1. QueueInv => OneActivePerKey
  BY DEF QueueInv
<1> QED BY QueueSafe, <1>1, PTL

\* Cancelling a task reaches its handler, wherever it falls.
THEOREM CancelIsSeen == Spec => []CancelReachesHandler
<1>1. QueueInv => CancelReachesHandler
  BY DEF QueueInv
<1> QED BY QueueSafe, <1>1, PTL

\* No claimed task is ever lost while the runner lives.
THEOREM NoTaskIsLost == Spec => []RunningIsHeld
<1>1. QueueInv => RunningIsHeld
  BY JobsAssumption DEF QueueInv, Held, SlotsApart, RunningIsHeld
<1> QED BY QueueSafe, <1>1, PTL

\* Two handlers of one key overlap only when one was told to stop.
THEOREM HandlersDoNotCompete == Spec => []OneLiveHandlerPerKey
<1>1. QueueInv => OneLiveHandlerPerKey
  <2> SUFFICES ASSUME QueueInv, NEW v \in Slots, NEW w \in Slots,
                      v # w, worker[v].pc = "handling", worker[w].pc = "handling",
                      worker[v].key = worker[w].key, v \notin ctxDone, w \notin ctxDone
               PROVE  FALSE
    BY DEF OneLiveHandlerPerKey
  <2>1. /\ worker[v].id \in TaskIds /\ worker[w].id \in TaskIds
        /\ row[worker[v].id].state = "running" /\ row[worker[w].id].state = "running"
    BY DEF QueueInv, TypeOK, SlotsApart, CancelReachesHandler
  <2>2. worker[v].id = worker[w].id
    BY <2>1 DEF QueueInv, OneActivePerKey, KeysAgree
  <2> QED BY <2>1, <2>2, JobsAssumption DEF QueueInv, SlotsApart
<1> QED BY QueueSafe, <1>1, PTL

\* Apart from Submit, a step changes the state of a row only if the row is
\* active, or deletes a finished one.
LEMMA RowSteps ==
    ASSUME QueueInv, [Next]_vars, NEW j \in TaskIds,
           ~ \E k \in Keys, s \in {second, second + 1} : Submit(k, j, s)
    PROVE  \/ row'[j].state = row[j].state
           \/ row[j].state \in Active
           \/ row[j].state \in Finished /\ row'[j].state = "pruned"
<1> USE DEF QueueInv
<1> HIDE DEF Worker
<1>0. row \in [TaskIds -> Row]
  BY DEF TypeOK
<1>1. CASE \E k \in Keys, i \in TaskIds, s \in {second, second + 1} : Submit(k, i, s)
  <2> PICK k \in Keys, i \in TaskIds, s \in {second, second + 1} : Submit(k, i, s)
    BY <1>1
  <2>1. i # j
    OBVIOUS
  <2> HIDE DEF Row, ActiveRows
  <2> QED BY <1>0, <2>1 DEF Submit
<1>2. CASE \E i \in TaskIds : Cancel(i) \/ BackoffElapses(i)
  <2> PICK i \in TaskIds : Cancel(i) \/ BackoffElapses(i)
    BY <1>2
  <2>1. CASE Cancel(i)
    BY <1>0, <2>1 DEF Cancel
  <2>2. CASE BackoffElapses(i)
    BY <1>0, <2>2 DEF BackoffElapses
  <2> QED BY <2>1, <2>2
<1>3. CASE \E w \in Slots, i \in TaskIds : Claim(w, i)
  BY <1>0, <1>3 DEF Claim
<1>4. CASE RunStart
  BY <1>0, <1>4 DEF RunStart, Recovered
<1>5. CASE PruneTick
  BY <1>0, <1>5 DEF PruneTick, Pruned, FinishedRows
<1>6. CASE \E w \in Slots : FinalizeShutdown(w) \/ FinalizeBusy(w)
  BY <1>0, <1>6 DEF FinalizeShutdown, FinalizeBusy, Requeued
<1>7. CASE \E w \in Slots : FinalizeDone(w)
  BY <1>0, <1>7 DEF FinalizeDone, Settled, Pruned, FinishedRows
<1>8. CASE UNCHANGED row
  BY <1>8
<1>9. ASSUME NEW w \in Slots, WorkerStep(w)
      PROVE  UNCHANGED row \/ FinalizeShutdown(w) \/ FinalizeBusy(w) \/ FinalizeDone(w)
  BY <1>9 DEF WorkerStep, Register, Recheck, Handle, FinalizeFault, Leave
<1> QED BY <1>1, <1>2, <1>3, <1>4, <1>5, <1>6, <1>7, <1>8, <1>9
        DEF Next, Timeout, RunnerFails, Shutdown, RunEnds, Crash

\* No step overwrites the verdict of a finished task.
THEOREM VerdictsAreFinal == Spec => VerdictIsFinal
<1>1. QueueInv /\ [Next]_vars =>
         [\A i \in TaskIds : row[i].state \in Finished \cup {"pruned"} =>
             row'[i].state \in {row[i].state, "pruned"}]_vars
  <2> SUFFICES ASSUME QueueInv, [Next]_vars, NEW i \in TaskIds,
                      row[i].state \in Finished \cup {"pruned"}
               PROVE  row'[i].state \in {row[i].state, "pruned"}
    OBVIOUS
  <2>1. ~ \E k \in Keys, s \in {second, second + 1} : Submit(k, i, s)
    BY DEF Submit
  <2> QED BY <2>1, RowSteps
<1> QED BY QueueSafe, <1>1, PTL DEF Spec, VerdictIsFinal

\* The number of queued and running tasks never exceeds the capacity.
THEOREM QueueIsBounded == Spec => []CapacityBound
<1> USE JobsAssumption
<1>0. /\ IsFiniteSet(ActiveRows) /\ IsFiniteSet(ActiveRows')
      /\ Cardinality(ActiveRows) \in Nat /\ Cardinality(ActiveRows') \in Nat
  <2>1. ActiveRows \subseteq TaskIds /\ ActiveRows' \subseteq TaskIds
    OBVIOUS
  <2> HIDE DEF ActiveRows
  <2> QED BY <2>1, FS_Subset, FS_CardinalityType
<1>1. Init => CapacityBound
  <2> SUFFICES ASSUME Init PROVE CapacityBound
    OBVIOUS
  <2>1. ActiveRows = {}
    BY DEF Init
  <2> HIDE DEF ActiveRows
  <2> QED BY <2>1, FS_EmptySet DEF CapacityBound
<1>2. CapacityBound /\ QueueInv /\ [Next]_vars => CapacityBound'
  <2> SUFFICES ASSUME CapacityBound, QueueInv, [Next]_vars PROVE CapacityBound'
    OBVIOUS
  <2>1. ASSUME NEW k \in Keys, NEW i \in TaskIds, NEW s \in {second, second + 1}, Submit(k, i, s)
        PROVE  CapacityBound'
    <3>1. ActiveRows' = ActiveRows \cup {i} /\ i \notin ActiveRows /\ Cardinality(ActiveRows) < Capacity
      BY <2>1 DEF Submit, QueueInv, TypeOK
    <3> HIDE DEF ActiveRows
    <3> QED BY <1>0, <3>1, FS_AddElement DEF CapacityBound
  <2>2. CASE ~ \E k \in Keys, i \in TaskIds, s \in {second, second + 1} : Submit(k, i, s)
    <3>1. ActiveRows' \subseteq ActiveRows
      BY <2>2, RowSteps
    <3> HIDE DEF ActiveRows
    <3> QED BY <1>0, <3>1, FS_Subset DEF CapacityBound
  <2> QED BY <2>1, <2>2
<1> QED BY <1>1, <1>2, QueueSafe, PTL DEF Spec

=============================================================================
