---------------------------- MODULE CryptoSweeps ----------------------------
(* Collecting tokens from the addresses orders were paid to.  The owner      *)
(* approves a sweep: per address one transfer of the tokens and, on an EVM   *)
(* network, a transfer of gas from the funding address before it when the    *)
(* address has none.  A worker claims the job with a lease, takes one item,  *)
(* signs and stores its next transaction, and only then sends it; later      *)
(* rounds look for the receipt and send the same bytes again.  A worker can  *)
(* die anywhere, its lease can run out while it waits for the network, and   *)
(* the network may lose, keep or execute what it was sent.  Amounts are the  *)
(* approved ones; a transfer of gas costs two units, any other one unit.     *)
EXTENDS Integers, Sequences, FiniteSets, FiniteSetsExt, Functions

CONSTANTS Sources,       \* addresses of orders
          Dry,           \* those that have no gas of their own
          SweepWorkers,  \* a worker, and those whose lease may have run out
          MaxSweeps,     \* bound on jobs
          FundingGas     \* gas at the funding address

ASSUME SweepsAssumption ==
  /\ IsFiniteSet(Sources) /\ Dry \subseteq Sources
  /\ IsFiniteSet(SweepWorkers)
  /\ MaxSweeps \in Nat /\ FundingGas \in Nat

VARIABLES sweeps,   \* crypto_sweep_jobs with their crypto_sweep_items
          signed,   \* crypto_chain_transactions and _solana_transactions
          fate,     \* what the network has done with each of them
          sweeping  \* what each worker is doing

SweepsVars == <<sweeps, signed, fate, sweeping>>
-----------------------------------------------------------------------------
Families == {"evm", "solana"}
SweepStates == {"queued", "running", "waiting", "complete", "failed",
                "fee_review_required", "cancelled"}
Ended == {"complete", "cancelled"}
NotAsked == "none"
ItemStates == {NotAsked, "queued", "gas_pending", "sweep_pending",
               "complete", "failed"}
Settled == {"confirmed", "reverted"}
Final == {"ok", "reverted"}
NoLease == "none"
Resting == <<>>
ASSUME SweepNamesAssumption == NoLease \notin SweepWorkers /\ "funding" \notin Sources

(* The type invariant of CryptoSweeps.                                     *)
SweepsTypeOK ==
  /\ sweeps \in Seq([family : Families, state : SweepStates,
                     lease : SweepWorkers \union {NoLease}, live : BOOLEAN,
                     dry : SUBSET Sources, items : [Sources -> ItemStates]])
  /\ signed \in Seq([job : 1..MaxSweeps, source : Sources,
                     kind : {"gas", "sweep"}, nonce : Nat,
                     state : {"signed", "pending", "expired_unknown"}
                               \union Settled])
  /\ fate \in Seq({"unseen", "mempool", "late", "lapsed"} \union Final)
  /\ Len(fate) = Len(signed)
  /\ \A w \in SweepWorkers : sweeping[w] # Resting =>
       /\ sweeping[w].job \in 1..Len(sweeps)
       /\ sweeping[w].step \in {"stage", "send", "post", "sent"}

SweepsInit ==
  /\ sweeps = <<>> /\ signed = <<>> /\ fate = <<>>
  /\ sweeping = [w \in SweepWorkers |-> Resting]
-----------------------------------------------------------------------------
(* Accounts of the network.                                                *)
Txs == 1..Len(signed)
From(t) == IF t.kind = "gas" THEN "funding" ELSE t.source
Evm(i) == sweeps[signed[i].job].family = "evm"
Sent(from) == {i \in Txs : Evm(i) /\ From(signed[i]) = from}
Cost(t) == IF t.kind = "gas" THEN 2 ELSE 1
CostOf(txs) == SumFunctionOnSet([i \in Txs |-> Cost(signed[i])], txs)

NetworkNonce(from) == Cardinality({i \in Sent(from) : fate[i] \in Final})
InMempool(from) == Cardinality({i \in Sent(from) : fate[i] = "mempool"})
Gas(from) ==
  LET spent == CostOf({i \in Sent(from) : fate[i] \in Final})
      got == Cardinality({i \in Txs : /\ signed[i].kind = "gas"
                                      /\ signed[i].source = from
                                      /\ fate[i] = "ok"})
      first == IF from = "funding" THEN FundingGas
               ELSE IF from \in Dry THEN 0 ELSE MaxSweeps
  IN first + got - spent

Stored(j, s, k) ==
  {i \in Txs : signed[i].job = j /\ signed[i].source = s /\ signed[i].kind = k}
TheTx(j, s, k) == CHOOSE i \in Stored(j, s, k) : TRUE

(* Every nonce is reserved in the table: the next one is past the network's *)
(* pending nonce, as the worker read it, and past every stored one.         *)
NonceOfNetwork(from, read) == read
NextNonce(from, read) ==
  LET taken == {signed[i].nonce : i \in Sent(from)}
  IN IF taken # {} /\ read <= Max(taken) THEN Max(taken) + 1 ELSE read

(* What stored transactions that are not settled will still take.          *)
ReservedGas(from) == CostOf({i \in Sent(from) : signed[i].state \notin Settled})

(* Signed transactions that have no final receipt yet.                     *)
OutstandingPending(j) ==
  {i \in Txs : signed[i].job = j /\ signed[i].state = "pending"}
Outstanding(j) ==
  {i \in Txs : signed[i].job = j /\ signed[i].state \notin Settled}
-----------------------------------------------------------------------------
(* validateCryptoSweepJob, which refuses to start a panel, or to resume a    *)
(* sweep under review, when the tables do not agree.  A cancelled job has    *)
(* no transaction left that could still move money, a complete one has moved *)
(* every item once, and no transfer is signed before its gas came.           *)
TransferStates(j, s, k) == {signed[i].state : i \in Stored(j, s, k)}
JobAgrees(j, s, states) ==
  /\ sweeps[j].state = "complete" => sweeps[j].items[s] \in {NotAsked, "complete"}
  /\ sweeps[j].state = "queued" => sweeps[j].items[s] \in {NotAsked, "queued"}
  /\ sweeps[j].state = "cancelled" => states \subseteq Settled

EvmItemAgrees(j, s) ==
  LET item == sweeps[j].items[s]
      gas == TransferStates(j, s, "gas")
      move == TransferStates(j, s, "sweep")
  IN /\ \A k \in {"gas", "sweep"} : Cardinality(Stored(j, s, k)) <= 1
     /\ move # {} => gas \subseteq {"confirmed"}
     /\ CASE item \in {NotAsked, "queued"} -> gas \union move = {}
          [] item = "gas_pending" ->
               gas # {} /\ "reverted" \notin gas /\ move = {}
          [] item = "sweep_pending" -> move # {} /\ move \subseteq {"signed", "pending"}
          [] item = "complete" -> move = {"confirmed"}
          [] item = "failed" -> "reverted" \in gas \union move
     /\ JobAgrees(j, s, gas \union move)

SolanaItemAgrees(j, s) ==
  LET item == sweeps[j].items[s]
      move == TransferStates(j, s, "sweep")
  IN /\ Stored(j, s, "gas") = {} /\ Cardinality(Stored(j, s, "sweep")) <= 1
     /\ CASE item \in {NotAsked, "queued"} -> move = {}
          [] item = "sweep_pending" ->
               move # {} /\ move \subseteq {"signed", "pending", "expired_unknown"}
          [] item = "complete" -> move = {"confirmed"}
          [] item = "failed" -> move = {"reverted"}
          [] OTHER -> FALSE
     /\ JobAgrees(j, s, move)

Agrees(j) ==
  /\ sweeps[j].state = "running" <=> sweeps[j].lease # NoLease
  /\ \A s \in Sources : IF sweeps[j].family = "evm" THEN EvmItemAgrees(j, s)
                         ELSE SolanaItemAgrees(j, s)
-----------------------------------------------------------------------------
(* The owner's operations.  A preview plans a transfer of gas for every      *)
(* address that has none; on Solana the funding address pays itself.  One    *)
(* sweep at a time of a wallet on a network, and one job of a preview; the   *)
(* funding address may have been emptied since the preview.                  *)
Topups(f, chosen) == {s \in chosen : f = "evm" /\ Gas(s) = 0}

CreateSweep(f, chosen) ==
  /\ Len(sweeps) < MaxSweeps /\ chosen # {}
  /\ \A j \in 1..Len(sweeps) : sweeps[j].family = f => sweeps[j].state \in Ended
  /\ sweeps' = Append(sweeps,
       [family |-> f, state |-> "queued", lease |-> NoLease, live |-> FALSE,
        dry |-> Topups(f, chosen),
        items |-> [s \in Sources |->
                     IF s \in chosen THEN "queued" ELSE NotAsked]])
  /\ UNCHANGED <<signed, fate, sweeping>>

Released(j, state) ==
  [sweeps EXCEPT ![j].state = state, ![j].lease = NoLease, ![j].live = FALSE]

CancelSweep(j) ==
  /\ sweeps[j].state \notin Ended /\ ~sweeps[j].live
  /\ Outstanding(j) = {}
  /\ sweeps' = Released(j, "cancelled")
  /\ UNCHANGED <<signed, fate, sweeping>>

(* Resuming a job under review asks for fees within the approved ones.       *)
RetrySweep(j) ==
  /\ sweeps[j].state \notin Ended \union {"failed"} /\ ~sweeps[j].live
  /\ sweeps[j].state = "fee_review_required" =>
       \A k \in 1..Len(sweeps) : Agrees(k)
  /\ sweeps' = Released(j, "waiting")
  /\ UNCHANGED <<signed, fate, sweeping>>
-----------------------------------------------------------------------------
(* A round of a worker.  It claims a job whose lease is free or has run    *)
(* out, and takes an item that is not complete; what it reads of the       *)
(* network is read before the transaction that uses it.                    *)
Doing(j, s, k, step) ==
  [job |-> j, source |-> s, kind |-> k, step |-> step]
Staging(j, s, k, read) ==
  [job |-> j, source |-> s, kind |-> k, step |-> "stage", nonce |-> read,
   gas |-> Gas(IF k = "gas" THEN "funding" ELSE s)]
Holds(w) ==
  LET v == sweeps[sweeping[w].job]
  IN v.state = "running" /\ v.lease = w /\ v.live

PendingNonce(k, s, read) ==
  LET from == IF k = "gas" THEN "funding" ELSE s
  IN read \in NetworkNonce(from)..(NetworkNonce(from) + InMempool(from))

(* cryptoSweepStep: the transfer when there is one, else the gas, else the *)
(* next transaction is signed.                                             *)
FirstStep(j, s, read) ==
  IF Stored(j, s, "sweep") # {} THEN Doing(j, s, "sweep", "send")
  ELSE IF Stored(j, s, "gas") # {} THEN Doing(j, s, "gas", "send")
  ELSE Staging(j, s, IF s \in sweeps[j].dry THEN "gas" ELSE "sweep", read)

Claimable(j) ==
  sweeps[j].state \in {"queued", "running", "waiting"} /\ ~sweeps[j].live

ClaimSweep(w, j, s, read) ==
  /\ sweeping[w] = Resting /\ Claimable(j)
  /\ sweeps[j].items[s] \notin {NotAsked, "complete", "failed"}
  /\ LET step == FirstStep(j, s, read)
     IN /\ IF step.step = "stage" THEN PendingNonce(step.kind, s, read)
           ELSE read = 0
        /\ sweeping' = [sweeping EXCEPT ![w] = step]
  /\ sweeps' = [sweeps EXCEPT ![j].state = "running", ![j].lease = w,
                              ![j].live = TRUE]
  /\ UNCHANGED <<signed, fate>>

(* A round that finds every item complete ends the job, one that meets a   *)
(* failed item leaves it failed.                                           *)
Complete(j) ==
  \A s \in Sources : sweeps[j].items[s] \in {NotAsked, "complete"}
EndSweep(j) ==
  /\ Claimable(j)
  /\ Complete(j) \/ \E s \in Sources : sweeps[j].items[s] = "failed"
  /\ sweeps' = Released(j, IF Complete(j) THEN "complete" ELSE "failed")
  /\ UNCHANGED <<signed, fate, sweeping>>

LeaseEnds(j) ==
  /\ sweeps[j].live
  /\ sweeps' = [sweeps EXCEPT ![j].live = FALSE]
  /\ UNCHANGED <<signed, fate, sweeping>>

(* The end of a round: only the holder of the token changes the job.       *)
Finish(w, state, vs) ==
  /\ sweeping' = [sweeping EXCEPT ![w] = Resting]
  /\ sweeps' = IF vs[sweeping[w].job].lease # w THEN vs
               ELSE [vs EXCEPT ![sweeping[w].job].state = state,
                               ![sweeping[w].job].lease = NoLease,
                               ![sweeping[w].job].live = FALSE]

(* cryptoStageTransfer: under the wallet's lock and the lease.  A stored    *)
(* transaction is never signed again.                                       *)
PendingItem(kind) == IF kind = "gas" THEN "gas_pending" ELSE "sweep_pending"
Store(d, t, item) ==
  IF Stored(d.job, d.source, d.kind) # {} THEN UNCHANGED <<signed, fate, sweeps>>
  ELSE /\ signed' = Append(signed, t)
       /\ fate' = Append(fate, "unseen")
       /\ sweeps' = [sweeps EXCEPT ![d.job].items[d.source] = item]

TurnsTo(w, step) ==
  sweeping' = [sweeping EXCEPT ![w] = Doing(@.job, @.source, @.kind, step)]
MayStage(w, family) ==
  /\ sweeping[w] # Resting /\ sweeping[w].step = "stage"
  /\ sweeps[sweeping[w].job].family = family

SignEvm(w) ==
  LET d == sweeping[w]
      from == IF d.kind = "gas" THEN "funding" ELSE d.source
      t == [job |-> d.job, source |-> d.source, kind |-> d.kind,
            nonce |-> NextNonce(from, d.nonce), state |-> "signed"]
  IN /\ MayStage(w, "evm")
     /\ IF Holds(w) /\ Cost(t) + ReservedGas(from) <= d.gas
        THEN Store(d, t, PendingItem(d.kind)) /\ TurnsTo(w, "send")
        ELSE Finish(w, "waiting", sweeps) /\ UNCHANGED <<signed, fate>>

SignSolana(w) ==
  LET d == sweeping[w]
      t == [job |-> d.job, source |-> d.source, kind |-> d.kind,
            nonce |-> 0, state |-> "signed"]
  IN /\ MayStage(w, "solana")
     /\ IF Holds(w)
        THEN Store(d, t, "sweep_pending") /\ TurnsTo(w, "send")
        ELSE Finish(w, "waiting", sweeps) /\ UNCHANGED <<signed, fate>>

(* Fees above the approved ones, or a check of the network that fails.      *)
RefuseToSign(w, state) ==
  /\ sweeping[w] # Resting /\ sweeping[w].step = "stage"
  /\ state \in {"waiting", "fee_review_required"}
  /\ Finish(w, state, sweeps)
  /\ UNCHANGED <<signed, fate>>

(* cryptoProcessTransaction and cryptoProcessSolanaTransfer work on a       *)
(* stored transaction: on one that is settled there is nothing to do, ...   *)
Handled(w) == TheTx(sweeping[w].job, sweeping[w].source, sweeping[w].kind)
MaySend(w, step) == sweeping[w] # Resting /\ sweeping[w].step = step
Marked(i, state) == [signed EXCEPT ![i].state = state]

GoOn(w, read) ==
  /\ PendingNonce("sweep", sweeping[w].source, read)
  /\ sweeping' = [sweeping EXCEPT
       ![w] = Staging(sweeping[w].job, sweeping[w].source, "sweep", read)]

Known(w, read) ==
  /\ MaySend(w, "send")
  /\ LET i == Handled(w)
     IN /\ signed[i].state \in Settled
        /\ IF signed[i].state = "confirmed" /\ signed[i].kind = "gas"
           THEN GoOn(w, read) /\ UNCHANGED sweeps
           ELSE /\ read = 0
                /\ Finish(w, IF signed[i].state = "confirmed" THEN "waiting"
                             ELSE "failed", sweeps)
  /\ UNCHANGED <<signed, fate>>

(* ... of one the network has executed the receipt is stored, and gas that  *)
(* came lets the round go on, ...                                           *)
Executed(w) ==
  MaySend(w, "send") /\ signed[Handled(w)].state \notin Settled
                     /\ fate[Handled(w)] \in Final
WithItem(w, item) ==
  [sweeps EXCEPT ![sweeping[w].job].items[sweeping[w].source] = item]

Unrecorded(w) ==
  /\ Executed(w) /\ ~Holds(w)
  /\ Finish(w, "waiting", sweeps) /\ UNCHANGED <<signed, fate>>

RecordFailure(w) ==
  /\ Executed(w) /\ Holds(w) /\ fate[Handled(w)] = "reverted"
  /\ signed' = Marked(Handled(w), "reverted")
  /\ Finish(w, "failed", WithItem(w, "failed"))
  /\ UNCHANGED fate

RecordGas(w, read) ==
  /\ Executed(w) /\ Holds(w) /\ fate[Handled(w)] = "ok"
  /\ sweeping[w].kind = "gas"
  /\ signed' = Marked(Handled(w), "confirmed")
  /\ GoOn(w, read)
  /\ UNCHANGED <<sweeps, fate>>

RecordTransfer(w) ==
  /\ Executed(w) /\ Holds(w) /\ fate[Handled(w)] = "ok"
  /\ sweeping[w].kind = "sweep"
  /\ signed' = Marked(Handled(w), "confirmed")
  /\ Finish(w, "waiting", WithItem(w, "complete"))
  /\ UNCHANGED fate

(* ... and the bytes of one that is not there are sent.  On an EVM network  *)
(* the lease is checked after that, and a failed call is marked like one     *)
(* that succeeded.  On Solana it is checked before, in a transaction of its  *)
(* own, and can run out before the bytes go; a call that fails, though the   *)
(* network may have got them, leaves the row as it was.                      *)
MayBroadcast(w, family) ==
  /\ MaySend(w, "send")
  /\ LET i == Handled(w)
     IN /\ sweeps[signed[i].job].family = family
        /\ signed[i].state \notin Settled \union {"expired_unknown"}
        /\ fate[i] \in {"unseen", "mempool"}
  /\ UNCHANGED signed
Broadcast(w, heard) ==
  fate' = IF heard /\ fate[Handled(w)] = "unseen"
          THEN [fate EXCEPT ![Handled(w)] = "mempool"] ELSE fate

BroadcastEvm(w, heard) ==
  /\ MayBroadcast(w, "evm") /\ Broadcast(w, heard)
  /\ TurnsTo(w, "sent") /\ UNCHANGED sweeps

CheckSolana(w) ==
  /\ MayBroadcast(w, "solana") /\ UNCHANGED fate
  /\ IF Holds(w) THEN TurnsTo(w, "post") /\ UNCHANGED sweeps
     ELSE Finish(w, "waiting", sweeps)

BroadcastSolana(w, heard, answered) ==
  /\ answered => heard
  /\ MaySend(w, "post") /\ Broadcast(w, heard)
  /\ IF answered THEN TurnsTo(w, "sent") /\ UNCHANGED sweeps
     ELSE Finish(w, "waiting", sweeps)
  /\ UNCHANGED signed

MarkSent(w) ==
  /\ MaySend(w, "sent")
  /\ LET i == Handled(w)
         may == IF Evm(i) THEN Holds(w) ELSE signed[i].state = "signed"
     IN signed' = IF may THEN Marked(i, "pending") ELSE signed
  /\ Finish(w, "waiting", sweeps)
  /\ UNCHANGED fate

(* A Solana transaction past its last valid height is never signed again;   *)
(* its fate stays unknown until the network shows it final after all.       *)
MarkExpired(w) ==
  /\ MaySend(w, "send")
  /\ LET i == Handled(w)
     IN /\ ~Evm(i) /\ signed[i].state \notin Settled /\ fate[i] \in {"late", "lapsed"}
        /\ signed' = IF Holds(w) THEN Marked(i, "expired_unknown") ELSE signed
  /\ Finish(w, "waiting", sweeps)
  /\ UNCHANGED fate

(* The worker dies; its lease is left to run out.                          *)
DropSweep(w) ==
  /\ sweeping[w] # Resting
  /\ sweeping' = [sweeping EXCEPT ![w] = Resting]
  /\ UNCHANGED <<sweeps, signed, fate>>
-----------------------------------------------------------------------------
(* The network executes in the order of nonces what can be paid.  What it   *)
(* holds when the last valid height passes may be in a block already, and   *)
(* become final late.                                                       *)
Execute(i, outcome) ==
  /\ i \in Txs /\ fate[i] \in {"mempool", "late"} /\ outcome \in Final
  /\ Evm(i) => /\ signed[i].nonce = NetworkNonce(From(signed[i]))
               /\ Cost(signed[i]) <= Gas(From(signed[i]))
  /\ signed[i].kind = "gas" => outcome = "ok"
  /\ fate' = [fate EXCEPT ![i] = outcome]
  /\ UNCHANGED <<sweeps, signed, sweeping>>

Forget(i) ==
  /\ i \in Txs /\ fate[i] = "mempool"
  /\ fate' = [fate EXCEPT ![i] = "unseen"]
  /\ UNCHANGED <<sweeps, signed, sweeping>>

Lapse(i) ==
  /\ i \in Txs /\ ~Evm(i) /\ fate[i] \in {"unseen", "mempool"}
  /\ fate' = [fate EXCEPT ![i] = IF @ = "mempool" THEN "late" ELSE "lapsed"]
  /\ UNCHANGED <<sweeps, signed, sweeping>>

SweepsNext ==
  \/ \E f \in Families, c \in SUBSET Sources : CreateSweep(f, c)
  \/ \E j \in 1..Len(sweeps) :
       CancelSweep(j) \/ RetrySweep(j) \/ LeaseEnds(j) \/ EndSweep(j)
  \/ \E w \in SweepWorkers :
       \/ \E j \in 1..Len(sweeps), s \in Sources, n \in 0..Len(signed) :
            ClaimSweep(w, j, s, n)
       \/ SignEvm(w) \/ SignSolana(w) \/ MarkSent(w) \/ MarkExpired(w)
       \/ RefuseToSign(w, "waiting") \/ RefuseToSign(w, "fee_review_required")
       \/ RecordFailure(w) \/ RecordTransfer(w) \/ Unrecorded(w) \/ DropSweep(w)
       \/ \E n \in 0..Len(signed) : Known(w, n) \/ RecordGas(w, n)
       \/ CheckSolana(w)
       \/ \E heard, answered \in BOOLEAN :
            BroadcastEvm(w, heard) \/ BroadcastSolana(w, heard, answered)
  \/ \E i \in Txs : Execute(i, "ok") \/ Execute(i, "reverted") \/ Forget(i) \/ Lapse(i)

SweepsSpec == SweepsInit /\ [][SweepsNext]_SweepsVars
-----------------------------------------------------------------------------
(* Whatever the workers, their leases and the network do, what is signed   *)
(* can still be executed: from each address the transactions the network   *)
(* has not executed have consecutive nonces that start at its own, and it  *)
(* can pay for all of them.                                                *)
SignedCanExecute ==
  \A from \in Sources \union {"funding"} :
    LET waiting == {i \in Sent(from) : fate[i] \notin Final}
    IN /\ {signed[i].nonce : i \in waiting} =
            {NetworkNonce(from) + k : k \in 0..Cardinality(waiting) - 1}
       /\ CostOf(waiting) <= Gas(from)

(* No crash, lost lease or answer of the network leaves tables that a panel  *)
(* would refuse to start with.                                               *)
SweepsAgree == \A j \in 1..Len(sweeps) : Agrees(j)
=============================================================================
