# Guangyue panel: specifications

The panel (`backend/`, Go) sells proxy subscriptions: members hold a wallet, buy
plans, and are served by the panel's own node and by business sites that fetch
their configuration and report usage. This directory holds TLA+ models of its
logic, the TLC instances that check them, and TLAPS proofs. Paths below are
under `backend/internal/`; `cp/` is `controlplane/`.

## The system

One process per site. HTTP handlers and the worker loop share `App.mu`
(`cp/main.go`); payment checkouts, callbacks and refunds do not take it and meet
the rest in the database. Everything durable is in one SQL database.

| Part | State | Operations | What is hard | What makes it correct |
|---|---|---|---|---|
| Task queue (`jobs/manager.go`) | `tasks` rows; the runner, its goroutines, the map of cancel functions | Submit, Cancel, Recover, claim, execute, Prune | cancellation between any two steps of a worker; crashes; busy retries | one active task per key, every claimed task is finalised, verdicts are final |
| Orders and entitlements (`cp/commerce_*.go`, `cp/entitlement_*.go`, `cp/node_policy.go`) | `commerce_orders`, refund requests, the member's document (entitlement, expiry, paused plans, meter) | create, confirm, cancel, request/approve/reject a refund, the worker's fulfilment and expiry, pausing and restoring, quota periods | the clock, sites that do not answer, an owner who edits the same member | paid service is served exactly once and for its time; a member is stopped while he is switched |
| Wallet (`cp/commerce_types.go`) | `wallet_accounts`, `money_transactions` | hold, release, capture, refund, adjust, redeem | retries, failures halfway | no cent made or lost; frozen money is owed and moves on |
| Online payments (`cp/payment_*.go`) | attempts, receipts, refunds, events | checkout, callback, reconcile, credit, refund | callbacks late, repeated, racing cancellation and expiry; crashes; gateways that do not answer | each transaction is used once; no service without money, no refund of money in use |
| Business sites (`cp/business_*.go`) | per site: the quota granted, issued, sent and used; at the site its policy, lease and counters | report, charge, acknowledge, snapshot; adopt, fail, restart | lost and late messages, a site that stops half-way through a policy, traffic of a closed period | sites together never hold more than the member has left; traffic is charged once |
| Mounted child panels (`cp/mount_*.go`, `coreprocess/`) | the mount's record, the child's binding, both cores' limits; the file of leases and the wrapper that reads it | push, apply, answer; list leases, watch, stop the core | lost, late and doubled requests; a panel that dies while its core serves | no period over the quota; a core ends with the lease |
| Crypto prices (`cp/crypto_rates.go`, `crypto_payments.go`, `crypto_defaults.go`) | settings with a revision | edit, setup, lookup, invoice | four readers that commit later | no invoice below the price, or at one known to be unsafe |
| Crypto invoices (`cp/crypto_invoices.go`, `crypto_scanner.go`, `crypto_solana_scanner.go`) | invoices with cursors, credits, observations, frozen networks | choose, scan, book, settle, cancel | forks, late scans, money at an old address | what is paid is what the final chain says |
| Crypto wallets (`cp/crypto_wallet*.go`) | wallets, addresses, history of deleted ones, backups | create, import, export, restore, delete | old backups, another panel | an address goes to one customer |
| Crypto sweeps (`cp/crypto_sweep*.go`) | jobs with leases, items, signed transactions with nonces | approve, claim, sign, send, confirm | crashes between signing and sending, two workers | what is signed can execute; jobs agree with the chain |
| Accounts (`cp/email_auth.go`, `registration.go`, `http*.go`, `store.go`) | members' rows, password hashes, sessions, mailed links | register, bind, reset, sign in, change, edit, remove | requests that read and write apart; records saved whole | no link takes effect after what it rests on has changed |
| Exits (`cp/pool.go`, `import*.go`, `public_pool.go`, `http_nodes.go`, `source_delete.go`) | resources, nodes with a copy of their exit, import sources, the public pool | bind, import, refresh, screen, delete | probing and fetching outside the lock; a core that refuses | a node's exit exists and is the one it copied |
| Usage meter (`cp/usage_meter.go`) | checkpoints, periods | account, weigh, cut off | counters that restart, periods that turn | no byte lost or counted twice |
| Maintenance gate (`cp/maintenance_gate.go`) | the fence's file, counters of requests and workers, worker generations | raise, lower, ask; count, check, work, leave | four reads one after the other while requests and workers come and go | nothing writes once the panel has called itself frozen |
| Outbox (`cp/email_delivery.go`, `email_smtp.go`) | events of sales, rows with leases and tries | capture, claim, hand over, mark, try again | slow workers, changed addresses, lost answers | a notice reaches its owner's address or nobody |
| Restore (`cp/backup.go`, `persistence/snapshot.go`) | the state directory, the database, the directory of what was moved aside | snapshot, copy, move aside, move in, undo | any step fails, or the program is killed | the backup whole, or what was found |
| Support (`cp/support*.go`) | tickets | reply, close | stale pages | — |
| Runtime lease, cache (`persistence/`, `cache/`) | lease row, entries | acquire, renew, lose | two processes, clocks | one writer |
| Gateway (`ingressgateway/`) | routes, connections | reload, supervise | failure halfway through a reload | the running configuration is the saved one |
| Quality, subscriptions, GeoIP, frontend, deployment | — | measuring, formatting, presentation | — | not specified |

Interactions: an order's confirmation and its refund stop the member
(`Meter.PendingReset`), and the switch to the new plan waits until every site
has given back the old grant. A receipt confirms its order through the same
handler as the wallet (`confirmExternalOrder`). Quota periods use the same flag
and the same sites as orders, in another worker step. Handlers that edit a
member refuse while an order of his is open (`commercePendingExcept`). A mounted
child charges through the same code as a site (`acceptBusinessUsage`). A scanned
invoice becomes a receipt of `Payments`. The parts with a module of their own
below `Payments` share no state with each other; what they hand over is an input
of the other (a snapshot given back, a receipt).

## Modules

`Jobs` — the queue. `row` is the table, `worker[w]` the point a goroutine of
`execute` has reached, `cancels` the map, `ctxDone` the contexts that ended.
Each critical section of `Manager.mu` and each SQL statement is one action:
`Claim`, `Register` (the map), `Recheck` (the second read, which may fail), `Handle`,
the three ways of finalising (`FinalizeShutdown`, `FinalizeBusy`, `FinalizeDone`;
with `FinalizeFault` when the write fails), `Leave` (the deferred delete). Rows
survive `Crash`; the rest does not.

`Commerce` — one member's orders, wallet, entitlement chain and sites. Every
handler, and every order the worker looks at, runs under `App.mu` and commits
in one transaction, so it is one action: `CreateOrder`, `Confirm`,
`CancelPending`, `CancelProvisioning`, `RequestRefund`, `CloseRequest`,
`RefundCurrent`, `RefundQueued` (the branches of `orderAction`), `ExpireOrder`,
`FailProvisioning`, `FulfilPurchase`, `FulfilRenewal`, `FulfilRefund` (of
`commerceWork` and `fulfilOrder`), `StopRunOut`, `RestorePreviousPlan`,
`StartPeriod` (of `advanceQuotaPeriods`), `SetEnabled`, `AssignPlan`,
`ExtendByOwner`, `ResetByOwner` (the owner), `SendSnapshot`, `Acknowledge` (a
site). `expected` is `userCommerceVersion`; `issued[s]` are the periods of quota
a site may still spend, which the panel cannot see; `sent[s]` is what it
believes. Members share no state, so one is modelled. Not deterministic in the
model: the amount of a refund (any part of the price, `refundableOrderAmount`),
the moment a quota period ends, a refusal by `validateEntitlementSites`.

`Wallet` — what the balance promises about each order's money, seen from
outside: frozen once, then given back, or spent and refunded at most once and
at most in full, within the limits. `Commerce` implements it under the mapping
`MoneyOf` (`WalletPromise`).

`Payments` — money from outside. Steps under `App.mu` that read, then write in
a transaction that looks again, are two actions with `mu` in between
(`BeginConfirm`/`Confirm`, `BeginCancel`/`Cancel`, `BeginExpire`/`EndAttempt`/
`PersistExpired`), since checkouts (`ReserveOrder`, `Checkout`), callbacks
(`Deliver`/`Record`) and refunds (`RequestRefund`, `ClaimRefund`,
`RefundAnswered`, `RefundNotice`) do not take the lock. A callback carries the
time it was received (`hook`). `Reconcile` is what a receipt turns into:
`Activate` its order, `Apply`, `Credit` a top-up, or `RefuseOver`; `RefuseMember`
has reasons outside the module (a disabled account, another entitlement, a full
wallet). The gateway (`Pay`, `GatewayRefund`, `GatewaySettles`; `bank`) is
modelled from how the code uses it: an idempotency key gives one refund per
refund row, and notices may be late or repeated. Of the entitlement only the
order's state is here; its service is `Commerce`. Read before the transaction,
the amount of `RequestRefund` is taken in one step with it.

`SiteGrants` — one member, his quota and the sites that pull it. `site[s]` is the
panel's record (`BusinessSite`: what is granted, the largest ceiling issued, the
last one sent, counters), `agent[s]` the site itself (its policy and quota, its
lease, what it measured and what was acknowledged), `wire[s]` the one report or
answer under way. `AcceptReport` is `businessSync` whole: `Accounted` and
`Charged` (with traffic of closed periods, `Late`), the release when the policy
sent was `Acknowledges`, and the next `Snapshot`. The traffic is committed before the
policy is made: `LeaveUnanswered` is the panel that stops in between, or cannot make
one. The site's `AdoptPolicy`, `KeepPolicy`, `RejectPolicy` and `FailPolicy` are
`applyBusinessSnapshot`: the acknowledgement is saved first, a site may collect and
then refuse the policy, and a failure later on can leave the new identities with the
old revision (`agent.torn`). A request given up by the site is handled before its
next one or never.

`Mounts` — the same quota pushed to a mounted child under a lock: `PushMount`
reserves, lowers its own core and sends; `ApplyRequest` is `applyMountSync` and
may happen late or again; `TakeResult` settles. `hostLimit` and `childCore` are what
the two cores enforce. `CoreLeases` — how the child's lease reaches its core:
`ListLeases`, `WriteUsers`, `RestartCore`, and the wrapper
that prepares, starts, polls and stops it; panel, wrapper and core die separately.

`Exits` — resources of the pool, nodes with a resolved copy of their exit, import
sources and the public pool. Saves run under the control lock and are one action;
a probe (`probing`), a fetch or a screening (`heavy`) spans several.

`CryptoRates` — `work[k]` is what an edit, a setup, a lookup or an invoice has read
and computed; it commits only while the revision is the one it read.
`CryptoInvoices` — `chain` with forks and numbered transfers, the newest final block, `scans[i]` what a
worker has read for an invoice and not yet booked; `BookScan` is `applyCryptoScan`
with `settleCryptoInvoice`. `CryptoWallets` — two panels, the wallets and addresses
in their databases, the history of deleted ones, and the backups that travel
between them. `CryptoSweeps` — jobs with leases, `signed` transactions in the
database and their `fate` on the network, `sweeping[w]` how far a worker is. On
Solana the lease is checked in a transaction of its own (`CheckSolana`), the bytes are
sent afterwards (`BroadcastSolana`), and only a call that succeeded marks the row; on
an EVM network a call that failed marks it too. A Solana transaction whose last valid
height has passed may be in a block already (fate `late`): marked
`expired_unknown`, it can still be recorded as confirmed or reverted.

`Accounts` — rows, hashes, sessions and mailed links; `asked[v]` is what a request
has read and not yet written, `writer` the record a handler under `a.mu` will save.

`MaintenanceGate` — the fence is a file and nothing is locked: a worker (`Launch`,
`EnterWork`, `CheckFence`) and a request (`Arrive`, `Admit`) are counted before
they look at it, and `/api/health` reads it, the two counters and the two marks
of background jobs in five actions (`AskFrozen` … `Acknowledge`). `group` is
where `maintenanceWorkerGroup` stands between two generations. `acknowledged`
notes that the answer "frozen" was given, until the fence is lowered. A worker that
found the fence up stays out until the next generation begins; when the fence falls
before the tenth of a second at which the group looks again, while another worker
still works, that is after the next pause (`cp/maintenance_gate.go:92,108-115`).

`Outbox` — mails of sales and links. `CaptureSale` turns an event into a row if the
address is still the one bound when it happened (`EntitledInbox`); `ClaimMail`
tidies the table and takes a lease; `ReadClaimed`, `HandOver` and `MarkMail` are
the rest of `processEmail`, whose SMTP part is outside any transaction. `handed` is
what the mail server accepted. Leases and delays lapse at any time.

`Restores` — `restoreBackup` after staging, one rename at a time: `TakeSnapshot` and
`CopyIn` for the database of a Pro panel, `MoveAside` and `MoveIn` for each file,
and the way back (`RemoveInstalled`, `MoveBack`, `CopyBack`), each step of which may
fail without stopping the others. `before[k]` is what run `k` found.

`MCSubsystems` explores these twelve, one `subject` at a time.
`MCJobs`, `MCCommerce`, `MCPayments` give the constants values. Definitions
commented "Fault" or "Mutant" are plausible bugs kept beside what they break;
no action uses them.

## What the runs check

| Run | Question | Bounds |
|---|---|---|
| `jobs_interleavings` | cancellation, retry, recovery, pruning and resubmission at every boundary | 2 tasks, 2 keys, 2 workers, 2 attempts, 2 crashes or faults |
| `jobs_progress` | every queued task gets a verdict | 2 tasks, 1 worker, 1 crash |
| `commerce_safety` | wallet, ledger, orders, the stopped member and the sites' quota stay in step; `Wallet` is implemented | 2 orders, 2 priced plans (1 and 2 days), 1 code, 1 site, time 1..4, 1 edit |
| `commerce_chain` | each order serves once, service time is conserved, renewals extend their plan | 3 free orders, 2 plans, 1 adjustment, purchase limit 2, time 1..4 |
| `commerce_progress` | frozen money moves with sites offline for ever; refunds and switches end with sites that come back, unless the wallet is full | 1 order of 2 priced plans (1 and 2 days), 3 adjustments (one pays for any plan, one fills the wallet to its limit of 3, one makes room), 2 edits, 1 site, time 1..3 |
| `commerce_renewal_revives` | finding below | 2 free orders |
| `payments_orders` | service is paid, applied money is in use, refunds follow service | 1 order, 2 transactions (1 Stripe, 1 by hand), amounts 1 and 2 for a price of 2, 2 callbacks in flight, time 0..2 |
| `payments_progress` | a top-up is credited once; receipts and refunds come to an end | 1 order, 1 top-up, 1 transaction, 1 crash |
| `subsystems` | quota at sites and mounts, leases of cores, exits, crypto prices, invoices, wallets and sweeps, mailed links, mails, the maintenance gate, restores | see below |
| `payments_expired`, `payments_early_refund`, `payments_partial` | findings below | 1 order, 1 transaction |

`subsystems` picks a subject at first and leaves the others empty, so its states are
the sum of twelve instances and not their product. What each is checked for, and
its bounds:

| Subject | Properties | Bounds | Larger instances that hold |
|---|---|---|---|
| `SiteGrants` | `ReservationCoversSite` (the panel reserves at least what a site may still use, unless the site has stopped half-way), `IssuedWithinQuota` (a new grant fits into what others leave), `TrafficIsBilledOnce` | 2 sites, quota 1, 1 unit of traffic, 2 periods, 1 change or failure | 2 changes or failures |
| `Mounts` | `PeriodWithinQuota` | quota 2, 2 periods, 2 requests, 1 edit | quota 3, 4 requests, 2 edits |
| `CoreLeases` | `LeaseEndsService` | 1 user, lease and grace 1, time 3, 1 revision | 2 revisions; 2 users, time 7 |
| `Exits` | `ExitsInUse` | 1 own and 1 public resource, 2 sources, 1 node | 2 addresses, 2 own resources |
| `CryptoRates` | `InvoicesArePricedSafely` | 2 prices (1 above the bounds), 2 requests at work, 3 revisions, 2 moments | 3 prices; 4 moments |
| `CryptoInvoices` | `DecidedByTheChain`, `StrayMoneyIsReviewed` | 2 invoices, 3 blocks, 1 transfer, 1 fork, final blocks may break | — |
| `CryptoWallets` | `IndexGivenOnce`, `WalletsIntact` | 2 panels, 2 wallets, 2 addresses, 1 backup, EVM | 4 addresses; both networks |
| `CryptoSweeps` | `SignedCanExecute`, `SweepsAgree` | 2 addresses without gas, 2 workers, 1 job | — |
| `Accounts` | `SpentLinksWereCurrent` | 1 member, 1 mailbox, 2 links, 2 visitors, 3 requests, 2 passwords | 2 mailboxes; 6 requests; 2 members |
| `MaintenanceGate` | `FrozenIsQuiet` | 2 workers, 2 requests | — |
| `Outbox` | `MailsReachTheirOwner` | 1 mail, 2 addresses, 2 workers, 3 tries, 1 retry by the owner | — |
| `Restores` | `RestoreIsWhole` | 2 runs, 2 kept files and a log | 3 runs |

`TypesOK` is the twelve type invariants; that of `CryptoInvoices` also says that no
scan's cursor passes the final chain. Interchangeable values (sites, sources,
workers, links, visitors, transfers' addresses) are symmetric; no property of
this run is a liveness property. `MaxTraffic`, `MaxUpsets`, `MaxEdits`,
`LastSequence`, `LastCycle`, `LastPeriod`, `MaxCoreTime`, `MaxLeaseRevisions`,
`LastMoment`, `MaxRevisions`, `MaxWorking`, `MaxInvoices`, `LastBlock`,
`MaxTransfers`, `MaxForks`, `IndexLimit`, `MaxWallets`, `MaxBackups`, `MaxSkipped`,
`MaxSweeps`, `MaxPasswords`, `MaxRequests`, `MaxRounds` and `MaxRestores` are guards of what they count. Two of
everything is what these hazards need: a site that still holds what another is
given, a worker that is late and one that took over, a wallet before and after
its deletion, a link and the change that overtakes it. `MaxTries` is the code's own
limit of five, at three.

Why the others are enough to be interesting: two tasks and two workers are what a key
needs to be claimed, cancelled, freed and claimed again; three orders are what a
chain needs to be two deep, with a renewal or a refund in it (they are free, since
money decides nothing about places and days; `commerce_safety` has the prices); one
order is what progress needs, since a member has one open order at a time
(`OneOrderAtATime`) and a plan the owner assigned is what his order pauses and
restores; one site is what a
switch waits for, since sites do not see each other; two transactions are what a
double payment needs. `Horizon` ends the clock and `MaxInterventions`, `MaxHooks`
and `MaxCrashes` the rest: they are guards of the actions they bound and of
nothing else. `CreateOrder` also leaves room before the horizon for the order's
two deadlines, so that no order is stuck because time ran out.
Each instance really stops (all tasks are pruned, time is over), so deadlock is
not checked.

Fairness. `Jobs`: the supervisor restarts the process, the claim loop wakes at
least every three seconds, a handler returns once its three-minute context is
done. `BackoffElapses` takes place only when no worker holds the task: the
two-second back-off outlasts the deferred delete. `Commerce`: the worker ticks
every five seconds and time passes (`Fairness`); sites answer only under
`SiteFairness`, which is the premise of `RefundIsPaid` and `ResetEnds` and not of
`FrozenMoneyMoves`. The first two except the one state in which the code really
tries for ever: a wallet that has no room for the refund from some moment on
(`HasNoRoom`, finding 18). The run fills its wallet so, and clears it again; the same
three properties hold of two orders without the owner's edits (208,036 states).
`Payments`: the payment worker looks at every verified
receipt again and again (strong fairness, since others hold `App.mu` in
between), `App.mu` is always given back, a refund is retried every minute and
some retry is answered (`RefundFairness`). `RefundGetsVerdict` is checked with one
price, since amounts that differ never end (finding below).

## Where code and documents disagree

1. Refunding a renewal restores an absolute expiry (`cp/commerce_fulfilment.go:319`)
   and revives a purchase refunded before it: `commerce_renewal_revives`. For the
   same reason a renewal's refund also takes the days its plan was paused, when
   the plan was paused and restored in between (no run).
2. An order can expire although its payment was recorded in time, between the
   worker's look at the attempt and its writes: `payments_expired`.
3. A crash between an order's activation and the mark on its receipt lets the
   money be refunded before the entitlement is withdrawn: `payments_early_refund`.
4. A partial refund asks Stripe for the whole receipt and never matches its
   answer: `payments_partial`.
5. A payment of the wrong amount is refunded by the order's price
   (`cp/payment_refunds.go:96`), where docs/COMMERCE.md:51 keeps the real receipt
   and refunds it (no run).

Met while writing the newer modules. The first three are reachable in them and are
left out of a property by name; none has a run of its own.

6. A site that fails between its new identities and its new revision
   (`cp/business_agent.go:498-539`), and is then sent a policy equal to the one it
   had, acknowledges it with the wrong identities, and the panel releases what it
   reserved (`cp/business_quota.go:386-417`); `cp/business_api.go:289-290` keeps
   "accounting reservations until the last issued authorization is acknowledged".
   `ReservationCoversSite` leaves `torn` sites out.
7. A member granted in an answer that was lost, and then withdrawn, cannot be in the
   site's report: every report is refused as "incomplete acknowledged traffic
   report" (`cp/business_quota.go:402-405`), until he is granted again.
8. The wrapper of a core knows nothing of an identity its file never permitted and
   the core admitted all the same: by the retry of `cp/reality_sync.go:75-82`, or
   paused and allowed again within one revision and one poll. `LeaseEndsService`
   leaves them out (`untold`).
9. `Store.save` writes the password of a record read earlier (`cp/store.go:202`), and
   a reset by mail does not take `a.mu`: a save of that member that began before
   (an edit, the quota worker, a mount) undoes the reset.
10. A sign-in that compared the old password inserts its session after a reset has
   ended them (`cp/http.go:163-176`), where docs/EMAIL.md:39 and USER_GUIDE.md:41
   end all old sessions.
11. A plan that is restored is not charged for what sites report of its earlier
   time (`cp/commerce_fulfilment.go:344-357`, `cp/node_policy.go:55-98`,
   `cp/business_meter.go:96`; `domain/entitlement.go:54-58` says otherwise).
12. A sweep that fails or waits for a review of its fee leaves its other signed
   transactions to themselves; docs/CRYPTO_TREASURY.md:54 follows them all.
13. Saving a node without `exit_id` adopts a public resource
   (`cp/http_nodes.go:226-233`). A later public cycle removes it, and the next start
   of the panel refuses the dangling `exit_id` (`cmd` start-up, `cp/main.go:187`),
   as does the check of a backup (`cp/backup.go:255`). `Exits` binds to an
   existing resource only.
14. An imported plain proxy equal to a public one makes every public cycle fail; a
   manual refresh is lost when its source is renamed while it runs; a node save
   that fails at the core keeps the resource and the credentials it made.
15. A restore whose commit took place and was not answered leaves the new database
   beside the old files (`cp/backup.go:396`); a restore that was killed with
   `master.key` moved aside makes the next one, which opens the store, create a new
   key (`cp/config.go:271-280`), and so does starting the panel. The old key is in
   the directory of what was moved aside (ARCHITECTURE.md:69 excludes a loss of
   power in the middle).
16. Leaving an address and binding it again within one second passes for a binding
   that is older than the sale (`cp/email_delivery.go:132-138` compares seconds).
17. A panel restored from a full backup of its database gives addresses again, and
   nothing raises the next index (`cp/crypto_wallet.go:564-567`); a restore that
   collides with a deleted wallet's row of the other network family is accepted
   (`cp/crypto_wallet_backup.go:313-330`) and fails the deep check afterwards
   (`cp/crypto_wallet_integrity.go:136-140`).

18. A refund for which the wallet has no room is refused (`cp/commerce_types.go:203`)
   and tried again every minute at most; the order stays 'refunding' and the member
   stopped until the balance is lowered. docs/COMMERCE.md:139 returns the money to
   the balance without that case (no run).

## What is proved

For every number of tasks, keys, workers, orders, plans, prices, limits, sites
and interventions, from the named assumptions of the modules (names are
distinct, bounds are naturals):

`JobsProofs`. The invariant `QueueInv` adds to the checked properties: slots hold
different tasks (`SlotsApart`), unused rows are blank (`FreeRows`), a stopped
runner has no workers (`StoppedIsIdle`), a worker past `Register` owns its entry
in `cancels` (`Registered`), a worker's key is its row's (`KeysAgree`), and a
running row is held (`Held`). Without `Registered` a cancellation could miss its
handler; without `SlotsApart` two workers could finalise one row. From it follow
`DedupHolds`, `CancelIsSeen`, `NoTaskIsLost`, `HandlersDoNotCompete`,
`VerdictsAreFinal` and `QueueIsBounded` (`CapacityBound`, which is proved only).

`CommerceProofs`. `TypeInv` adds that an order that exists has a plan. On it rest
`OneOrderAtATime`, then `NoDisabledProvisioning` (which shows that the branch of
`fulfilOrder` for a disabled member is dead) and `MemberStopped`; these give
`NoStaleQuota`. `MoneyInv` (frozen money is the price of the order being
provisioned, refunds are at most the price, the total is within the limit) and
`LedgerIsExact` (the event keys of an order are those its state calls for) give
`KeepsWalletPromise`: every step of `Commerce` is a step of `Wallet` or a stutter.
Of the chain, `OnePlaceEach` proves `EachOrderServesOnce`: with what serves kept
apart from what waits (`ChainInv`), a pause appends only what leaves, a restoration
takes what it returns, and an order gets its place in the step that completes it.
`RenewalKeepsPlan` proves `RenewalExtendsItsPlan` from `RenewalsKnown`: while a renewal
waits, what it expects is its own plan, and from its confirmation on that plan is
in force, since no step that could replace it is open to anyone. `TimeIsKept` proves
`ServiceTimeConserved`: a queue's time is a sum over its slots, a pause adds a slot
worth what the plan in force had left, and a restoration gives that back.

Some of these state properties no run checks any more, since the proofs hold for
every instance: `DedupHolds`, `OneOrderAtATime`, `NoDisabledProvisioning`,
`RequestsAreAnswered`, and the type invariants of `Jobs` (in `QueueSafe`), `Commerce`
(`TypeCorrect`) and `Payments` (`PaymentsTyped`).

`CryptoProofs` proves `InvoicesArePricedSafely` (`PricesAreSafe`). Its
invariant says that nobody is ahead of the settings' revision, that a lookup found
unsafe has ended the price in use, and that only a request which missed a commit
can hold a price older than the alarm; such a request is refused by the revision
it compares. Assumed is that the owner's prices are at least one step
(`cryptoQuote` refuses zero).

Of `CryptoWallets` it proves `IndexGivenOnce` (`WalletsGiveOnce`) and `WalletsIntact`
(`WalletsStayIntact`), on one network family or both. No panel sees what another has
given, so the invariant (`WalletsSafe`) says where each index is remembered: every row,
in a panel, a file or an export under way, is of an index that was given, and rows of
one index agree on its network; what was given is below the next index some panel
shows; only the panel in charge has an enabled wallet, and only if it knows all that
was given, which without a change of panel it does. The order of administrators'
steps assumed is the one the module's comments take from the manual. That reserved
indices and rows add up needs that the rows under a next index are finitely many,
one to an index.

The third part of `CryptoProofs` is about `CryptoSweeps`. `SweepsTyped` and
`TablesAlwaysAgree` (`SweepsAgree`) follow from `SweepsSafe`: every item is in a state
its transfers allow, a worker who still holds its job knows its item's state, one who
lost it can no longer move the item, and a network has one open sweep. For
`SignedStaysExecutable` (`SignedCanExecute`) a second invariant (`MoneyInv`) is inductive
beside it: each address has sent the nonces from 0 on, one each, and those below the
network's are the executed ones; what waits can be paid; and of what a worker read
before it signs, the nonce is not past the next one and, while it holds its job, the
balance has only been spent on what the table still reserves. The last is why the
reservation is sound although the balance was read long before the transaction:
receipts are recorded, and reservations so released, only by the holder. Costs are
sums over transfers (`Sums`). Assumed are `SweepsAssumption` and that the names of no
lease and of the funding address (`SweepNamesAssumption`) are not those of a worker or
of an order's address.

`PaymentsProofs` proves all invariants of `Payments`: `PaymentsTyped`,
`ServicePaid`, `AppliedUsed`, `CreditedAtMostOnce` and `RefundsFollow`. The
inductive invariant (`PaymentsSafe`) relates order, attempt, receipt, refund and
the calls under way: an attempt with money is settled by the one receipt made for
it, a receipt in use is its attempt's, a refund is not asked for before its receipt
was set aside, and whoever holds `App.mu` read a state its operation may start
from. The last part carries the proof over the gap between the read and the
transaction. Nothing is assumed beyond `PaymentsAssumption`.

`OperationsProofs` proves `LeaseEndsService` (`LeasesEnd`): a served identity that
may not be served any more ends one poll after the grace, also when panel, wrapper
and core stop and start in any order. The invariant (`LeasesSafe`) says that whoever
the file permits or the core serves is watched by the guard, or listed with a
revision the guard has not seen, or was admitted without the guard's knowledge
(`untold`, left out of the property); and that the guard has counted the
seconds of the others since its first poll.

In the same module `ExitsSafe` and `ExitsAreInUse` prove `ExitsInUse`. A probe, a
fetch and a screening end in tables that may have changed since they began, so the
invariant ties what each still knows to what is there: an edit under way is of a
resource that exists, or is marked as out of date; what a source lists is in the
pool under its group; a node's copy of its exit is the exit of its resource. Pools
at addresses and those in slots are told apart, and `Direct` is no slot.

`AmountsProofs` is about numbers that are sums: quota reserved over sites, traffic over
periods, what an address received over transfers. `Sums` shows what is needed of
`SumFunctionOnSet` for any finite set (a partial sum exists, an element can be taken
out, equal summands give equal sums), by well-founded induction on subsets with the
set of counterexamples in place of a predicate. `CommerceProofs` uses it for time, `CryptoProofs` for gas. On it rest:

- `MountsSafe` and `PeriodsWithinQuota`, which prove `PeriodWithinQuota`: whatever the
  child's core may still come to serve up to, by its own limit, by its panel's or by a
  request that may yet arrive late or twice, is reserved at the main panel, and
  fits in the quota beside what the main panel's own core has served or may serve.
- `GrantsSafe`, which gives `TrafficBilledOnce` (`TrafficIsBilledOnce`) and
  `SitesAreCovered` (`ReservationCoversSite`). The invariant orders periods (closed
  before the current one, nothing measured in later ones), bills each what the
  panel's core and the sites' records say, and bounds what a site has applied, an
  answer on its way included, by what was issued. That an acknowledgement releases
  the old reservation without uncovering the site rests on the site acting on
  exactly the revision it reports, unless it died over one (`torn`), and on what was
  sent staying within what was issued when traffic of a closed period raises both
  and no policy is made afterwards (`LeaveUnanswered`).
- `IssuesStayWithinQuota` (`IssuedWithinQuota`, an action property): only an answer raises
  a reservation, and what it reserves with all other sites fits in what is left.
- `ChainDecides` (`DecidedByTheChain`) and `NoStrayMoney` (`StrayMoneyIsReviewed`, an action
  property). A scan reads the chain, and is booked when blocks have been added, made
  final or replaced since and another scan of the invoice has been booked. The
  invariant (`InvoicesSafe`) therefore says of a scan what stays true of it: what it
  calls final is on the final chain, and nothing final in the range it read is
  missing. With that, credits are on the final chain, none is missing below an
  invoice's cursor, an invoice is paid by what the chain pays it, and an order
  expires only once its window is final. A block already final may be replaced
  (`broken`); from then on only the first part of the invariant is left, that
  every credit is judged by its own invoice's terms, and `NoStrayMoney` and the
  types (`InvoicesTyped`) need no more than that part. Of `InvoicesAssumption` it is
  used that bounds and prices are naturals and that the chain may have a block.

Of `Accounts`, `OperationsProofs` proves `SpentLinksWereCurrent`
(`LinksWereCurrent`). Requests read without `a.mu` and a record under way may write
back an older password hash, so "the hash differs" is not inductive. The invariant (`AccountsSafe`) adds that
nothing has the hash a record under way brings, that what a request read is what
its link says, and that a stale link finds another hash or mailbox than its own
also after the record under way is saved. Assumed is that no member is called
`"no member"` and no mailbox `"no mail"`.

In the same module `OutboxSafe` and `MailsAreOwned` prove `MailsReachTheirOwner`. A
worker that lost its lease still hands its mail over and marks it, so what it has
read must stay true by itself: the invariant says that a notice has a row only
after its sale, that the row's addressee is the owner of the sale and never
changes, that a worker past its check has checked that addressee, and that one
with an accepted mail finds it among those handed over. A row addressed to its
owner is only made from a sale whose binding has not moved since (`SalesKnow`).

Also in `OperationsProofs` is `FrozenIsQuiet` (`FrozenMeansQuiet`). The invariant
(`GateInvariant`) says that each counter is the number of workers or requests it
counts, which needs only that the sets are finite; that a worker or request past its
check of the fence was counted before it; and that what the health check has read
so far stays so while the fence is up, since whoever is counted later finds the
fence. That the group of workers ends only with the process is proved besides
(`WorkersAlwaysComeBack`).

Of `Restores` it proves `RestoreIsWhole` (`RestoresAreWhole`) for any number of runs.
The invariant (`RestoresSafe`) says for every step where each file and the database
of what the run found is: in place, put aside, or both. That a killed run's
findings survive the runs after it needs the ages of contents: what run k puts in
place is younger than all that was there before, so what a later run removes or
overwrites is either its own or has been put aside in its own directory.

`SubsystemsProofs` joins the twelve. `BehavesAsItsSubject` says that a behaviour of
`MCSubsystems` has one subject from its first state on and is, in the variables of
that one, a behaviour of its specification; so the theorems above hold of the joined
system, and what its run finds is found in a subsystem. `TypesAlwaysOK` proves
`TypesOK` from it and from the subsystems' own type invariants.

With these every safety property and every action property the passing runs check
is a theorem. Only model-checked is what must eventually happen (`EveryTaskEnds`,
`FrozenMoneyMoves`, `RefundIsPaid`, `ResetEnds`, `PaymentIsAnswered`,
`RefundGetsVerdict`): the prover has neither fairness nor ENABLED. That the cases the
properties are about occur, and that the mutants are caught, only the runs show.

## Not modelled

Archiving accounts and offers and taking them off sale (they only refuse),
deletion of a member in `Commerce`, editing of payment methods, signatures,
recovery of rows of older releases, and the parts of the table above without a
module. Transactions are atomic and isolated throughout, as PostgreSQL's row locks
make those the code takes (`UPDATE … SET updated=updated`). Rounding in
`refundableOrderAmount` is left out.

Of the newer modules: `SiteGrants` leaves out enrolment, commands, the calendar of
monthly budgets and the validation of exits and nodes; `Mounts` other sites, the
child's restore from a backup, manual policies and what subscriptions show;
`CoreLeases` the up to twelve seconds a core takes to stop (docs/NODE_MOUNTS.md:38:
it stops at once here), local users and ports; `Exits` intervals and the queue,
marks of staleness, credentials, capacities; `CryptoRates` networks, RPCs, replay of
an operation and the pause between lookups; `CryptoInvoices` several networks at
once; `CryptoWallets` the guard against unfinished sweeps, the selection in the
settings, names, passwords and key derivation; `CryptoSweeps` the freezing of a
network, fees and signing; `Accounts` captchas, rate limits and settings; `Outbox`
texts, their sealing, rate limits, the owner's switches and the dialogue with the
mail server; `Restores` the making of a backup, the checks in staging, and a panel
started over half-moved files (which writes a new database or key);
`MaintenanceGate` what the installer does once it knows, and what a panel that starts
writes before its workers look at the fence (bootstrap and migrations,
`cp/main.go:181-192`).

## Plan

1. The panel's copy of a core's user table, so that `CoreLeases` need not leave
   identities out (`untold`).
2. An abstract specification of quota (issued = used + returned + outstanding)
   that `SiteGrants` and `Mounts` implement, and `Commerce`'s `SendSnapshot` and
   `Acknowledge` against it.
3. `UsageMeter` with the reset of counters and the turn of periods, its weighted
   bytes as a function checked against exact arithmetic.
4. `RuntimeLease`, `Tickets`: small modules, each with its one hard property.
5. Many members and the worker's batch of a hundred orders
   (`cp/commerce_fulfilment.go:19`), against docs/COMMERCE.md:120.
