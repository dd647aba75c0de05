------------------------------ MODULE Payments ------------------------------
(* Money that arrives from outside: attempts to pay an order or to top up  *)
(* the wallet, the gateway's callbacks, the receipts they leave, and their *)
(* refunds.  Callbacks, checkouts and refunds do not take App.mu; they     *)
(* meet the order handlers and the workers in the database only, so each   *)
(* transaction is one step and the reads before it are steps of their own. *)
(* The entitlement an order buys is Commerce's: here it is its state only. *)
EXTENDS Integers, FiniteSets

CONSTANTS Orders,   \* orders, all waiting to be confirmed at first
          Topups,   \* payments into the wallet
          Txns,     \* payment_intent or trade_no: transactions of one merchant
          None,     \* no transaction, no order
          Due,      \* [Orders \union Topups -> Nat \ {0}], Attempt.Amount
          Amounts,  \* what a payer may really pay
          Stripe,   \* those refunded through Stripe; the others by hand (epay)
          OrderTTL, \* 900 s: an order waits this long
          TopupTTL, \* 1800 s: and the checkout of a top-up this long
          Horizon,  \* bound on the clock
          MaxHooks, \* bound on callbacks answered at one time
          MaxCrashes \* bound on crashes

Payables == Orders \union Topups

ASSUME PaymentsAssumption ==
  /\ None \notin Payables \union Txns
  /\ Orders \intersect Topups = {}
  /\ Due \in [Payables -> Nat \ {0}]
  /\ Amounts \subseteq Nat \ {0}
  /\ Stripe \subseteq Txns
  /\ {OrderTTL, TopupTTL, Horizon, MaxHooks, MaxCrashes} \subseteq Nat

VARIABLES order,   \* commerce_orders, with the wallet's part in each
          attempt, \* payment_attempts: an order has at most one
          receipt, \* payment_receipts, by transaction (account_scope, external_ref)
          refund,  \* payment_refunds, by the receipt's transaction
          credited, \* times "payment:"<receipt> was posted to the ledger
          bank,    \* what the gateway holds: payment and refund
          hook,    \* callbacks verified, stamped with the time, not committed
          call,    \* transaction whose refund the worker is asking for
          mu,      \* App.mu: what its holder has read, or Free
          now,     \* the clock
          crashes

records == <<order, attempt, receipt, refund, credited>>
vars == <<records, bank, hook, call, mu, now, crashes>>
-----------------------------------------------------------------------------
Unset == -1 \* RefundAmountSet = false

OrderStates == {"pending", "provisioning", "completed", "cancelled", "expired",
                "failed", "refunding", "refund_pending", "refunded"}
AttemptStates == {"none", "created", "awaiting_customer", "paid", "completed",
                  "refund_required", "refunded", "cancelled", "expired"}
ReceiptStates == {"none", "verified", "applied", "review_required",
                  "refund_required", "refund_pending", "refunded"}
RefundStates == {"none", "queued", "processing", "pending", "succeeded", "failed"}

(* linked: Order.PaymentAttemptID is set.  wallet: the order's price is     *)
(* held or spent from the balance, or was given back.                      *)
OrderRows == [state : OrderStates, linked : BOOLEAN, expires : Nat,
              refund : Nat \union {Unset},
              wallet : {"none", "used", "returned"}]
AttemptRows == [state : AttemptStates, ext : Txns \union {None}, expires : Nat]
ReceiptRows == [state : ReceiptStates, for : Payables \union {None},
                amount : Nat, created : Nat]
RefundRows == [state : RefundStates, amount : Nat]

(* refund: the refund's status at the gateway; back: its amount.           *)
Held == [paid : BOOLEAN, for : Payables \union {None}, amount : Nat,
         refund : {"none", "pending", "succeeded", "failed"}, back : Nat]

Free == [op |-> "none", order |-> None, state |-> "pending", linked |-> FALSE]
Holder == [op : {"none", "confirm", "cancel", "expire", "persist"},
           order : Orders \union {None}, state : OrderStates, linked : BOOLEAN]

(* The type invariant of Payments.                                         *)
TypeOK == /\ order \in [Orders -> OrderRows]
          /\ attempt \in [Payables -> AttemptRows]
          /\ receipt \in [Txns -> ReceiptRows]
          /\ refund \in [Txns -> RefundRows]
          /\ credited \in [Txns -> Nat]
          /\ bank \in [Txns -> Held]
          /\ hook \subseteq [txn : Txns, seen : Nat]
          /\ call \in Txns \union {None}
          /\ mu \in Holder
          /\ now \in Nat
          /\ crashes \in Nat

Init == /\ order = [o \in Orders |-> [state |-> "pending", linked |-> FALSE,
                      expires |-> OrderTTL, refund |-> Unset, wallet |-> "none"]]
        /\ attempt = [p \in Payables |-> [state |-> "none", ext |-> None, expires |-> 0]]
        /\ receipt = [t \in Txns |-> [state |-> "none", for |-> None, amount |-> 0, created |-> 0]]
        /\ refund = [t \in Txns |-> [state |-> "none", amount |-> 0]]
        /\ credited = [t \in Txns |-> 0]
        /\ bank = [t \in Txns |-> [paid |-> FALSE, for |-> None, amount |-> 0,
                                   refund |-> "none", back |-> 0]]
        /\ hook = {}
        /\ call = None
        /\ mu = Free
        /\ now = 0
        /\ crashes = 0
-----------------------------------------------------------------------------
(* Checkout (createCheckout, reservePayment), outside App.mu.              *)

ReserveOrder(o) ==
  /\ order[o].state = "pending"
  /\ now < order[o].expires
  /\ ~order[o].linked
  /\ attempt' = [attempt EXCEPT ![o] = [state |-> "created", ext |-> None,
                                        expires |-> order[o].expires]]
  /\ order' = [order EXCEPT ![o].linked = TRUE]
  /\ UNCHANGED <<receipt, refund, credited, bank, hook, call, mu, now, crashes>>

ReserveTopup(p) ==
  /\ attempt[p].state = "none"
  /\ attempt' = [attempt EXCEPT ![p] = [state |-> "created", ext |-> None,
                                        expires |-> now + TopupTTL]]
  /\ UNCHANGED <<order, receipt, refund, credited, bank, hook, call, mu, now, crashes>>

(* The gateway has answered with a checkout page; the attempt may have     *)
(* ended while it was asked.                                               *)
Checkout(p) ==
  /\ attempt[p].state = "created"
  /\ attempt' = [attempt EXCEPT ![p].state = "awaiting_customer"]
  /\ UNCHANGED <<order, receipt, refund, credited, bank, hook, call, mu, now, crashes>>

(* The payer pays, at any time once the page exists, which it may do before *)
(* its answer is stored; some payments name no attempt (p = None).         *)
Pay(t, p, amount) ==
  /\ ~bank[t].paid
  /\ p # None => attempt[p].state # "none"
  /\ bank' = [bank EXCEPT ![t] = [@ EXCEPT !.paid = TRUE, !.for = p, !.amount = amount]]
  /\ UNCHANGED <<records, hook, call, mu, now, crashes>>
-----------------------------------------------------------------------------
(* Callbacks (paymentWebhook, recordPaymentEvent).                         *)

(* The gateway calls as often as it likes; the time is read on arrival.    *)
Deliver(t) ==
  /\ bank[t].paid
  /\ Cardinality(hook) < MaxHooks
  /\ hook' = hook \union {[txn |-> t, seen |-> now]}
  /\ UNCHANGED <<records, bank, call, mu, now, crashes>>

MayPay(t, p, seen) ==
  /\ bank[t].amount = Due[p]
  /\ attempt[p].state \in {"created", "awaiting_customer"}
  /\ seen < attempt[p].expires
  /\ attempt[p].ext = None
  /\ p \in Orders => order[p].linked /\ order[p].state = "pending"

(* Fault: a transaction that came before is recorded again.                *)
UnseenAlways(t) == TRUE

(* The unique receipt: repeated callbacks change nothing.                  *)
Unseen(t) == receipt[t].state = "none"

Received(h, state) ==
  receipt' = [receipt EXCEPT ![h.txn] = [state |-> state, for |-> bank[h.txn].for,
                                         amount |-> bank[h.txn].amount, created |-> h.seen]]

RecordPaid(h) ==
  LET p == bank[h.txn].for
  IN  /\ Unseen(h.txn)
      /\ p # None /\ MayPay(h.txn, p, h.seen)
      /\ Received(h, "verified")
      /\ attempt' = [attempt EXCEPT ![p] = [@ EXCEPT !.state = "paid", !.ext = h.txn]]
      /\ UNCHANGED order

(* The money is kept for a refund; a first payment also ends its attempt   *)
(* and the order waiting for it.                                           *)
RecordRefused(h) ==
  LET p == bank[h.txn].for
      first == attempt[p].ext = None
  IN  /\ Unseen(h.txn)
      /\ p # None /\ ~MayPay(h.txn, p, h.seen)
      /\ Received(h, "refund_required")
      /\ attempt' = IF first THEN [attempt EXCEPT ![p] = [@ EXCEPT !.state = "refund_required",
                                                                   !.ext = h.txn]]
                    ELSE attempt
      /\ order' = IF first /\ p \in Orders /\ order[p].state = "pending" /\ order[p].linked
                  THEN [order EXCEPT ![p].state = "failed"]
                  ELSE order

RecordUnknown(h) == /\ Unseen(h.txn)
                    /\ bank[h.txn].for = None
                    /\ Received(h, "review_required")
                    /\ UNCHANGED <<order, attempt>>

RecordRepeated(h) == ~Unseen(h.txn) /\ UNCHANGED <<order, attempt, receipt>>

Record(h) ==
  /\ h \in hook
  /\ hook' = hook \ {h}
  /\ RecordPaid(h) \/ RecordRefused(h) \/ RecordUnknown(h) \/ RecordRepeated(h)
  /\ UNCHANGED <<refund, credited, bank, call, mu, now, crashes>>
-----------------------------------------------------------------------------
(* What a receipt pays for (reconcilePaymentReceipt), under App.mu, by the *)
(* callback that recorded it or by the worker.                             *)

Ended == {"refund_required", "cancelled", "expired"}

MayActivate(t) ==
  LET o == receipt[t].for
  IN  /\ attempt[o].state = "paid"
      /\ now < order[o].expires \/ receipt[t].created < order[o].expires

(* orderAction "confirm" of a paid order.  A crash may follow before the   *)
(* receipt is marked.                                                      *)
Activate(t) ==
  LET o == receipt[t].for
  IN  /\ mu = Free
      /\ receipt[t].state = "verified" /\ o \in Orders
      /\ order[o].linked /\ order[o].state = "pending"
      /\ MayActivate(t)
      /\ order' = [order EXCEPT ![o].state = "provisioning"]
      /\ UNCHANGED <<attempt, receipt, refund, credited, bank, hook, call, mu, now, crashes>>

Apply(t) ==
  LET o == receipt[t].for
  IN  /\ mu = Free
      /\ receipt[t].state = "verified" /\ o \in Orders
      /\ attempt[o].state \notin Ended
      /\ order[o].linked /\ order[o].state \in {"provisioning", "completed"}
      /\ receipt' = [receipt EXCEPT ![t].state = "applied"]
      /\ UNCHANGED <<order, attempt, refund, credited, bank, hook, call, mu, now, crashes>>

(* creditPaymentTopup                                                      *)
Credit(t) ==
  LET p == receipt[t].for
  IN  /\ mu = Free
      /\ receipt[t].state = "verified" /\ p \in Topups
      /\ attempt[p].state \in {"paid", "completed"}
      /\ receipt' = [receipt EXCEPT ![t].state = "applied"]
      /\ credited' = [credited EXCEPT ![t] = @ + 1]
      /\ attempt' = IF attempt[p].state = "paid" /\ attempt[p].ext = t
                    THEN [attempt EXCEPT ![p].state = "completed"]
                    ELSE attempt
      /\ UNCHANGED <<order, refund, bank, hook, call, mu, now, crashes>>

(* paymentRefundRequired looks again: the order may have gone ahead.       *)
AlreadyUsed(p) == /\ p \in Orders /\ order[p].linked
                  /\ order[p].state \in {"provisioning", "completed"}
                  /\ attempt[p].state # "refund_required"

(* paymentRefundRequired                                                   *)
Refuse(t) ==
  LET p == receipt[t].for
  IN  /\ mu = Free
      /\ receipt[t].state = "verified"
      /\ IF AlreadyUsed(p)
         THEN /\ receipt' = [receipt EXCEPT ![t].state = "applied"]
              /\ UNCHANGED <<attempt, order>>
         ELSE /\ receipt' = [receipt EXCEPT ![t].state = "refund_required"]
              /\ attempt' = IF attempt[p].ext = t /\ attempt[p].state = "paid"
                            THEN [attempt EXCEPT ![p].state = "refund_required"]
                            ELSE attempt
              /\ order' = IF p \in Orders /\ order[p].state = "pending" /\ order[p].linked
                          THEN [order EXCEPT ![p].state = "failed"]
                          ELSE order
      /\ UNCHANGED <<refund, credited, bank, hook, call, mu, now, crashes>>

(* Fault: an order that has ended already is overlooked.                   *)
OverAttemptOnly(t) == attempt[receipt[t].for].state \in Ended

(* The attempt or the order has ended, or the order cannot be confirmed.   *)
Over(t) ==
  LET p == receipt[t].for
  IN  \/ attempt[p].state \in Ended
      \/ /\ p \in Orders
         /\ \/ ~order[p].linked
            \/ order[p].state \notin {"pending", "provisioning", "completed"}
            \/ order[p].state = "pending" /\ ~MayActivate(t)

RefuseOver(t) == receipt[t].state = "verified" /\ Over(t) /\ Refuse(t)

(* The other reasons lie outside this module: a disabled account, another  *)
(* entitlement by now, a full wallet.                                      *)
RefuseMember(t) == receipt[t].state = "verified" /\ ~Over(t) /\ Refuse(t)

(* paymentWork, the statements after the receipts.                         *)
MarkEnded ==
  /\ mu = Free
  /\ receipt' = [t \in Txns |->
       IF receipt[t].state \in {"verified", "applied"} /\ receipt[t].for # None
            /\ attempt[receipt[t].for].state = "refund_required"
       THEN [receipt[t] EXCEPT !.state = "refund_required"] ELSE receipt[t]]
  /\ UNCHANGED <<order, attempt, refund, credited, bank, hook, call, mu, now, crashes>>

ExpireAttempts ==
  /\ mu = Free
  /\ attempt' = [p \in Payables |->
       IF attempt[p].state \in {"created", "awaiting_customer"} /\ attempt[p].expires <= now
       THEN [attempt[p] EXCEPT !.state = "expired"] ELSE attempt[p]]
  /\ UNCHANGED <<order, receipt, refund, credited, bank, hook, call, mu, now, crashes>>
-----------------------------------------------------------------------------
(* Order handlers and the order worker, under App.mu: they read the order, *)
(* then write it in a transaction that looks at it again.                  *)

Reads(op, o) ==
  /\ mu = Free
  /\ mu' = [op |-> op, order |-> o, state |-> order[o].state, linked |-> order[o].linked]
  /\ UNCHANGED <<records, bank, hook, call, now, crashes>>

(* orderAction "confirm" from the wallet.                                  *)
BeginConfirm(o) == /\ order[o].state = "pending" /\ now < order[o].expires
                   /\ ~order[o].linked
                   /\ Reads("confirm", o)
BeginCancel(o) == order[o].state \in {"pending", "provisioning"} /\ Reads("cancel", o)

(* Fault: only the state is compared.                                      *)
UnchangedState(o) == order[o].state = mu.state

(* lockedOrder against what was read.                                      *)
UnchangedSince(o) == order[o].state = mu.state /\ order[o].linked = mu.linked

Confirm(o) ==
  /\ mu.op = "confirm" /\ mu.order = o
  /\ UnchangedSince(o)
  /\ order' = [order EXCEPT ![o] = [@ EXCEPT !.state = "provisioning", !.wallet = "used",
                                             !.linked = mu.linked]]
  /\ mu' = Free
  /\ UNCHANGED <<attempt, receipt, refund, credited, bank, hook, call, now, crashes>>

(* paymentMarkReceiptRefund                                                *)
MarkReceiptRefund(p) ==
  receipt' = [t \in Txns |-> IF receipt[t].for = p /\ receipt[t].state \in {"verified", "applied"}
                             THEN [receipt[t] EXCEPT !.state = "refund_required"]
                             ELSE receipt[t]]

(* Fault: the receipts stay as they are.                                   *)
OweAttemptOnly(o) ==
  /\ attempt' = IF attempt[o].state \in {"paid", "completed"}
                THEN [attempt EXCEPT ![o].state = "refund_required"] ELSE attempt
  /\ UNCHANGED receipt

(* The money of an order that ends without service, or after it, has to go *)
(* back the way it came; that of a wallet order goes back at once.         *)
Owe(o) ==
  /\ attempt' = IF attempt[o].state \in {"paid", "completed"}
                THEN [attempt EXCEPT ![o].state = "refund_required"] ELSE attempt
  /\ MarkReceiptRefund(o)

Ends(o, state, amount) ==
  LET wallet == IF order[o].wallet = "used" /\ state # "refunding"
                THEN "returned" ELSE order[o].wallet
  IN  order' = [order EXCEPT ![o] =
                 [@ EXCEPT !.state = state, !.refund = amount, !.wallet = wallet]]

Cancel(o) ==
  /\ mu.op = "cancel" /\ mu.order = o
  /\ UnchangedSince(o)
  /\ Ends(o, "cancelled", order[o].refund)
  /\ IF mu.linked
     THEN IF attempt[o].state \in {"created", "awaiting_customer"}
          THEN attempt' = [attempt EXCEPT ![o].state = "cancelled"] /\ MarkReceiptRefund(o)
          ELSE Owe(o)
     ELSE UNCHANGED <<attempt, receipt>>
  /\ mu' = Free
  /\ UNCHANGED <<refund, credited, bank, hook, call, now, crashes>>

(* A conflict, a refusal of the wallet, or a failed statement.             *)
GiveUp == /\ mu # Free
          /\ mu' = Free
          /\ UNCHANGED <<records, bank, hook, call, now, crashes>>

(* commerceWork, a pending order past its time: the attempt is looked at,  *)
(* ended, and the order saved as it was read, in three transactions.  The   *)
(* order is read just before its attempt, here with it: what falls between   *)
(* the two reads is seen by the second, or overtaken by it as in this step.  *)
BeginExpire(o) ==
  /\ order[o].state = "pending" /\ order[o].expires <= now
  /\ order[o].linked => attempt[o].state # "paid"
  /\ Reads(IF order[o].linked THEN "expire" ELSE "persist", o)

EndAttempt(o) ==
  /\ mu.op = "expire" /\ mu.order = o
  /\ attempt' = IF attempt[o].state \in {"created", "awaiting_customer"}
                THEN [attempt EXCEPT ![o].state = "expired"] ELSE attempt
  /\ mu' = [mu EXCEPT !.op = "persist"]
  /\ UNCHANGED <<order, receipt, refund, credited, bank, hook, call, now, crashes>>

PersistExpired(o) ==
  /\ mu.op = "persist" /\ mu.order = o
  /\ order[o].state = "pending"
  /\ order' = [order EXCEPT ![o] = [@ EXCEPT !.state = "expired", !.linked = mu.linked]]
  /\ mu' = Free
  /\ UNCHANGED <<attempt, receipt, refund, credited, bank, hook, call, now, crashes>>

(* fulfilOrder                                                             *)
Provision(o) ==
  /\ mu = Free
  /\ order[o].state = "provisioning"
  /\ order' = [order EXCEPT ![o].state = "completed"]
  /\ attempt' = IF order[o].linked /\ attempt[o].state = "paid"
                THEN [attempt EXCEPT ![o].state = "completed"] ELSE attempt
  /\ UNCHANGED <<receipt, refund, credited, bank, hook, call, mu, now, crashes>>

(* failProvisioning                                                        *)
FailProvisioning(o) ==
  /\ mu = Free
  /\ order[o].state = "provisioning"
  /\ Ends(o, "failed", order[o].refund)
  /\ IF order[o].linked THEN Owe(o) ELSE UNCHANGED <<attempt, receipt>>
  /\ UNCHANGED <<refund, credited, bank, hook, call, mu, now, crashes>>

(* orderAction "refund" of the entitlement in force: any part of the price. *)
ApproveRefund(o, amount) ==
  /\ mu = Free
  /\ order[o].state = "completed"
  /\ amount \in 0..Due[o]
  /\ Ends(o, "refunding", amount)
  /\ UNCHANGED <<attempt, receipt, refund, credited, bank, hook, call, mu, now, crashes>>

(* orderAction "refund" of a paused entitlement, and fulfilOrder once the   *)
(* one in force is withdrawn.                                              *)
Withdrawn(o, amount) ==
  /\ Ends(o, IF order[o].linked THEN "refund_pending" ELSE "refunded", amount)
  /\ IF order[o].linked THEN Owe(o) ELSE UNCHANGED <<attempt, receipt>>
  /\ UNCHANGED <<refund, credited, bank, hook, call, mu, now, crashes>>

RefundQueued(o) == mu = Free /\ order[o].state = "completed" /\ Withdrawn(o, Due[o])
Withdraw(o) == mu = Free /\ order[o].state = "refunding" /\ Withdrawn(o, order[o].refund)
-----------------------------------------------------------------------------
(* Refunds (paymentRefundAction, paymentRefundWork), outside App.mu.       *)

(* Fault: an amount is taken from the order that was never set.            *)
RefundAmountsUnset(t) == {order[o].refund : o \in {receipt[t].for} \intersect Orders}

(* What the owner's refund will be: what the order still owes, whichever   *)
(* receipt is refunded.  What a served order owes is any part of its price. *)
RefundAmounts(t) ==
  LET o == receipt[t].for
  IN  IF o \notin Orders THEN {receipt[t].amount}
      ELSE IF order[o].refund # Unset THEN {order[o].refund}
      ELSE IF order[o].state = "completed" THEN 0..Due[o]
      ELSE {Due[o]}

Refundable(t) == receipt[t].state = "refund_required"

RequestRefund(t) ==
  /\ t \in Stripe
  /\ Refundable(t)
  /\ \E amount \in RefundAmounts(t) \ {0} :
       refund' = [refund EXCEPT ![t] = [state |-> "queued", amount |-> amount]]
  /\ receipt' = [receipt EXCEPT ![t].state = "refund_pending"]
  /\ UNCHANGED <<order, attempt, credited, bank, hook, call, mu, now, crashes>>

(* finishPaymentRefund: only the payment the attempt was settled with      *)
(* settles the order.                                                      *)
Finish(t) ==
  LET p == receipt[t].for
      primary == p # None /\ attempt[p].ext = t /\ attempt[p].state = "refund_required"
  IN  /\ receipt' = [receipt EXCEPT ![t].state = "refunded"]
      /\ attempt' = IF primary THEN [attempt EXCEPT ![p].state = "refunded"] ELSE attempt
      /\ order' = IF primary /\ p \in Orders /\ order[p].linked
                       /\ order[p].state \in {"refund_pending", "failed", "cancelled", "expired"}
                  THEN [order EXCEPT ![p].state = "refunded"] ELSE order

ConfirmManual(t) ==
  /\ \/ t \notin Stripe /\ Refundable(t)
     \/ receipt[t].state = "review_required"
  /\ \E amount \in RefundAmounts(t) \ {0} :
       refund' = [refund EXCEPT ![t] = [state |-> "succeeded", amount |-> amount]]
  /\ Finish(t)
  /\ UNCHANGED <<credited, bank, hook, call, mu, now, crashes>>

(* Fault: a refund once tried is not tried again.                          *)
OpenQueued == {"queued"}
Open == {"queued", "processing", "pending"}

(* The worker takes a refund that is due (again) ...                       *)
ClaimRefund(t) ==
  /\ call = None
  /\ refund[t].state \in Open
  /\ refund' = [refund EXCEPT ![t].state = "processing"]
  /\ call' = t
  /\ UNCHANGED <<order, attempt, receipt, credited, bank, hook, mu, now, crashes>>

(* ... and asks the gateway for the receipt's amount.  The idempotency key *)
(* makes every further request meet the same refund.                       *)
GatewayRefund ==
  /\ call # None
  /\ bank[call].refund = "none"
  /\ bank' = [bank EXCEPT ![call] = [@ EXCEPT !.refund = "pending", !.back = receipt[call].amount]]
  /\ UNCHANGED <<records, hook, call, mu, now, crashes>>

GatewaySettles(t, status) ==
  /\ bank[t].refund = "pending"
  /\ status \in {"succeeded", "failed"}
  /\ bank' = [bank EXCEPT ![t].refund = status]
  /\ UNCHANGED <<records, hook, call, mu, now, crashes>>

(* Fault: a refund the gateway has accepted counts as made.                *)
StatusTrusted(status) == IF status = "pending" THEN "succeeded" ELSE status
Status(status) == status

(* recordStripeRefund: nothing happens to a refund that is settled, and an *)
(* amount that differs is an error.                                        *)
RecordStripeRefund(t, status) ==
  IF refund[t].state \in Open /\ bank[t].back = refund[t].amount
  THEN /\ refund' = [refund EXCEPT ![t].state = Status(status)]
       /\ IF Status(status) = "succeeded" THEN Finish(t) ELSE UNCHANGED <<order, attempt, receipt>>
  ELSE UNCHANGED <<refund, order, attempt, receipt>>

RefundAnswered ==
  /\ call # None
  /\ bank[call].refund # "none"
  /\ RecordStripeRefund(call, bank[call].refund)
  /\ call' = None
  /\ UNCHANGED <<credited, bank, hook, mu, now, crashes>>

(* No answer, whatever the gateway did.                                    *)
RefundUnanswered ==
  /\ call # None
  /\ refund' = [refund EXCEPT ![call].state = IF @ = "processing" THEN "pending" ELSE @]
  /\ call' = None
  /\ UNCHANGED <<order, attempt, receipt, credited, bank, hook, mu, now, crashes>>

(* refund.created, refund.updated and refund.failed, late or repeated.     *)
RefundNotice(t, status) ==
  /\ bank[t].refund # "none"
  /\ status \in {"pending", bank[t].refund}
  /\ RecordStripeRefund(t, status)
  /\ UNCHANGED <<credited, bank, hook, call, mu, now, crashes>>
-----------------------------------------------------------------------------
Tick == /\ now < Horizon
        /\ now' = now + 1
        /\ UNCHANGED <<records, bank, hook, call, mu, crashes>>

Crash == /\ crashes < MaxCrashes
         /\ crashes' = crashes + 1
         /\ hook' = {} /\ call' = None /\ mu' = Free
         /\ UNCHANGED <<records, bank, now>>

Gateway == \/ \E t \in Txns, p \in Payables \union {None}, a \in Amounts : Pay(t, p, a)
           \/ \E t \in Txns : \/ Deliver(t)
                              \/ \E s \in {"pending", "succeeded", "failed"} :
                                   GatewaySettles(t, s) \/ RefundNotice(t, s)
           \/ GatewayRefund

Member == \/ \E o \in Orders : ReserveOrder(o) \/ BeginConfirm(o) \/ BeginCancel(o)
          \/ \E p \in Topups : ReserveTopup(p)
          \/ \E p \in Payables : Checkout(p)

Owner == \/ \E o \in Orders : RefundQueued(o) \/ \E a \in 0..Due[o] : ApproveRefund(o, a)
         \/ \E t \in Txns : RequestRefund(t) \/ ConfirmManual(t)

Reconcile(t) == Activate(t) \/ Apply(t) \/ Credit(t) \/ RefuseOver(t)

Work == \/ \E h \in hook : Record(h)
        \/ \E t \in Txns : Reconcile(t) \/ RefuseMember(t) \/ ClaimRefund(t)
        \/ MarkEnded \/ ExpireAttempts
        \/ \E o \in Orders : \/ Confirm(o) \/ Cancel(o)
                             \/ BeginExpire(o) \/ EndAttempt(o) \/ PersistExpired(o)
                             \/ Provision(o) \/ FailProvisioning(o) \/ Withdraw(o)
        \/ GiveUp
        \/ RefundAnswered \/ RefundUnanswered

Next == Gateway \/ Member \/ Owner \/ Work \/ Tick \/ Crash

Spec == Init /\ [][Next]_vars
-----------------------------------------------------------------------------
Serving == {"provisioning", "completed"}
Used == {"verified", "applied"}

(* An order is served for money that is there, in full, and from one       *)
(* source: the wallet, or the one receipt its attempt was settled with,    *)
(* which nobody has started to pay back.                                   *)
ServiceIsPaid ==
  \A o \in Orders : order[o].state \in Serving =>
    IF order[o].linked
    THEN /\ order[o].wallet = "none"
         /\ attempt[o].state \in {"paid", "completed"}
         /\ attempt[o].ext # None
         /\ LET t == attempt[o].ext
            IN  /\ receipt[t].state \in Used
                /\ receipt[t].for = o /\ receipt[t].amount = Due[o]
                /\ refund[t].state = "none" /\ bank[t].back = 0
    ELSE order[o].wallet = "used" /\ attempt[o].state \notin {"paid", "completed"}

(* Money counted as applied is in use: its order is served, or its top-up  *)
(* was credited.  Money of an order that ended is owed instead.            *)
AppliedIsUsed ==
  \A t \in Txns : receipt[t].state = "applied" =>
    LET p == receipt[t].for
    IN  /\ p # None
        /\ attempt[p].ext = t
        /\ p \in Orders => order[p].state \in Serving \union {"refunding"}
        /\ p \in Topups => credited[t] = 1

(* "Only credited once": a transaction is credited at most once, and what  *)
(* was credited is never refunded as well.                                 *)
CreditedOnce ==
  \A t \in Txns : /\ credited[t] <= 1
                  /\ credited[t] = 1 => receipt[t].state = "applied" /\ refund[t].state = "none"

(* The payment of an order that waits, is being provisioned or is served is *)
(* not being refunded, and an order is called refunded only when its own    *)
(* payment has really gone back.                                           *)
RefundFollowsService ==
  /\ \A t \in Txns :
       LET o == receipt[t].for
       IN  refund[t].state # "none" /\ o \in Orders /\ attempt[o].ext = t
             => order[o].state \notin Serving \union {"pending"}
  /\ \A o \in Orders :
       order[o].state = "refunded" /\ order[o].linked =>
         /\ attempt[o].ext # None
         /\ refund[attempt[o].ext].state = "succeeded"
         /\ attempt[o].ext \in Stripe => bank[attempt[o].ext].refund = "succeeded"

(* docs/COMMERCE.md: nothing is refunded while the entitlement is still to  *)
(* be withdrawn.                                                           *)
RefundWaitsForWithdrawal ==
  \A t \in Txns :
    LET o == receipt[t].for
    IN  refund[t].state # "none" /\ o \in Orders /\ attempt[o].ext = t
          => order[o].state # "refunding"

(* docs/COMMERCE.md: a payment received while the order was valid is       *)
(* processed even when the order's time has passed meanwhile.              *)
PaidOrderIsNotExpired ==
  \A o \in Orders : order[o].linked /\ attempt[o].state = "paid" => order[o].state # "expired"

(* docs/COMMERCE.md: an order is refunded the amount the panel computed;    *)
(* what was used up is not returned.                                       *)
GatewayReturnsRefund ==
  \A t \in Txns : bank[t].back > 0 => bank[t].back = refund[t].amount
-----------------------------------------------------------------------------
(* The workers tick every five seconds and App.mu is always given back.    *)
WorkerFairness ==
  /\ WF_vars(GiveUp)
  /\ \A t \in Txns : SF_vars(Reconcile(t))

(* A refund is tried again and again; the network answers infinitely often  *)
(* and the gateway decides.                                                *)
RefundFairness ==
  \A t \in Txns : /\ SF_vars(ClaimRefund(t))
                  /\ SF_vars(call = t /\ GatewayRefund)
                  /\ SF_vars(call = t /\ RefundAnswered)
                  /\ WF_vars(RefundUnanswered)
                  /\ WF_vars(\E s \in {"succeeded", "failed"} : GatewaySettles(t, s))

FairSpec == Spec /\ WorkerFairness /\ RefundFairness

(* Money recorded as received is used or marked for a refund in the end;    *)
(* no receipt stays where nobody looks at it.                              *)
PaymentIsAnswered ==
  \A t \in Txns : receipt[t].state = "verified" ~> receipt[t].state # "verified"

(* A refund the owner asked for gets the gateway's verdict, through crashes *)
(* and lost answers, as long as the amounts agree.                         *)
RefundGetsVerdict ==
  \A t \in Txns : refund[t].state = "queued" ~> refund[t].state \in {"succeeded", "failed"}
=============================================================================
