---------------------------- MODULE PaymentsProofs ----------------------------
(* Proofs about Payments, for any orders, top-ups, transactions, prices,   *)
(* times and numbers of callbacks and crashes.                             *)
EXTENDS Payments, TLAPS
-----------------------------------------------------------------------------
Settled == {"paid", "completed", "refund_required", "refunded"}

(* A pending order has no money in it yet, or its attempt's; an order that *)
(* no checkout has linked has no attempt, unless it expired meanwhile.     *)
OrderSound(o) ==
  /\ order[o].state = "pending" =>
       /\ order[o].wallet = "none"
       /\ attempt[o].state \notin {"completed", "refund_required", "refunded"}
  /\ ~order[o].linked /\ order[o].state # "expired" => attempt[o].state = "none"

(* An attempt is settled with one receipt, made for it; while it is paid,  *)
(* that receipt is in use and of the right amount.                         *)
AttemptSound(p) ==
  LET t == attempt[p].ext
  IN  /\ t = None <=> attempt[p].state \notin Settled
      /\ t # None => receipt[t].state # "none" /\ receipt[t].for = p
      /\ attempt[p].state = "paid" => /\ receipt[t].state \in Used
                                      /\ receipt[t].amount = Due[p]

(* A receipt in use is the one of its attempt, and what was credited is    *)
(* what was applied to a top-up.                                           *)
ReceiptSound(t) ==
  LET p == receipt[t].for
  IN  /\ receipt[t].state \in Used => p \in Payables /\ attempt[p].ext = t
      /\ receipt[t].state = "review_required" => p = None
      /\ credited[t] = IF receipt[t].state = "applied" /\ p \in Topups THEN 1 ELSE 0
      /\ receipt[t].state = "applied" /\ p \in Topups => attempt[p].state = "completed"

(* A refund has its receipt in hand, and the gateway knows of none that    *)
(* the panel does not.                                                     *)
RefundSound(t) ==
  /\ refund[t].state # "none" => receipt[t].state \in {"refund_pending", "refunded"}
  /\ refund[t].state = "succeeded" => receipt[t].state = "refunded"
  /\ bank[t].refund # "none" => refund[t].state # "none"
  /\ bank[t].refund = "none" => bank[t].back = 0
  /\ bank[t].for # None => attempt[bank[t].for].state # "none"

CallSound == call # None => refund[call].state # "none"
HolderSound == /\ mu.op = "confirm" => mu.state = "pending" /\ ~mu.linked
               /\ mu.op = "cancel" => mu.state \in {"pending", "provisioning"}

(* The checked properties, one order and one transaction at a time.        *)
ServesPaid(o) ==
  order[o].state \in Serving =>
    IF order[o].linked
    THEN /\ order[o].wallet = "none"
         /\ attempt[o].state \in {"paid", "completed"}
         /\ LET t == attempt[o].ext
            IN  receipt[t].state \in Used /\ receipt[t].amount = Due[o]
    ELSE order[o].wallet = "used"

AppliedServes(t) ==
  LET p == receipt[t].for
  IN  receipt[t].state = "applied" /\ p \in Orders => order[p].state \in Serving \union {"refunding"}

RefundedBack(o) ==
  LET t == attempt[o].ext
  IN  order[o].state = "refunded" /\ order[o].linked =>
        /\ t # None
        /\ refund[t].state = "succeeded"
        /\ t \in Stripe => bank[t].refund = "succeeded"

PayInv ==
  /\ TypeOK /\ CallSound /\ HolderSound
  /\ \A o \in Orders : OrderSound(o) /\ ServesPaid(o) /\ RefundedBack(o)
  /\ \A p \in Payables : AttemptSound(p)
  /\ \A t \in Txns : ReceiptSound(t) /\ RefundSound(t) /\ AppliedServes(t)
-----------------------------------------------------------------------------
(* Rows keep their shape when a field is changed.                          *)
LEMMA OrderRow ==
  ASSUME NEW r \in OrderRows, NEW s \in OrderStates, NEW a \in Nat \union {Unset},
         NEW w \in {"none", "used", "returned"}, NEW l \in BOOLEAN
  PROVE  /\ [r EXCEPT !.state = s] \in OrderRows
         /\ [r EXCEPT !.linked = l] \in OrderRows
         /\ [r EXCEPT !.state = s, !.linked = l] \in OrderRows
         /\ [r EXCEPT !.state = s, !.wallet = w, !.linked = l] \in OrderRows
         /\ [r EXCEPT !.state = s, !.refund = a, !.wallet = w] \in OrderRows
BY DEF OrderRows

LEMMA AttemptRow ==
  ASSUME NEW r \in AttemptRows, NEW s \in AttemptStates, NEW x \in Txns \union {None}
  PROVE  /\ [r EXCEPT !.state = s] \in AttemptRows
         /\ [r EXCEPT !.state = s, !.ext = x] \in AttemptRows
         /\ [r EXCEPT !.state = s].state = s /\ [r EXCEPT !.state = s].ext = r.ext
         /\ [r EXCEPT !.state = s, !.ext = x].state = s
         /\ [r EXCEPT !.state = s, !.ext = x].ext = x
BY DEF AttemptRows

LEMMA ReceiptRow ==
  ASSUME NEW r \in ReceiptRows, NEW s \in ReceiptStates
  PROVE  /\ [r EXCEPT !.state = s] \in ReceiptRows
         /\ [r EXCEPT !.state = s].state = s /\ [r EXCEPT !.state = s].for = r.for
         /\ [r EXCEPT !.state = s].amount = r.amount
BY DEF ReceiptRows

LEMMA RefundRow ==
  ASSUME NEW r \in RefundRows, NEW s \in RefundStates
  PROVE  /\ [r EXCEPT !.state = s] \in RefundRows
         /\ [r EXCEPT !.state = s].state = s
BY DEF RefundRows

LEMMA Shapes ==
  ASSUME TypeOK
  PROVE  /\ \A o \in Orders : order[o] \in OrderRows /\ order[o].linked \in BOOLEAN
         /\ \A p \in Payables : /\ attempt[p] \in AttemptRows
                                /\ attempt[p].ext \in Txns \union {None}
         /\ \A t \in Txns : /\ receipt[t] \in ReceiptRows
                            /\ receipt[t].for \in Payables \union {None}
                            /\ refund[t] \in RefundRows
                            /\ bank[t] \in Held /\ bank[t].for \in Payables \union {None}
                            /\ bank[t].amount \in Nat
         /\ call \in Txns \union {None}
         /\ None \notin Payables /\ None \notin Txns /\ Orders \intersect Topups = {}
         /\ Due \in [Payables -> Nat \ {0}]
BY PaymentsAssumption DEF TypeOK, OrderRows, AttemptRows, ReceiptRows, Held

LEMMA Parts ==
  ASSUME PayInv
  PROVE  /\ TypeOK /\ CallSound /\ HolderSound
         /\ \A o \in Orders : OrderSound(o) /\ ServesPaid(o) /\ RefundedBack(o)
         /\ \A p \in Payables : AttemptSound(p)
         /\ \A t \in Txns : ReceiptSound(t) /\ RefundSound(t) /\ AppliedServes(t)
         /\ Orders \subseteq Payables /\ Topups \subseteq Payables
BY DEF PayInv, Payables
-----------------------------------------------------------------------------
(* Steps in memory only: requests, the lock, the clock, a crash.           *)
LEMMA OutsideKeeps ==
  ASSUME PayInv, TypeOK', HolderSound', UNCHANGED <<records, bank>>,
         call' = call \/ call' = None
  PROVE  PayInv'
<1>1. UNCHANGED <<order, attempt, receipt, refund, credited, bank>>
  BY DEF records
<1> QED
  BY <1>1, Parts DEF PayInv, CallSound, OrderSound, ServesPaid, RefundedBack, AttemptSound,
       ReceiptSound, RefundSound, AppliedServes, Serving, Used, Settled

(* Attempts that have no money: opened, shown or ended.                    *)
LEMMA UnpaidKeeps ==
  ASSUME PayInv, TypeOK', HolderSound',
         UNCHANGED <<order, receipt, refund, credited, bank, call>>,
         \A p \in Payables :
           \/ attempt'[p] = attempt[p]
           \/ /\ attempt[p].state \notin Settled /\ attempt'[p].ext = None
              /\ attempt'[p].state \in {"created", "awaiting_customer", "cancelled", "expired"}
              /\ p \in Topups \/ attempt[p].state # "none"
  PROVE  PayInv'
<1>1. \A o \in Orders : o \in Payables /\ o \notin Topups
  BY PaymentsAssumption DEF Payables
<1>2. ASSUME NEW p \in Payables
      PROVE  /\ AttemptSound(p)'
             /\ attempt[p].ext # None => attempt'[p] = attempt[p]
             /\ attempt[p].state # "none" => attempt'[p].state # "none"
             /\ attempt[p].state \in Settled => attempt'[p] = attempt[p]
             /\ p \notin Topups /\ attempt[p].state = "none" => attempt'[p] = attempt[p]
  <2>1. AttemptSound(p)
    BY Parts
  <2> QED
    BY <2>1 DEF AttemptSound, Settled, Used
<1>3. ASSUME NEW o \in Orders PROVE OrderSound(o)' /\ ServesPaid(o)' /\ RefundedBack(o)'
  <2>1. OrderSound(o) /\ ServesPaid(o) /\ RefundedBack(o)
    BY Parts
  <2>2. OrderSound(o)'
    BY <1>1, <1>2, <2>1 DEF OrderSound, Settled
  <2>3. ServesPaid(o)'
    BY <1>1, <1>2, <2>1 DEF ServesPaid, Serving, Used, Settled
  <2>4. RefundedBack(o)'
    BY <1>1, <1>2, <2>1 DEF RefundedBack
  <2> QED
    BY <2>2, <2>3, <2>4
<1>4. ASSUME NEW t \in Txns PROVE ReceiptSound(t)' /\ RefundSound(t)' /\ AppliedServes(t)'
  <2>1. /\ ReceiptSound(t) /\ RefundSound(t) /\ AppliedServes(t) /\ TypeOK
        /\ Topups \subseteq Payables
    BY Parts
  <2>2. /\ receipt[t].for \in Payables \union {None} /\ bank[t].for \in Payables \union {None}
        /\ None \notin Txns
    BY <2>1, Shapes
  <2>3. ReceiptSound(t)'
    BY <1>2, <2>1, <2>2 DEF ReceiptSound, Used, Settled
  <2>4. RefundSound(t)'
    BY <1>2, <2>1, <2>2 DEF RefundSound
  <2>5. AppliedServes(t)'
    BY <2>1 DEF AppliedServes, Serving
  <2> QED
    BY <2>3, <2>4, <2>5
<1> QED
  BY <1>2, <1>3, <1>4, Parts DEF PayInv, CallSound
-----------------------------------------------------------------------------
(* The step lemma's cases, each without its types first.                   *)
LEMMA TypeOutside ==
  ASSUME TypeOK
  PROVE  /\ \A t \in Txns : Deliver(t) => TypeOK'
         /\ \A t \in Txns, p \in Payables \union {None}, a \in Amounts : Pay(t, p, a) => TypeOK'
         /\ \A t \in Txns, s \in {"pending", "succeeded", "failed"} : GatewaySettles(t, s) => TypeOK'
         /\ GatewayRefund => TypeOK'
         /\ Tick => TypeOK'
         /\ Crash => TypeOK'
         /\ GiveUp => TypeOK'
<1> USE PaymentsAssumption
<1>1. ASSUME NEW t \in Txns, Deliver(t) PROVE TypeOK'
  BY <1>1 DEF Deliver, TypeOK, records
<1>2. ASSUME NEW t \in Txns, NEW p \in Payables \union {None}, NEW a \in Amounts, Pay(t, p, a)
      PROVE TypeOK'
  <2>1. [bank[t] EXCEPT !.paid = TRUE, !.for = p, !.amount = a] \in Held
    <3>1. bank[t] \in Held
      BY DEF TypeOK
    <3> QED
      BY <3>1 DEF Held
  <2>2. bank' \in [Txns -> Held]
    BY <1>2, <2>1 DEF Pay, TypeOK
  <2> QED
    BY <1>2, <2>2 DEF Pay, TypeOK, records
<1>3. ASSUME NEW t \in Txns, NEW s \in {"pending", "succeeded", "failed"}, GatewaySettles(t, s)
      PROVE TypeOK'
  <2>1. [bank[t] EXCEPT !.refund = s] \in Held
    <3>1. bank[t] \in Held
      BY DEF TypeOK
    <3> QED
      BY <3>1 DEF Held
  <2>2. bank' \in [Txns -> Held]
    BY <1>3, <2>1 DEF GatewaySettles, TypeOK
  <2> QED
    BY <1>3, <2>2 DEF GatewaySettles, TypeOK, records
<1>4. ASSUME GatewayRefund PROVE TypeOK'
  <2>1. call \in Txns /\ bank[call] \in Held /\ receipt[call] \in ReceiptRows
    BY <1>4 DEF GatewayRefund, TypeOK
  <2>2. receipt[call].amount \in Nat
    BY <2>1 DEF ReceiptRows
  <2>3. [bank[call] EXCEPT !.refund = "pending", !.back = receipt[call].amount] \in Held
    BY <2>1, <2>2 DEF Held
  <2>4. bank' \in [Txns -> Held]
    BY <1>4, <2>1, <2>3 DEF GatewayRefund, TypeOK
  <2> QED
    BY <1>4, <2>4 DEF GatewayRefund, TypeOK, records
<1>5. Tick => TypeOK'
  BY DEF Tick, TypeOK, records
<1>6. Crash => TypeOK'
  BY DEF Crash, TypeOK, records, Free, Holder, OrderStates
<1>7. GiveUp => TypeOK'
  BY DEF GiveUp, TypeOK, records, Free, Holder, OrderStates
<1> QED
  BY <1>1, <1>2, <1>3, <1>4, <1>5, <1>6, <1>7

LEMMA TypeAttempt ==
  ASSUME TypeOK, NEW p \in Payables, ReserveTopup(p) \/ Checkout(p)
  PROVE  TypeOK'
<1>1. attempt' \in [Payables -> AttemptRows]
  <2>1. CASE ReserveTopup(p)
    <3>1. [state |-> "created", ext |-> None, expires |-> now + TopupTTL] \in AttemptRows
      BY PaymentsAssumption DEF AttemptRows, AttemptStates, TypeOK
    <3> QED
      BY <2>1, <3>1 DEF ReserveTopup, TypeOK
  <2>2. CASE Checkout(p)
    <3>1. attempt[p] \in AttemptRows
      BY DEF TypeOK
    <3>2. [attempt[p] EXCEPT !.state = "awaiting_customer"] \in AttemptRows
      BY <3>1, AttemptRow DEF AttemptStates
    <3> QED
      BY <2>2, <3>2 DEF Checkout, TypeOK
  <2> QED
    BY <2>1, <2>2
<1> QED
  BY <1>1 DEF ReserveTopup, Checkout, TypeOK

LEMMA TypeMember ==
  ASSUME TypeOK, NEW o \in Orders
  PROVE  /\ ReserveOrder(o) => TypeOK'
         /\ \A op \in {"confirm", "cancel", "expire", "persist"} : Reads(op, o) => TypeOK'
         /\ Confirm(o) => TypeOK'
         /\ Cancel(o) => TypeOK'
         /\ EndAttempt(o) => TypeOK'
         /\ PersistExpired(o) => TypeOK'
         /\ Provision(o) => TypeOK'
         /\ FailProvisioning(o) => TypeOK'
         /\ \A a \in Nat \union {Unset} : Withdrawn(o, a) => TypeOK'
         /\ \A a \in 0..Due[o] : ApproveRefund(o, a) => TypeOK'
<1> USE PaymentsAssumption
<1>1. /\ o \in Payables /\ order[o] \in OrderRows /\ attempt[o] \in AttemptRows
      /\ order[o].state \in OrderStates /\ order[o].linked \in BOOLEAN
      /\ order[o].expires \in Nat /\ order[o].refund \in Nat \union {Unset}
      /\ order[o].wallet \in {"none", "used", "returned"}
      /\ mu.state \in OrderStates /\ mu.linked \in BOOLEAN
  BY DEF TypeOK, OrderRows, Payables, Holder
<1>2. Free \in Holder
  BY DEF Free, Holder, OrderStates
<1>3. \A p \in Payables : attempt[p] \in AttemptRows
  BY DEF TypeOK
<1>4. ASSUME NEW s \in AttemptStates, NEW p \in Payables
      PROVE [attempt EXCEPT ![p].state = s] \in [Payables -> AttemptRows]
  <2>1. [attempt[p] EXCEPT !.state = s] \in AttemptRows
    BY <1>3, AttemptRow
  <2> QED
    BY <2>1 DEF TypeOK
<1>5. \A p : MarkReceiptRefund(p) => receipt' \in [Txns -> ReceiptRows]
  <2>1. \A t \in Txns : [receipt[t] EXCEPT !.state = "refund_required"] \in ReceiptRows
    <3>1. \A t \in Txns : receipt[t] \in ReceiptRows
      BY DEF TypeOK
    <3> QED
      BY <3>1, ReceiptRow DEF ReceiptStates
  <2> QED
    BY <2>1 DEF MarkReceiptRefund, TypeOK
<1>6. Owe(o) => attempt' \in [Payables -> AttemptRows] /\ receipt' \in [Txns -> ReceiptRows]
  <2>1. attempt \in [Payables -> AttemptRows]
    BY DEF TypeOK
  <2> QED
    BY <1>1, <1>4, <1>5, <2>1 DEF Owe, AttemptStates
<1>7. ASSUME NEW s \in OrderStates, NEW a \in Nat \union {Unset}, Ends(o, s, a)
      PROVE  order' \in [Orders -> OrderRows]
  <2> DEFINE w == IF order[o].wallet = "used" /\ s # "refunding" THEN "returned" ELSE order[o].wallet
  <2>1. [order[o] EXCEPT !.state = s, !.refund = a, !.wallet = w] \in OrderRows
    BY <1>1, OrderRow
  <2>2. order' = [order EXCEPT ![o] = [order[o] EXCEPT !.state = s, !.refund = a, !.wallet = w]]
    BY <1>7 DEF Ends
  <2> HIDE DEF w
  <2> QED
    BY <2>1, <2>2 DEF TypeOK
<1>8. ASSUME NEW r \in OrderRows, order' = [order EXCEPT ![o] = r]
      PROVE  order' \in [Orders -> OrderRows]
  BY <1>8 DEF TypeOK
<1>9. ASSUME ReserveOrder(o) PROVE TypeOK'
  <2>1. [order[o] EXCEPT !.linked = TRUE] \in OrderRows
    BY <1>1, OrderRow
  <2>2. order' \in [Orders -> OrderRows]
    BY <1>9, <2>1 DEF ReserveOrder, TypeOK
  <2>3. [state |-> "created", ext |-> None, expires |-> order[o].expires] \in AttemptRows
    BY <1>1 DEF AttemptRows, AttemptStates
  <2>4. attempt' \in [Payables -> AttemptRows]
    BY <1>1, <1>9, <2>3 DEF ReserveOrder, TypeOK
  <2> QED
    BY <1>9, <2>2, <2>4 DEF ReserveOrder, TypeOK
<1>10. ASSUME NEW op \in {"confirm", "cancel", "expire", "persist"}, Reads(op, o) PROVE TypeOK'
  <2>1. mu' \in Holder
    BY <1>1, <1>10 DEF Reads, Holder
  <2> QED
    BY <1>10, <2>1 DEF Reads, TypeOK, records
<1>13. ASSUME Confirm(o) PROVE TypeOK'
  <2>1. [order[o] EXCEPT !.state = "provisioning", !.wallet = "used", !.linked = mu.linked] \in OrderRows
    BY <1>1, OrderRow DEF OrderStates
  <2>2. order' \in [Orders -> OrderRows]
    BY <1>8, <1>13, <2>1 DEF Confirm
  <2> QED
    BY <1>2, <1>13, <2>2 DEF Confirm, TypeOK
<1>14. ASSUME Cancel(o) PROVE TypeOK'
  <2>1. order' \in [Orders -> OrderRows]
    BY <1>1, <1>7, <1>14 DEF Cancel, OrderStates
  <2>2. attempt' \in [Payables -> AttemptRows] /\ receipt' \in [Txns -> ReceiptRows]
    <3>1. CASE mu.linked
      <4>1. CASE attempt[o].state \in {"created", "awaiting_customer"}
        <5>1. attempt' = [attempt EXCEPT ![o].state = "cancelled"] /\ MarkReceiptRefund(o)
          BY <1>14, <3>1, <4>1 DEF Cancel
        <5> QED
          BY <1>1, <1>4, <1>5, <5>1 DEF AttemptStates
      <4>2. CASE attempt[o].state \notin {"created", "awaiting_customer"}
        BY <1>6, <1>14, <3>1, <4>2 DEF Cancel
      <4> QED
        BY <4>1, <4>2
    <3>2. CASE ~mu.linked
      BY <1>14, <3>2 DEF Cancel, TypeOK
    <3> QED
      BY <3>1, <3>2
  <2> QED
    BY <1>2, <1>14, <2>1, <2>2 DEF Cancel, TypeOK
<1>15. ASSUME EndAttempt(o) PROVE TypeOK'
  <2>1. attempt \in [Payables -> AttemptRows] /\ mu \in Holder
    BY DEF TypeOK
  <2>2. attempt' \in [Payables -> AttemptRows]
    BY <1>1, <1>4, <1>15, <2>1 DEF EndAttempt, AttemptStates
  <2>3. [mu EXCEPT !.op = "persist"] \in Holder
    BY <2>1 DEF Holder
  <2> QED
    BY <1>15, <2>2, <2>3 DEF EndAttempt, TypeOK
<1>16. ASSUME PersistExpired(o) PROVE TypeOK'
  <2>1. [order[o] EXCEPT !.state = "expired", !.linked = mu.linked] \in OrderRows
    BY <1>1, OrderRow DEF OrderStates
  <2>2. order' \in [Orders -> OrderRows]
    BY <1>8, <1>16, <2>1 DEF PersistExpired
  <2> QED
    BY <1>2, <1>16, <2>2 DEF PersistExpired, TypeOK
<1>17. ASSUME Provision(o) PROVE TypeOK'
  <2>1. [order[o] EXCEPT !.state = "completed"] \in OrderRows
    BY <1>1, OrderRow DEF OrderStates
  <2>2. order' \in [Orders -> OrderRows]
    BY <1>17, <2>1 DEF Provision, TypeOK
  <2>3. attempt \in [Payables -> AttemptRows]
    BY DEF TypeOK
  <2>4. attempt' \in [Payables -> AttemptRows]
    BY <1>1, <1>4, <1>17, <2>3 DEF Provision, AttemptStates
  <2> QED
    BY <1>17, <2>2, <2>4 DEF Provision, TypeOK
<1>18. ASSUME FailProvisioning(o) PROVE TypeOK'
  <2>1. order' \in [Orders -> OrderRows]
    BY <1>1, <1>7, <1>18 DEF FailProvisioning, OrderStates
  <2>2. attempt' \in [Payables -> AttemptRows] /\ receipt' \in [Txns -> ReceiptRows]
    BY <1>6, <1>18 DEF FailProvisioning, TypeOK
  <2> QED
    BY <1>18, <2>1, <2>2 DEF FailProvisioning, TypeOK
<1>19. ASSUME NEW a \in Nat \union {Unset}, Withdrawn(o, a) PROVE TypeOK'
  <2>1. order' \in [Orders -> OrderRows]
    BY <1>7, <1>19 DEF Withdrawn, OrderStates
  <2>2. attempt' \in [Payables -> AttemptRows] /\ receipt' \in [Txns -> ReceiptRows]
    BY <1>6, <1>19 DEF Withdrawn, TypeOK
  <2> QED
    BY <1>19, <2>1, <2>2 DEF Withdrawn, TypeOK
<1>20. ASSUME NEW a \in 0..Due[o], ApproveRefund(o, a) PROVE TypeOK'
  <2>1. a \in Nat \union {Unset}
    BY <1>1
  <2>2. order' \in [Orders -> OrderRows]
    BY <1>7, <1>20, <2>1 DEF ApproveRefund, OrderStates
  <2> QED
    BY <1>20, <2>2 DEF ApproveRefund, TypeOK
<1> QED
  BY <1>9, <1>10, <1>13, <1>14, <1>15, <1>16, <1>17, <1>18, <1>19, <1>20

LEMMA TypeWork ==
  ASSUME TypeOK
  PROVE  /\ \A h \in hook : Record(h) => TypeOK'
         /\ \A t \in Txns : Activate(t) => TypeOK'
         /\ \A t \in Txns : Apply(t) => TypeOK'
         /\ \A t \in Txns : Credit(t) => TypeOK'
         /\ \A t \in Txns : Refuse(t) => TypeOK'
         /\ MarkEnded => TypeOK'
         /\ ExpireAttempts => TypeOK'
         /\ \A t \in Txns : RequestRefund(t) => TypeOK'
         /\ \A t \in Txns : ConfirmManual(t) => TypeOK'
         /\ \A t \in Txns : ClaimRefund(t) => TypeOK'
         /\ RefundUnanswered => TypeOK'
         /\ RefundAnswered => TypeOK'
         /\ \A t \in Txns, s \in {"pending", "succeeded", "failed"} : RefundNotice(t, s) => TypeOK'
<1> USE PaymentsAssumption
<1>1. /\ order \in [Orders -> OrderRows] /\ attempt \in [Payables -> AttemptRows]
      /\ receipt \in [Txns -> ReceiptRows] /\ refund \in [Txns -> RefundRows]
      /\ credited \in [Txns -> Nat]
      /\ Orders \subseteq Payables /\ Topups \subseteq Payables
      /\ \A x \in Txns : receipt[x].for \in Payables \union {None} /\ receipt[x].amount \in Nat
      /\ \A o \in Orders : order[o].refund \in Nat \union {Unset}
  <2>1. TypeOK
    OBVIOUS
  <2>2. \A x \in Txns : receipt[x].for \in Payables \union {None} /\ receipt[x].amount \in Nat
    BY Shapes DEF ReceiptRows
  <2>3. \A o \in Orders : order[o].refund \in Nat \union {Unset}
    BY Shapes DEF OrderRows
  <2> QED
    BY <2>1, <2>2, <2>3 DEF TypeOK, Payables
<1>2. ASSUME NEW s \in OrderStates, NEW o \in Orders
      PROVE  [order EXCEPT ![o].state = s] \in [Orders -> OrderRows]
  <2>1. order[o] \in OrderRows
    BY <1>1
  <2>2. [order[o] EXCEPT !.state = s] \in OrderRows
    BY <2>1 DEF OrderRows
  <2> QED
    BY <1>1, <2>2
<1>3. ASSUME NEW s \in AttemptStates, NEW p \in Payables, NEW x \in Txns
      PROVE  /\ [attempt EXCEPT ![p].state = s] \in [Payables -> AttemptRows]
             /\ [attempt EXCEPT ![p] = [@ EXCEPT !.state = s, !.ext = x]] \in [Payables -> AttemptRows]
  <2>1. attempt[p] \in AttemptRows
    BY <1>1
  <2>2. [attempt[p] EXCEPT !.state = s] \in AttemptRows
    BY <2>1, AttemptRow
  <2>3. [attempt[p] EXCEPT !.state = s, !.ext = x] \in AttemptRows
    BY <2>1, AttemptRow
  <2> QED
    BY <1>1, <2>2, <2>3
<1>4. ASSUME NEW s \in ReceiptStates, NEW x \in Txns
      PROVE  /\ [receipt[x] EXCEPT !.state = s] \in ReceiptRows
             /\ [receipt EXCEPT ![x].state = s] \in [Txns -> ReceiptRows]
  <2>1. receipt[x] \in ReceiptRows
    BY <1>1
  <2>2. [receipt[x] EXCEPT !.state = s] \in ReceiptRows
    BY <2>1, ReceiptRow
  <2> QED
    BY <1>1, <2>2
<1>5. ASSUME NEW s \in RefundStates, NEW x \in Txns
      PROVE  [refund EXCEPT ![x].state = s] \in [Txns -> RefundRows]
  <2>1. refund[x] \in RefundRows
    BY <1>1
  <2>2. [refund[x] EXCEPT !.state = s] \in RefundRows
    BY <2>1, RefundRow
  <2> QED
    BY <1>1, <2>2
<1>6. ASSUME NEW x \in Txns, Finish(x)
      PROVE  /\ order' \in [Orders -> OrderRows] /\ attempt' \in [Payables -> AttemptRows]
             /\ receipt' \in [Txns -> ReceiptRows]
  <2>1. order' \in [Orders -> OrderRows]
    BY <1>1, <1>2, <1>6 DEF Finish, OrderStates
  <2>2. attempt' \in [Payables -> AttemptRows]
    BY <1>1, <1>3, <1>6 DEF Finish, AttemptStates
  <2>3. receipt' \in [Txns -> ReceiptRows]
    BY <1>4, <1>6 DEF Finish, ReceiptStates
  <2> QED
    BY <2>1, <2>2, <2>3
<1>7. ASSUME NEW t \in Txns, NEW a \in RefundAmounts(t), NEW s \in RefundStates
      PROVE  [refund EXCEPT ![t] = [state |-> s, amount |-> a]] \in [Txns -> RefundRows]
  <2>1. \A o \in Orders : Due[o] \in Nat
    BY <1>1
  <2>2. a \in Nat
    BY <1>1, <2>1 DEF RefundAmounts, Unset
  <2>3. [state |-> s, amount |-> a] \in RefundRows
    BY <2>2 DEF RefundRows
  <2> QED
    BY <1>1, <2>3
<1>8. ASSUME NEW x \in Txns, NEW s \in {"pending", "succeeded", "failed"}, RecordStripeRefund(x, s)
      PROVE  /\ order' \in [Orders -> OrderRows] /\ attempt' \in [Payables -> AttemptRows]
             /\ receipt' \in [Txns -> ReceiptRows] /\ refund' \in [Txns -> RefundRows]
  BY <1>1, <1>5, <1>6, <1>8 DEF RecordStripeRefund, Status, RefundStates
<1>9. ASSUME NEW h \in hook, Record(h) PROVE TypeOK'
  <2>1. h.txn \in Txns /\ h.seen \in Nat
    BY DEF TypeOK
  <2>2. bank[h.txn] \in Held
    BY <2>1 DEF TypeOK
  <2>3. bank[h.txn].for \in Payables \union {None} /\ bank[h.txn].amount \in Nat
    BY <2>2 DEF Held
  <2>4. ASSUME NEW s \in ReceiptStates, Received(h, s) PROVE receipt' \in [Txns -> ReceiptRows]
    <3>1. [state |-> s, for |-> bank[h.txn].for, amount |-> bank[h.txn].amount, created |-> h.seen]
            \in ReceiptRows
      BY <2>1, <2>3 DEF ReceiptRows
    <3> QED
      BY <1>1, <2>4, <3>1 DEF Received
  <2>5. /\ order' \in [Orders -> OrderRows] /\ attempt' \in [Payables -> AttemptRows]
        /\ receipt' \in [Txns -> ReceiptRows]
    <3>1. CASE RecordPaid(h)
      BY <1>1, <1>3, <2>1, <2>3, <2>4, <3>1 DEF RecordPaid, AttemptStates, ReceiptStates
    <3>2. CASE RecordRefused(h)
      <4>1. receipt' \in [Txns -> ReceiptRows]
        BY <2>4, <3>2 DEF RecordRefused, ReceiptStates
      <4>2. attempt' \in [Payables -> AttemptRows]
        BY <1>1, <1>3, <2>1, <2>3, <3>2 DEF RecordRefused, AttemptStates
      <4>3. order' \in [Orders -> OrderRows]
        BY <1>1, <1>2, <3>2 DEF RecordRefused, OrderStates
      <4> QED
        BY <4>1, <4>2, <4>3
    <3>3. CASE RecordUnknown(h)
      BY <1>1, <2>4, <3>3 DEF RecordUnknown, ReceiptStates
    <3>4. CASE RecordRepeated(h)
      BY <1>1, <3>4 DEF RecordRepeated
    <3> QED
      BY <1>9, <3>1, <3>2, <3>3, <3>4 DEF Record
  <2> QED
    BY <1>9, <2>5 DEF Record, TypeOK
<1>10. ASSUME NEW t \in Txns, Activate(t) PROVE TypeOK'
  <2>1. order' \in [Orders -> OrderRows]
    BY <1>2, <1>10 DEF Activate, OrderStates
  <2> QED
    BY <1>10, <2>1 DEF Activate, TypeOK
<1>11. ASSUME NEW t \in Txns, Apply(t) PROVE TypeOK'
  <2>1. receipt' \in [Txns -> ReceiptRows]
    BY <1>4, <1>11 DEF Apply, ReceiptStates
  <2> QED
    BY <1>11, <2>1 DEF Apply, TypeOK
<1>12. ASSUME NEW t \in Txns, Credit(t) PROVE TypeOK'
  <2>1. receipt' \in [Txns -> ReceiptRows]
    BY <1>4, <1>12 DEF Credit, ReceiptStates
  <2>2. credited' \in [Txns -> Nat]
    BY <1>1, <1>12 DEF Credit
  <2>3. attempt' \in [Payables -> AttemptRows]
    BY <1>1, <1>3, <1>12 DEF Credit, AttemptStates
  <2> QED
    BY <1>12, <2>1, <2>2, <2>3 DEF Credit, TypeOK
<1>13. ASSUME NEW t \in Txns, Refuse(t) PROVE TypeOK'
  <2>1. /\ order' \in [Orders -> OrderRows] /\ attempt' \in [Payables -> AttemptRows]
        /\ receipt' \in [Txns -> ReceiptRows]
    <3>1. CASE AlreadyUsed(receipt[t].for)
      <4>1. receipt' = [receipt EXCEPT ![t].state = "applied"] /\ UNCHANGED <<attempt, order>>
        BY <1>13, <3>1 DEF Refuse
      <4> QED
        BY <1>1, <1>4, <4>1 DEF ReceiptStates
    <3>2. CASE ~AlreadyUsed(receipt[t].for)
      <4>1. receipt' = [receipt EXCEPT ![t].state = "refund_required"]
        BY <1>13, <3>2 DEF Refuse
      <4>2. receipt' \in [Txns -> ReceiptRows]
        BY <1>4, <4>1 DEF ReceiptStates
      <4>3. \A p : p \notin Payables => [attempt EXCEPT ![p].state = "refund_required"] = attempt
        BY <1>1
      <4>4. \/ attempt' = attempt
            \/ attempt' = [attempt EXCEPT ![receipt[t].for].state = "refund_required"]
        BY <1>13, <3>2 DEF Refuse
      <4>5. attempt' \in [Payables -> AttemptRows]
        <5>1. CASE receipt[t].for \in Payables
          <6>1. [attempt EXCEPT ![receipt[t].for].state = "refund_required"] \in [Payables -> AttemptRows]
            BY <1>3, <5>1 DEF AttemptStates
          <6> QED
            BY <1>1, <4>4, <6>1
        <5>2. CASE receipt[t].for \notin Payables
          <6>1. [attempt EXCEPT ![receipt[t].for].state = "refund_required"] = attempt
            BY <4>3, <5>2
          <6> QED
            BY <1>1, <4>4, <6>1
        <5> QED
          BY <5>1, <5>2
      <4>6. \/ order' = order
            \/ /\ receipt[t].for \in Orders
               /\ order' = [order EXCEPT ![receipt[t].for].state = "failed"]
        BY <1>13, <3>2 DEF Refuse
      <4>7. order' \in [Orders -> OrderRows]
        BY <1>1, <1>2, <4>6 DEF OrderStates
      <4> QED
        BY <4>2, <4>5, <4>7
    <3> QED
      BY <3>1, <3>2
  <2> QED
    BY <1>13, <2>1 DEF Refuse, TypeOK
<1>14. ASSUME MarkEnded PROVE TypeOK'
  <2>1. receipt' \in [Txns -> ReceiptRows]
    BY <1>1, <1>4, <1>14 DEF MarkEnded, ReceiptStates
  <2> QED
    BY <1>14, <2>1 DEF MarkEnded, TypeOK
<1>15. ASSUME ExpireAttempts PROVE TypeOK'
  <2>1. ASSUME NEW p \in Payables PROVE [attempt[p] EXCEPT !.state = "expired"] \in AttemptRows
    <3>1. attempt[p] \in AttemptRows
      BY <1>1
    <3> QED
      BY <3>1, AttemptRow DEF AttemptStates
  <2>2. attempt' \in [Payables -> AttemptRows]
    BY <1>1, <1>15, <2>1 DEF ExpireAttempts
  <2> QED
    BY <1>15, <2>2 DEF ExpireAttempts, TypeOK
<1>16. ASSUME NEW t \in Txns, RequestRefund(t) PROVE TypeOK'
  <2>1. receipt' \in [Txns -> ReceiptRows]
    BY <1>4, <1>16 DEF RequestRefund, ReceiptStates
  <2>2. refund' \in [Txns -> RefundRows]
    <3>1. PICK a \in RefundAmounts(t) \ {0} :
            refund' = [refund EXCEPT ![t] = [state |-> "queued", amount |-> a]]
      BY <1>16 DEF RequestRefund
    <3> QED
      BY <1>7, <3>1 DEF RefundStates
  <2> QED
    BY <1>16, <2>1, <2>2 DEF RequestRefund, TypeOK
<1>17. ASSUME NEW t \in Txns, ConfirmManual(t) PROVE TypeOK'
  <2>1. refund' \in [Txns -> RefundRows]
    <3>1. PICK a \in RefundAmounts(t) \ {0} :
            refund' = [refund EXCEPT ![t] = [state |-> "succeeded", amount |-> a]]
      BY <1>17 DEF ConfirmManual
    <3> QED
      BY <1>7, <3>1 DEF RefundStates
  <2> QED
    BY <1>6, <1>17, <2>1 DEF ConfirmManual, TypeOK
<1>18. ASSUME NEW t \in Txns, ClaimRefund(t) PROVE TypeOK'
  <2>1. refund' \in [Txns -> RefundRows]
    BY <1>5, <1>18 DEF ClaimRefund, RefundStates
  <2> QED
    BY <1>18, <2>1 DEF ClaimRefund, TypeOK
<1>19. ASSUME RefundUnanswered PROVE TypeOK'
  <2>1. call \in Txns
    BY <1>19 DEF RefundUnanswered, TypeOK
  <2>2. refund[call] \in RefundRows
    BY <1>1, <2>1
  <2>3. refund[call].state \in RefundStates
    BY <2>2 DEF RefundRows
  <2>4. refund' \in [Txns -> RefundRows]
    BY <1>5, <1>19, <2>1, <2>3 DEF RefundUnanswered, RefundStates
  <2> QED
    BY <1>19, <2>4 DEF RefundUnanswered, TypeOK
<1>20. \A x \in Txns : bank[x].refund \in {"none", "pending", "succeeded", "failed"}
  BY Shapes DEF Held
<1>21. ASSUME RefundAnswered PROVE TypeOK'
  <2>1. call \in Txns
    BY <1>21 DEF RefundAnswered, TypeOK
  <2>2. bank[call].refund \in {"pending", "succeeded", "failed"}
    BY <1>20, <1>21, <2>1 DEF RefundAnswered
  <2> QED
    BY <1>8, <1>21, <2>1, <2>2 DEF RefundAnswered, TypeOK
<1>22. ASSUME NEW t \in Txns, NEW s \in {"pending", "succeeded", "failed"}, RefundNotice(t, s) PROVE TypeOK'
  BY <1>8, <1>22 DEF RefundNotice, TypeOK
<1> QED
  BY <1>9, <1>10, <1>11, <1>12, <1>13, <1>14, <1>15, <1>16, <1>17, <1>18, <1>19, <1>21, <1>22

LEMMA TypeSafe ==
  ASSUME TypeOK, [Next]_vars
  PROVE  TypeOK'
<1>1. CASE UNCHANGED vars
  BY <1>1 DEF vars, records, TypeOK
<1>2. CASE Gateway
  <2>1. ASSUME NEW t \in Txns, NEW s \in {"pending", "succeeded", "failed"},
               GatewaySettles(t, s) \/ RefundNotice(t, s)
        PROVE  TypeOK'
    BY <2>1, TypeOutside, TypeWork
  <2>2. ASSUME NEW t \in Txns, NEW p \in Payables \union {None}, NEW a \in Amounts, Pay(t, p, a)
        PROVE  TypeOK'
    BY <2>2, TypeOutside
  <2> QED
    BY <1>2, <2>1, <2>2, TypeOutside DEF Gateway
<1>3. CASE Member
  <2>1. ASSUME NEW o \in Orders, ReserveOrder(o) \/ BeginConfirm(o) \/ BeginCancel(o) PROVE TypeOK'
    BY <2>1, TypeMember DEF BeginConfirm, BeginCancel
  <2>2. ASSUME NEW p \in Payables, ReserveTopup(p) \/ Checkout(p) PROVE TypeOK'
    BY <2>2, TypeAttempt
  <2> QED
    BY <1>3, <2>1, <2>2 DEF Member, Payables
<1>4. CASE Owner
  <2>1. \A o \in Orders : Due[o] \in Nat
    BY PaymentsAssumption DEF Payables
  <2> QED
    BY <1>4, <2>1, TypeMember, TypeWork DEF Owner, RefundQueued
<1>5. CASE Work
  <2>1. \A o \in Orders : order[o].refund \in Nat \union {Unset}
    BY Shapes DEF OrderRows
  <2>2. ASSUME NEW o \in Orders, BeginExpire(o) PROVE TypeOK'
    BY <2>2, TypeMember DEF BeginExpire
  <2>3. ASSUME NEW t \in Txns, Reconcile(t) \/ RefuseMember(t) \/ ClaimRefund(t) PROVE TypeOK'
    BY <2>3, TypeWork DEF Reconcile, RefuseOver, RefuseMember
  <2>4. ASSUME NEW o \in Orders,
               \/ Confirm(o) \/ Cancel(o) \/ EndAttempt(o) \/ PersistExpired(o)
               \/ Provision(o) \/ FailProvisioning(o) \/ Withdraw(o)
        PROVE  TypeOK'
    BY <2>1, <2>4, TypeMember DEF Withdraw
  <2>5. ASSUME NEW h \in hook, Record(h) PROVE TypeOK'
    <3>1. h.txn \in Txns
      BY DEF TypeOK
    <3> QED
      BY <2>5, <3>1, TypeWork
  <2>6. ASSUME MarkEnded \/ ExpireAttempts PROVE TypeOK'
    BY <2>6, TypeWork
  <2>7. ASSUME RefundAnswered \/ RefundUnanswered PROVE TypeOK'
    BY <2>7, TypeWork
  <2> QED
    BY <1>5, <2>2, <2>3, <2>4, <2>5, <2>6, <2>7, TypeOutside DEF Work
<1> QED
  BY <1>1, <1>2, <1>3, <1>4, <1>5, TypeOutside DEF Next

(* What the holder of App.mu has read is what its operation may start from. *)
LEMMA HolderSafe ==
  ASSUME TypeOK, HolderSound, [Next]_vars
  PROVE  HolderSound'
<1>1. ASSUME mu' = mu \/ mu' = Free PROVE HolderSound'
  BY <1>1 DEF HolderSound, Free
<1>2. ASSUME NEW o \in Orders, BeginConfirm(o) \/ BeginCancel(o) \/ BeginExpire(o) PROVE HolderSound'
  BY <1>2 DEF BeginConfirm, BeginCancel, BeginExpire, Reads, HolderSound
<1>3. ASSUME NEW o \in Orders, EndAttempt(o) PROVE HolderSound'
  BY <1>3 DEF EndAttempt, HolderSound, TypeOK, Holder
<1>4. CASE Gateway
  BY <1>1, <1>4 DEF Gateway, Pay, Deliver, GatewaySettles, RefundNotice, GatewayRefund
<1>5. CASE Member
  BY <1>1, <1>2, <1>5 DEF Member, ReserveOrder, ReserveTopup, Checkout
<1>6. CASE Owner
  BY <1>1, <1>6 DEF Owner, RefundQueued, Withdrawn, ApproveRefund, RequestRefund, ConfirmManual
<1>7. CASE Work
  <2>1. ASSUME NEW h \in hook, Record(h) PROVE mu' = mu
    BY <2>1 DEF Record
  <2>2. ASSUME NEW t \in Txns, Reconcile(t) \/ RefuseMember(t) \/ ClaimRefund(t) PROVE mu' = mu
    BY <2>2 DEF Reconcile, Activate, Apply, Credit, RefuseOver, RefuseMember, Refuse, ClaimRefund
  <2>3. ASSUME NEW o \in Orders,
               \/ Confirm(o) \/ Cancel(o) \/ PersistExpired(o)
               \/ Provision(o) \/ FailProvisioning(o) \/ Withdraw(o)
        PROVE  mu' = mu \/ mu' = Free
    BY <2>3 DEF Confirm, Cancel, PersistExpired, Provision, FailProvisioning, Withdraw, Withdrawn
  <2> QED
    BY <1>1, <1>2, <1>3, <1>7, <2>1, <2>2, <2>3
       DEF Work, MarkEnded, ExpireAttempts, GiveUp, RefundAnswered, RefundUnanswered
<1> QED
  BY <1>1, <1>4, <1>5, <1>6, <1>7 DEF Next, Tick, Crash, vars
-----------------------------------------------------------------------------
(* Steps of the gateway: it forgets no payment and no refund.              *)
LEMMA BankKeeps ==
  ASSUME PayInv, TypeOK', HolderSound', UNCHANGED <<records, call>>,
         \A t \in Txns :
           /\ bank[t].refund = "succeeded" => bank'[t].refund = "succeeded"
           /\ bank'[t].refund # "none" => refund[t].state # "none"
           /\ bank'[t].refund = "none" => bank'[t].back = 0
           /\ bank'[t].for # None => attempt[bank'[t].for].state # "none"
  PROVE  PayInv'
<1>1. UNCHANGED <<order, attempt, receipt, refund, credited>>
  BY DEF records
<1>2. ASSUME NEW o \in Orders PROVE OrderSound(o)' /\ ServesPaid(o)' /\ RefundedBack(o)'
  <2>1. OrderSound(o) /\ ServesPaid(o) /\ RefundedBack(o) /\ TypeOK /\ o \in Payables
    BY Parts
  <2>2. attempt[o].ext \in Txns \union {None}
    BY <2>1, Shapes
  <2> QED
    BY <1>1, <2>1, <2>2 DEF OrderSound, ServesPaid, RefundedBack, Serving, Used
<1>3. ASSUME NEW t \in Txns PROVE ReceiptSound(t)' /\ RefundSound(t)' /\ AppliedServes(t)'
  BY <1>1, Parts DEF ReceiptSound, RefundSound, AppliedServes, Serving, Used
<1>4. ASSUME NEW p \in Payables PROVE AttemptSound(p)'
  BY <1>1, Parts DEF AttemptSound, Settled, Used
<1> QED
  BY <1>1, <1>2, <1>3, <1>4, Parts DEF PayInv, CallSound

(* Steps of the refund worker that settle nothing.                         *)
LEMMA RefundKeeps ==
  ASSUME PayInv, TypeOK', HolderSound',
         UNCHANGED <<order, attempt, receipt, credited, bank>>,
         CallSound',
         \A t \in Txns :
           \/ refund'[t].state = refund[t].state
           \/ refund[t].state \in Open /\ refund'[t].state \in {"processing", "pending", "failed"}
  PROVE  PayInv'
<1>2. ASSUME NEW o \in Orders PROVE OrderSound(o)' /\ ServesPaid(o)' /\ RefundedBack(o)'
  <2>1. OrderSound(o) /\ ServesPaid(o) /\ RefundedBack(o) /\ TypeOK /\ o \in Payables
    BY Parts
  <2>2. attempt[o].ext \in Txns \union {None}
    BY <2>1, Shapes
  <2> QED
    BY <2>1, <2>2 DEF OrderSound, ServesPaid, RefundedBack, Serving, Used, Open
<1>3. ASSUME NEW t \in Txns PROVE ReceiptSound(t)' /\ RefundSound(t)' /\ AppliedServes(t)'
  BY Parts DEF ReceiptSound, RefundSound, AppliedServes, Serving, Used, Open
<1>4. ASSUME NEW p \in Payables PROVE AttemptSound(p)'
  BY Parts DEF AttemptSound, Settled, Used
<1> QED
  BY <1>2, <1>3, <1>4, Parts DEF PayInv

(* Steps that change one order only.                                       *)
LEMMA OrderKeeps ==
  ASSUME PayInv, TypeOK', HolderSound',
         UNCHANGED <<attempt, receipt, refund, credited, bank, call>>,
         \A o \in Orders : OrderSound(o)' /\ ServesPaid(o)' /\ RefundedBack(o)',
         \A t \in Txns : AppliedServes(t)'
  PROVE  PayInv'
<1>1. ASSUME NEW t \in Txns PROVE ReceiptSound(t)' /\ RefundSound(t)'
  BY Parts DEF ReceiptSound, RefundSound, Used
<1>2. ASSUME NEW p \in Payables PROVE AttemptSound(p)'
  BY Parts DEF AttemptSound, Settled, Used
<1> QED
  BY <1>1, <1>2, Parts DEF PayInv, CallSound
-----------------------------------------------------------------------------
LEMMA OrderParts ==
  ASSUME PayInv, NEW o \in Orders
  PROVE  /\ o \in Payables /\ o \notin Topups
         /\ OrderSound(o) /\ ServesPaid(o) /\ RefundedBack(o) /\ AttemptSound(o)
         /\ attempt[o].ext \in Txns \union {None}
         /\ order[o] \in OrderRows /\ order[o].linked \in BOOLEAN
         /\ order \in [Orders -> OrderRows] /\ attempt \in [Payables -> AttemptRows]
         /\ receipt \in [Txns -> ReceiptRows]
         /\ \A t \in Txns : ReceiptSound(t) /\ RefundSound(t) /\ AppliedServes(t)
<1>1. TypeOK /\ o \in Payables
  BY Parts
<1>2. attempt[o].ext \in Txns \union {None} /\ order[o] \in OrderRows /\ order[o].linked \in BOOLEAN
  BY <1>1, Shapes
<1>3. o \notin Topups
  BY PaymentsAssumption
<1> QED
  BY <1>1, <1>2, <1>3, Parts DEF TypeOK

(* From the wallet: nobody has linked a payment since the order was read.  *)
LEMMA ConfirmKeeps ==
  ASSUME PayInv, TypeOK', HolderSound', NEW o \in Orders, Confirm(o)
  PROVE  PayInv'
<1>1. /\ order[o].state = "pending" /\ ~order[o].linked /\ mu.linked = FALSE
      /\ UNCHANGED <<attempt, receipt, refund, credited, bank, call>>
  <2>1. HolderSound /\ TypeOK
    BY Parts
  <2>2. mu.linked \in BOOLEAN
    BY <2>1 DEF TypeOK, Holder
  <2> QED
    BY <2>1, <2>2 DEF Confirm, UnchangedSince, HolderSound
<1>2. \A x \in Orders : x # o => order'[x] = order[x]
  BY OrderParts DEF Confirm
<1>3. order'[o].state = "provisioning" /\ order'[o].wallet = "used" /\ ~order'[o].linked
  <2>1. order'[o] = [order[o] EXCEPT !.state = "provisioning", !.wallet = "used", !.linked = mu.linked]
    BY OrderParts DEF Confirm
  <2> QED
    BY <1>1, <2>1, OrderParts DEF OrderRows
<1>4. ASSUME NEW x \in Orders PROVE OrderSound(x)' /\ ServesPaid(x)' /\ RefundedBack(x)'
  <2>1. CASE x = o
    BY <1>1, <1>3, <2>1, OrderParts DEF OrderSound, ServesPaid, RefundedBack, Serving
  <2>2. CASE x # o
    BY <1>1, <1>2, <2>2, OrderParts DEF OrderSound, ServesPaid, RefundedBack, Serving, Used
  <2> QED
    BY <2>1, <2>2
<1>5. ASSUME NEW t \in Txns PROVE AppliedServes(t)'
  BY <1>1, <1>2, <1>3, Parts DEF AppliedServes, Serving
<1> QED
  BY <1>1, <1>4, <1>5, OrderKeeps

(* From a receipt: the attempt is paid and the order has waited for it.    *)
LEMMA ActivateKeeps ==
  ASSUME PayInv, TypeOK', HolderSound', NEW t \in Txns, Activate(t)
  PROVE  PayInv'
<1> DEFINE o == receipt[t].for
<1>1. /\ o \in Orders /\ order[o].state = "pending" /\ order[o].linked
      /\ attempt[o].state = "paid" /\ receipt[t].state = "verified"
      /\ UNCHANGED <<attempt, receipt, refund, credited, bank, call>>
      /\ order' = [order EXCEPT ![o].state = "provisioning"]
  BY DEF Activate, MayActivate
<1> HIDE DEF o
<1>2. \A x \in Orders : x # o => order'[x] = order[x]
  BY <1>1, OrderParts
<1>3. order'[o].state = "provisioning" /\ order'[o].wallet = order[o].wallet /\ order'[o].linked
  BY <1>1, OrderParts DEF OrderRows
<1>4. attempt[o].ext = t
  BY <1>1, OrderParts DEF ReceiptSound, Used, o
<1>5. ASSUME NEW x \in Orders PROVE OrderSound(x)' /\ ServesPaid(x)' /\ RefundedBack(x)'
  <2>1. CASE x = o
    BY <1>1, <1>3, <1>4, <2>1, OrderParts
       DEF OrderSound, ServesPaid, RefundedBack, AttemptSound, Serving, Used
  <2>2. CASE x # o
    BY <1>1, <1>2, <2>2, OrderParts DEF OrderSound, ServesPaid, RefundedBack, Serving, Used
  <2> QED
    BY <2>1, <2>2
<1>6. ASSUME NEW u \in Txns PROVE AppliedServes(u)'
  BY <1>1, <1>2, <1>3, Parts DEF AppliedServes, Serving
<1> QED
  BY <1>1, <1>5, <1>6, OrderKeeps

LEMMA PersistKeeps ==
  ASSUME PayInv, TypeOK', HolderSound', NEW o \in Orders, PersistExpired(o)
  PROVE  PayInv'
<1>1. order[o].state = "pending" /\ UNCHANGED <<attempt, receipt, refund, credited, bank, call>>
  BY DEF PersistExpired
<1>2. \A x \in Orders : x # o => order'[x] = order[x]
  BY OrderParts DEF PersistExpired
<1>3. order'[o].state = "expired"
  <2>1. order'[o] = [order[o] EXCEPT !.state = "expired", !.linked = mu.linked]
    BY OrderParts DEF PersistExpired
  <2> QED
    BY <2>1, OrderParts DEF OrderRows
<1>4. ASSUME NEW x \in Orders PROVE OrderSound(x)' /\ ServesPaid(x)' /\ RefundedBack(x)'
  <2>1. CASE x = o
    BY <1>1, <1>3, <2>1 DEF OrderSound, ServesPaid, RefundedBack, Serving
  <2>2. CASE x # o
    BY <1>1, <1>2, <2>2, OrderParts DEF OrderSound, ServesPaid, RefundedBack, Serving, Used
  <2> QED
    BY <2>1, <2>2
<1>5. ASSUME NEW t \in Txns PROVE AppliedServes(t)'
  BY <1>1, <1>2, Parts DEF AppliedServes, Serving
<1> QED
  BY <1>1, <1>4, <1>5, OrderKeeps

LEMMA ApproveKeeps ==
  ASSUME PayInv, TypeOK', HolderSound', NEW o \in Orders, NEW a \in 0..Due[o], ApproveRefund(o, a)
  PROVE  PayInv'
<1>1. order[o].state = "completed" /\ UNCHANGED <<attempt, receipt, refund, credited, bank, call>>
  BY DEF ApproveRefund
<1>2. \A x \in Orders : x # o => order'[x] = order[x]
  BY OrderParts DEF ApproveRefund, Ends
<1>3. order'[o].state = "refunding" /\ order'[o].linked = order[o].linked
  <2> DEFINE w == order[o].wallet
  <2>1. order'[o] = [order[o] EXCEPT !.state = "refunding", !.refund = a, !.wallet = w]
    BY OrderParts DEF ApproveRefund, Ends
  <2> HIDE DEF w
  <2> QED
    BY <2>1, OrderParts DEF OrderRows
<1>4. ASSUME NEW x \in Orders PROVE OrderSound(x)' /\ ServesPaid(x)' /\ RefundedBack(x)'
  <2>1. CASE x = o
    BY <1>1, <1>3, <2>1, OrderParts DEF OrderSound, ServesPaid, RefundedBack, Serving
  <2>2. CASE x # o
    BY <1>1, <1>2, <2>2, OrderParts DEF OrderSound, ServesPaid, RefundedBack, Serving, Used
  <2> QED
    BY <2>1, <2>2
<1>5. ASSUME NEW t \in Txns PROVE AppliedServes(t)'
  BY <1>1, <1>2, <1>3, Parts DEF AppliedServes, Serving
<1> QED
  BY <1>1, <1>4, <1>5, OrderKeeps

LEMMA ReserveKeeps ==
  ASSUME PayInv, TypeOK', HolderSound', NEW o \in Orders, ReserveOrder(o)
  PROVE  PayInv'
<1>1. /\ order[o].state = "pending" /\ ~order[o].linked
      /\ UNCHANGED <<receipt, refund, credited, bank, call>>
  BY DEF ReserveOrder
<1>2. /\ \A x \in Orders : x # o => order'[x] = order[x]
      /\ \A p \in Payables : p # o => attempt'[p] = attempt[p]
      /\ attempt'[o].state = "created" /\ attempt'[o].ext = None
  BY OrderParts DEF ReserveOrder
<1>3. order'[o].state = "pending" /\ order'[o].linked /\ order'[o].wallet = order[o].wallet
  <2>1. order'[o] = [order[o] EXCEPT !.linked = TRUE]
    BY OrderParts DEF ReserveOrder
  <2> QED
    BY <1>1, <2>1, OrderParts DEF OrderRows
<1>4. attempt[o].state = "none" /\ attempt[o].ext = None
  BY <1>1, OrderParts DEF OrderSound, AttemptSound, Settled
<1>5. ASSUME NEW x \in Orders PROVE OrderSound(x)' /\ ServesPaid(x)' /\ RefundedBack(x)'
  <2>1. CASE x = o
    BY <1>1, <1>2, <1>3, <2>1, OrderParts DEF OrderSound, ServesPaid, RefundedBack, Serving
  <2>2. CASE x # o
    BY <1>1, <1>2, <2>2, OrderParts DEF OrderSound, ServesPaid, RefundedBack, Serving, Used
  <2> QED
    BY <2>1, <2>2
<1>6. ASSUME NEW p \in Payables PROVE AttemptSound(p)'
  <2>1. CASE p = o
    BY <1>2, <2>1 DEF AttemptSound, Settled
  <2>2. CASE p # o
    BY <1>1, <1>2, <2>2, Parts DEF AttemptSound, Settled, Used
  <2> QED
    BY <2>1, <2>2
<1>7. ASSUME NEW t \in Txns PROVE ReceiptSound(t)' /\ RefundSound(t)' /\ AppliedServes(t)'
  <2>1. ReceiptSound(t) /\ RefundSound(t) /\ AppliedServes(t) /\ TypeOK
    BY Parts
  <2>2. /\ receipt[t].for \in Payables \union {None} /\ bank[t].for \in Payables \union {None}
        /\ None \notin Txns /\ None \notin Payables
    BY <2>1, Shapes
  <2>3. ReceiptSound(t)'
    BY <1>1, <1>2, <1>4, <2>1, <2>2, OrderParts DEF ReceiptSound, Used
  <2>4. RefundSound(t)'
    BY <1>1, <1>2, <2>1, <2>2 DEF RefundSound
  <2>5. AppliedServes(t)'
    BY <1>1, <1>2, <1>3, <2>1 DEF AppliedServes, Serving
  <2> QED
    BY <2>3, <2>4, <2>5
<1> QED
  BY <1>1, <1>5, <1>6, <1>7, Parts DEF PayInv, CallSound

LEMMA ProvisionKeeps ==
  ASSUME PayInv, TypeOK', HolderSound', NEW o \in Orders, Provision(o)
  PROVE  PayInv'
<1>1. order[o].state = "provisioning" /\ UNCHANGED <<receipt, refund, credited, bank, call>>
  BY DEF Provision
<1>2. /\ \A x \in Orders : x # o => order'[x] = order[x]
      /\ \A p \in Payables : p # o => attempt'[p] = attempt[p]
  BY OrderParts DEF Provision
<1>3. /\ order'[o].state = "completed" /\ order'[o].linked = order[o].linked
      /\ order'[o].wallet = order[o].wallet
  <2>1. order'[o] = [order[o] EXCEPT !.state = "completed"]
    BY OrderParts DEF Provision
  <2> QED
    BY <2>1, OrderParts DEF OrderRows
<1>4. /\ attempt'[o].ext = attempt[o].ext
      /\ \/ attempt'[o].state = attempt[o].state
         \/ order[o].linked /\ attempt[o].state = "paid" /\ attempt'[o].state = "completed"
  <2>1. attempt[o] \in AttemptRows
    BY OrderParts
  <2>2. /\ [attempt[o] EXCEPT !.state = "completed"].ext = attempt[o].ext
        /\ [attempt[o] EXCEPT !.state = "completed"].state = "completed"
    BY <2>1, AttemptRow DEF AttemptStates
  <2> QED
    BY <2>2, OrderParts DEF Provision
<1>5. ASSUME NEW x \in Orders PROVE OrderSound(x)' /\ ServesPaid(x)' /\ RefundedBack(x)'
  <2>1. CASE x = o
    BY <1>1, <1>3, <1>4, <2>1, OrderParts DEF OrderSound, ServesPaid, RefundedBack, Serving, Used
  <2>2. CASE x # o
    BY <1>1, <1>2, <2>2, OrderParts DEF OrderSound, ServesPaid, RefundedBack, Serving, Used
  <2> QED
    BY <2>1, <2>2
<1>6. ASSUME NEW p \in Payables PROVE AttemptSound(p)'
  <2>1. CASE p = o
    BY <1>1, <1>4, <2>1, OrderParts DEF AttemptSound, Settled, Used
  <2>2. CASE p # o
    BY <1>1, <1>2, <2>2, Parts DEF AttemptSound, Settled, Used
  <2> QED
    BY <2>1, <2>2
<1>7. ASSUME NEW t \in Txns PROVE ReceiptSound(t)' /\ RefundSound(t)' /\ AppliedServes(t)'
  <2>1. ReceiptSound(t) /\ RefundSound(t) /\ AppliedServes(t) /\ TypeOK
    BY Parts
  <2>2. /\ receipt[t].for \in Payables \union {None} /\ bank[t].for \in Payables \union {None}
        /\ None \notin Txns /\ None \notin Payables
    BY <2>1, Shapes
  <2>3. ReceiptSound(t)'
    BY <1>1, <1>2, <1>4, <2>1, <2>2, OrderParts DEF ReceiptSound, Used
  <2>4. RefundSound(t)'
    BY <1>1, <1>2, <1>4, <2>1, <2>2 DEF RefundSound
  <2>5. AppliedServes(t)'
    BY <1>1, <1>2, <1>3, <2>1 DEF AppliedServes, Serving
  <2> QED
    BY <2>3, <2>4, <2>5
<1> QED
  BY <1>1, <1>5, <1>6, <1>7, Parts DEF PayInv, CallSound
-----------------------------------------------------------------------------
(* An order that ends: its attempt is ended or owed, its receipts too.     *)
LEMMA EndsKeeps ==
  ASSUME PayInv, TypeOK', HolderSound', NEW o \in Orders,
         UNCHANGED <<refund, credited, bank>>, call' = call,
         order[o].state \in {"pending", "provisioning", "completed", "refunding"},
         order'[o].state \in {"cancelled", "failed", "refund_pending", "refunded"},
         order'[o].linked = order[o].linked,
         order'[o].state = "refunded" => ~order[o].linked,
         \A x \in Orders : x # o => order'[x] = order[x],
         \A p \in Payables : p # o => attempt'[p] = attempt[p],
         attempt'[o].ext = attempt[o].ext,
         \/ attempt'[o].state = attempt[o].state /\ attempt[o].state \notin {"paid", "completed"}
         \/ /\ order[o].linked /\ attempt[o].state \in {"paid", "completed"}
            /\ attempt'[o].state = "refund_required"
         \/ /\ order[o].linked /\ attempt[o].state \in {"created", "awaiting_customer"}
            /\ attempt'[o].state = "cancelled",
         IF order[o].linked THEN MarkReceiptRefund(o) ELSE UNCHANGED receipt
  PROVE  PayInv'
<1>1. ASSUME NEW t \in Txns
      PROVE  /\ receipt'[t].for = receipt[t].for
             /\ receipt'[t].amount = receipt[t].amount
             /\ \/ receipt'[t].state = receipt[t].state
                \/ /\ receipt[t].state \in Used /\ receipt'[t].state = "refund_required"
                   /\ receipt[t].for = o
             /\ receipt[t].for = o => receipt'[t].state \notin Used
  <2>1. receipt[t] \in ReceiptRows
    BY OrderParts
  <2>2. /\ [receipt[t] EXCEPT !.state = "refund_required"].state = "refund_required"
        /\ [receipt[t] EXCEPT !.state = "refund_required"].for = receipt[t].for
        /\ [receipt[t] EXCEPT !.state = "refund_required"].amount = receipt[t].amount
    BY <2>1, ReceiptRow DEF ReceiptStates
  <2>3. CASE order[o].linked
    BY <2>2, <2>3 DEF MarkReceiptRefund, Used
  <2>4. CASE ~order[o].linked
    <3>1. attempt[o].ext = None
      BY <2>4, OrderParts DEF OrderSound, AttemptSound, Settled
    <3>2. None \notin Txns
      BY PaymentsAssumption
    <3> QED
      BY <2>4, <3>1, <3>2, OrderParts DEF ReceiptSound
  <2> QED
    BY <2>3, <2>4
<1>2. ASSUME NEW x \in Orders PROVE OrderSound(x)' /\ ServesPaid(x)' /\ RefundedBack(x)'
  <2>1. CASE x = o
    BY <2>1, OrderParts DEF OrderSound, ServesPaid, RefundedBack, Serving
  <2>2. CASE x # o
    <3>1. /\ OrderSound(x) /\ ServesPaid(x) /\ RefundedBack(x) /\ AttemptSound(x)
          /\ x \in Payables /\ attempt[x].ext \in Txns \union {None}
      BY OrderParts
    <3>2. OrderSound(x)' /\ RefundedBack(x)'
      BY <2>2, <3>1 DEF OrderSound, RefundedBack
    <3>3. ServesPaid(x)'
      <4>1. order[x].linked /\ order[x].state \in Serving => attempt[x].ext \in Txns /\ receipt[attempt[x].ext].for = x
        BY <3>1 DEF ServesPaid, AttemptSound, Settled
      <4> QED
        BY <1>1, <2>2, <3>1, <4>1 DEF ServesPaid, Serving, Used
    <3> QED
      BY <3>2, <3>3
  <2> QED
    BY <2>1, <2>2
<1>3. ASSUME NEW p \in Payables PROVE AttemptSound(p)'
  <2>1. AttemptSound(p) /\ attempt[p].ext \in Txns \union {None}
    BY Parts, Shapes
  <2>2. CASE p = o
    BY <1>1, <2>1, <2>2, PaymentsAssumption DEF AttemptSound, Settled, Used
  <2>3. CASE p # o
    BY <1>1, <2>1, <2>3, PaymentsAssumption DEF AttemptSound, Settled, Used
  <2> QED
    BY <2>2, <2>3
<1>4. ASSUME NEW t \in Txns PROVE ReceiptSound(t)' /\ RefundSound(t)' /\ AppliedServes(t)'
  <2>1. ReceiptSound(t) /\ RefundSound(t) /\ AppliedServes(t) /\ TypeOK
    BY Parts
  <2>2. /\ receipt[t].for \in Payables \union {None} /\ bank[t].for \in Payables \union {None}
        /\ None \notin Txns /\ None \notin Payables /\ o \notin Topups
        /\ o \in Payables
    BY <2>1, Shapes, OrderParts
  <2>3. ReceiptSound(t)'
    BY <1>1, <2>1, <2>2 DEF ReceiptSound, Used
  <2>4. RefundSound(t)'
    BY <1>1, <2>1, <2>2 DEF RefundSound, Used
  <2>5. AppliedServes(t)'
    BY <1>1, <2>1 DEF AppliedServes, Serving, Used
  <2> QED
    BY <2>3, <2>4, <2>5
<1> QED
  BY <1>2, <1>3, <1>4, Parts DEF PayInv, CallSound

LEMMA EndedOrder ==
  ASSUME PayInv, NEW o \in Orders, NEW s \in OrderStates, NEW a, Ends(o, s, a)
  PROVE  /\ order'[o].state = s /\ order'[o].linked = order[o].linked
         /\ \A x \in Orders : x # o => order'[x] = order[x]
<1> DEFINE w == IF order[o].wallet = "used" /\ s # "refunding" THEN "returned" ELSE order[o].wallet
<1>1. order' = [order EXCEPT ![o] = [order[o] EXCEPT !.state = s, !.refund = a, !.wallet = w]]
  BY DEF Ends
<1>2. [order[o] EXCEPT !.state = s, !.refund = a, !.wallet = w].state = s
  BY OrderParts DEF OrderRows
<1>3. [order[o] EXCEPT !.state = s, !.refund = a, !.wallet = w].linked = order[o].linked
  BY OrderParts DEF OrderRows
<1> HIDE DEF w
<1> QED
  BY <1>1, <1>2, <1>3, OrderParts

LEMMA OwedAttempt ==
  ASSUME PayInv, NEW o \in Orders, Owe(o)
  PROVE  /\ MarkReceiptRefund(o)
         /\ attempt'[o].ext = attempt[o].ext
         /\ \A p \in Payables : p # o => attempt'[p] = attempt[p]
         /\ IF attempt[o].state \in {"paid", "completed"}
            THEN attempt'[o].state = "refund_required"
            ELSE attempt'[o].state = attempt[o].state
<1>1. attempt[o] \in AttemptRows /\ attempt \in [Payables -> AttemptRows] /\ o \in Payables
  BY OrderParts
<1>2. /\ [attempt[o] EXCEPT !.state = "refund_required"].ext = attempt[o].ext
      /\ [attempt[o] EXCEPT !.state = "refund_required"].state = "refund_required"
  BY <1>1, AttemptRow DEF AttemptStates
<1> QED
  BY <1>1, <1>2 DEF Owe

(* The attempt of an order that no payment is linked to has no money.      *)
LEMMA UnlinkedAttempt ==
  ASSUME PayInv, NEW o \in Orders, ~order[o].linked, order[o].state # "expired"
  PROVE  attempt[o].state \notin {"paid", "completed"}
BY OrderParts DEF OrderSound

LEMMA WithdrawnKeeps ==
  ASSUME PayInv, TypeOK', HolderSound', NEW o \in Orders, NEW a, Withdrawn(o, a),
         order[o].state \in {"completed", "refunding"}
  PROVE  PayInv'
<1> DEFINE s == IF order[o].linked THEN "refund_pending" ELSE "refunded"
<1>1. Ends(o, s, a)
  BY DEF Withdrawn
<1>2. s \in OrderStates
  BY DEF OrderStates
<1>3. s \in {"refund_pending", "refunded"} /\ (s = "refunded" => ~order[o].linked)
  OBVIOUS
<1> HIDE DEF s
<1>4. /\ order'[o].state = s /\ order'[o].linked = order[o].linked
      /\ \A x \in Orders : x # o => order'[x] = order[x]
  BY <1>1, <1>2, EndedOrder
<1>5. CASE order[o].linked
  <2>1. Owe(o)
    BY <1>5 DEF Withdrawn
  <2> QED
    BY <1>3, <1>4, <1>5, <2>1, OwedAttempt, EndsKeeps DEF Withdrawn
<1>6. CASE ~order[o].linked
  BY <1>3, <1>4, <1>6, UnlinkedAttempt, EndsKeeps DEF Withdrawn
<1> QED
  BY <1>5, <1>6

LEMMA FailKeeps ==
  ASSUME PayInv, TypeOK', HolderSound', NEW o \in Orders, FailProvisioning(o)
  PROVE  PayInv'
<1>1. /\ order'[o].state = "failed" /\ order'[o].linked = order[o].linked
      /\ \A x \in Orders : x # o => order'[x] = order[x]
  BY EndedOrder DEF FailProvisioning, OrderStates
<1>2. CASE order[o].linked
  <2>1. Owe(o)
    BY <1>2 DEF FailProvisioning
  <2> QED
    BY <1>1, <1>2, <2>1, OwedAttempt, EndsKeeps DEF FailProvisioning
<1>3. CASE ~order[o].linked
  BY <1>1, <1>3, UnlinkedAttempt, EndsKeeps DEF FailProvisioning
<1> QED
  BY <1>2, <1>3

LEMMA CancelKeeps ==
  ASSUME PayInv, TypeOK', HolderSound', NEW o \in Orders, Cancel(o)
  PROVE  PayInv'
<1>1. order[o].state \in {"pending", "provisioning"} /\ mu.linked = order[o].linked
  BY Parts DEF Cancel, UnchangedSince, HolderSound
<1>2. /\ order'[o].state = "cancelled" /\ order'[o].linked = order[o].linked
      /\ \A x \in Orders : x # o => order'[x] = order[x]
  BY EndedOrder DEF Cancel, OrderStates
<1>3. CASE order[o].linked /\ attempt[o].state \in {"created", "awaiting_customer"}
  <2>1. attempt' = [attempt EXCEPT ![o].state = "cancelled"] /\ MarkReceiptRefund(o)
    BY <1>1, <1>3 DEF Cancel
  <2>2. attempt[o] \in AttemptRows /\ attempt \in [Payables -> AttemptRows] /\ o \in Payables
    BY OrderParts
  <2>3. /\ [attempt[o] EXCEPT !.state = "cancelled"].ext = attempt[o].ext
        /\ [attempt[o] EXCEPT !.state = "cancelled"].state = "cancelled"
    BY <2>2, AttemptRow DEF AttemptStates
  <2>4. /\ attempt'[o].ext = attempt[o].ext /\ attempt'[o].state = "cancelled"
        /\ \A p \in Payables : p # o => attempt'[p] = attempt[p]
    BY <2>1, <2>2, <2>3
  <2> QED
    BY <1>1, <1>2, <1>3, <2>1, <2>4, EndsKeeps DEF Cancel
<1>4. CASE order[o].linked /\ attempt[o].state \notin {"created", "awaiting_customer"}
  <2>1. Owe(o)
    BY <1>1, <1>4 DEF Cancel
  <2> QED
    BY <1>1, <1>2, <1>4, <2>1, OwedAttempt, EndsKeeps DEF Cancel
<1>5. CASE ~order[o].linked
  BY <1>1, <1>2, <1>5, UnlinkedAttempt, EndsKeeps DEF Cancel
<1> QED
  BY <1>3, <1>4, <1>5
-----------------------------------------------------------------------------
(* Callbacks: a receipt appears, and with the first one its attempt and    *)
(* the order that waits for it move on.                                    *)
LEMMA ReceivedRow ==
  ASSUME PayInv, NEW h \in hook, NEW s \in ReceiptStates, Received(h, s)
  PROVE  /\ h.txn \in Txns
         /\ receipt'[h.txn].state = s /\ receipt'[h.txn].for = bank[h.txn].for
         /\ receipt'[h.txn].amount = bank[h.txn].amount
         /\ \A u \in Txns : u # h.txn => receipt'[u] = receipt[u]
<1>1. h.txn \in Txns /\ receipt \in [Txns -> ReceiptRows]
  BY Parts DEF TypeOK
<1> QED
  BY <1>1 DEF Received

LEMMA RecordPaidKeeps ==
  ASSUME PayInv, TypeOK', HolderSound', NEW h \in hook, RecordPaid(h),
         UNCHANGED <<refund, credited, bank, call>>
  PROVE  PayInv'
<1> DEFINE t == h.txn
           p == bank[h.txn].for
<1>1. t \in Txns /\ p \in Payables
  <2>1. TypeOK /\ h.txn \in Txns
    BY Parts DEF TypeOK
  <2> QED
    BY <2>1, Shapes DEF RecordPaid
<1>2. /\ receipt[t].state = "none" /\ bank[t].amount = Due[p]
      /\ attempt[p].state \in {"created", "awaiting_customer"} /\ attempt[p].ext = None
      /\ p \in Orders => order[p].linked /\ order[p].state = "pending"
      /\ UNCHANGED order
  BY DEF RecordPaid, Unseen, MayPay
<1>3. /\ receipt'[t].state = "verified" /\ receipt'[t].for = p /\ receipt'[t].amount = Due[p]
      /\ \A u \in Txns : u # t => receipt'[u] = receipt[u]
  BY <1>2, ReceivedRow DEF RecordPaid, ReceiptStates
<1>4. /\ attempt'[p].state = "paid" /\ attempt'[p].ext = t
      /\ \A q \in Payables : q # p => attempt'[q] = attempt[q]
  <2>1. attempt \in [Payables -> AttemptRows]
    BY Parts DEF TypeOK
  <2>2. attempt' = [attempt EXCEPT ![p] = [attempt[p] EXCEPT !.state = "paid", !.ext = t]]
    BY DEF RecordPaid
  <2>3. attempt[p] \in AttemptRows
    BY <1>1, <2>1
  <2>4. /\ [attempt[p] EXCEPT !.state = "paid", !.ext = t].state = "paid"
        /\ [attempt[p] EXCEPT !.state = "paid", !.ext = t].ext = t
    BY <1>1, <2>3 DEF AttemptRows
  <2> QED
    BY <1>1, <2>1, <2>2, <2>4
<1> HIDE DEF t, p
<1>5. \A q \in Payables : attempt[q].ext # t
  BY <1>1, <1>2, PaymentsAssumption, Parts DEF AttemptSound
<1>6. None \notin Txns /\ None \notin Payables
  BY PaymentsAssumption
<1>7. ASSUME NEW x \in Orders PROVE OrderSound(x)' /\ ServesPaid(x)' /\ RefundedBack(x)'
  <2>1. CASE x = p
    BY <1>2, <1>4, <2>1, OrderParts DEF OrderSound, ServesPaid, RefundedBack, Serving
  <2>2. CASE x # p
    <3>1. /\ OrderSound(x) /\ ServesPaid(x) /\ RefundedBack(x)
          /\ x \in Payables /\ attempt[x].ext \in Txns \union {None} /\ AttemptSound(x)
      BY OrderParts
    <3>2. ServesPaid(x)'
      <4>1. order[x].linked /\ order[x].state \in Serving => attempt[x].ext \in Txns
        BY <3>1 DEF ServesPaid, AttemptSound, Settled
      <4> QED
        BY <1>2, <1>3, <1>4, <1>5, <2>2, <3>1, <4>1 DEF ServesPaid, Serving, Used
    <3> QED
      BY <1>2, <1>4, <2>2, <3>1, <3>2 DEF OrderSound, RefundedBack
  <2> QED
    BY <2>1, <2>2
<1>8. ASSUME NEW q \in Payables PROVE AttemptSound(q)'
  <2>1. AttemptSound(q) /\ attempt[q].ext \in Txns \union {None}
    BY Parts, Shapes
  <2>2. CASE q = p
    BY <1>1, <1>3, <1>4, <1>6, <2>2 DEF AttemptSound, Settled, Used
  <2>3. CASE q # p
    <3>1. attempt'[q] = attempt[q] /\ (attempt[q].ext # None => receipt'[attempt[q].ext] = receipt[attempt[q].ext])
      BY <1>3, <1>4, <1>5, <2>1, <2>3
    <3> QED
      BY <2>1, <3>1 DEF AttemptSound, Settled, Used
  <2> QED
    BY <2>2, <2>3
<1>9. ASSUME NEW u \in Txns PROVE ReceiptSound(u)' /\ RefundSound(u)' /\ AppliedServes(u)'
  <2>1. ReceiptSound(u) /\ RefundSound(u) /\ AppliedServes(u) /\ TypeOK
    BY Parts
  <2>2. /\ receipt[u].for \in Payables \union {None} /\ bank[u].for \in Payables \union {None}
    BY <2>1, Shapes
  <2>3. ReceiptSound(u)'
    <3>1. CASE u = t
      BY <1>1, <1>2, <1>3, <1>4, <2>1, <3>1 DEF ReceiptSound, Used
    <3>2. CASE u # t
      BY <1>2, <1>3, <1>4, <1>6, <2>1, <2>2, <3>2 DEF ReceiptSound, Used
    <3> QED
      BY <3>1, <3>2
  <2>4. RefundSound(u)'
    BY <1>2, <1>3, <1>4, <2>1, <2>2 DEF RefundSound
  <2>5. AppliedServes(u)'
    BY <1>2, <1>3, <2>1 DEF AppliedServes, Serving
  <2> QED
    BY <2>3, <2>4, <2>5
<1> QED
  BY <1>7, <1>8, <1>9, Parts DEF PayInv, CallSound

LEMMA RecordRefusedKeeps ==
  ASSUME PayInv, TypeOK', HolderSound', NEW h \in hook, RecordRefused(h),
         UNCHANGED <<refund, credited, bank, call>>
  PROVE  PayInv'
<1> DEFINE t == h.txn
           p == bank[h.txn].for
<1>1. t \in Txns /\ p \in Payables
  <2>1. TypeOK /\ h.txn \in Txns
    BY Parts DEF TypeOK
  <2> QED
    BY <2>1, Shapes DEF RecordRefused
<1>2. receipt[t].state = "none"
  BY DEF RecordRefused, Unseen
<1>3. /\ receipt'[t].state = "refund_required" /\ receipt'[t].for = p
      /\ \A u \in Txns : u # t => receipt'[u] = receipt[u]
  BY <1>2, ReceivedRow DEF RecordRefused, ReceiptStates
<1>4. /\ attempt \in [Payables -> AttemptRows] /\ attempt[p] \in AttemptRows
      /\ order \in [Orders -> OrderRows]
  BY <1>1, Parts DEF TypeOK
<1>5. /\ \A q \in Payables : q # p => attempt'[q] = attempt[q]
      /\ IF attempt[p].ext = None
         THEN attempt'[p].state = "refund_required" /\ attempt'[p].ext = t
         ELSE attempt'[p] = attempt[p]
  <2>1. /\ [attempt[p] EXCEPT !.state = "refund_required", !.ext = t].state = "refund_required"
        /\ [attempt[p] EXCEPT !.state = "refund_required", !.ext = t].ext = t
    BY <1>1, <1>4 DEF AttemptRows
  <2>2. attempt' = IF attempt[p].ext = None
                   THEN [attempt EXCEPT ![p] = [attempt[p] EXCEPT !.state = "refund_required", !.ext = t]]
                   ELSE attempt
    BY DEF RecordRefused
  <2> QED
    BY <1>1, <1>4, <2>1, <2>2
<1>6. ASSUME NEW x \in Orders
      PROVE  \/ order'[x] = order[x] /\ (x = p /\ attempt[p].ext = None => order[x].state # "pending" \/ ~order[x].linked)
             \/ /\ x = p /\ order[x].state = "pending" /\ attempt[p].ext = None
                /\ order'[x].state = "failed" /\ order'[x].linked = order[x].linked
  <2>1. order[x] \in OrderRows
    BY <1>4
  <2>2. /\ [order[x] EXCEPT !.state = "failed"].state = "failed"
        /\ [order[x] EXCEPT !.state = "failed"].linked = order[x].linked
    BY <2>1 DEF OrderRows
  <2>3. order' = IF attempt[p].ext = None /\ p \in Orders /\ order[p].state = "pending" /\ order[p].linked
                 THEN [order EXCEPT ![p].state = "failed"] ELSE order
    BY DEF RecordRefused
  <2> QED
    BY <1>4, <2>2, <2>3
<1> HIDE DEF t, p
<1>7. \A q \in Payables : attempt[q].ext # t
  BY <1>1, <1>2, PaymentsAssumption, Parts DEF AttemptSound
<1>8. None \notin Txns /\ None \notin Payables
  BY PaymentsAssumption
<1>9. attempt[p].state # "none"
  BY <1>1, <1>8, Parts DEF RefundSound, t, p
<1>10. ASSUME NEW x \in Orders PROVE OrderSound(x)' /\ ServesPaid(x)' /\ RefundedBack(x)'
  <2>1. /\ OrderSound(x) /\ ServesPaid(x) /\ RefundedBack(x)
        /\ x \in Payables /\ attempt[x].ext \in Txns \union {None} /\ AttemptSound(x)
    BY OrderParts
  <2>2. order[x].linked /\ order[x].state \in Serving => attempt[x].ext \in Txns
    BY <2>1 DEF ServesPaid, AttemptSound, Settled
  <2>3. CASE x = p /\ attempt[p].ext = None
    <3>1. OrderSound(x)' /\ RefundedBack(x)'
      BY <1>6, <1>9, <2>1, <2>3 DEF OrderSound, RefundedBack
    <3>2. ServesPaid(x)'
      BY <1>6, <1>8, <2>1, <2>2, <2>3 DEF ServesPaid, Serving
    <3> QED
      BY <3>1, <3>2
  <2>4. CASE ~(x = p /\ attempt[p].ext = None)
    <3>1. order'[x] = order[x] /\ attempt'[x] = attempt[x]
      BY <1>5, <1>6, <2>1, <2>4
    <3>2. ServesPaid(x)'
      BY <1>3, <1>7, <2>1, <2>2, <3>1 DEF ServesPaid, Serving, Used
    <3> QED
      BY <2>1, <3>1, <3>2 DEF OrderSound, RefundedBack
  <2> QED
    BY <2>3, <2>4
<1>11. ASSUME NEW q \in Payables PROVE AttemptSound(q)'
  <2>1. AttemptSound(q) /\ attempt[q].ext \in Txns \union {None}
    BY Parts, Shapes
  <2>2. CASE q = p /\ attempt[p].ext = None
    BY <1>1, <1>3, <1>5, <1>8, <2>2 DEF AttemptSound, Settled
  <2>3. CASE ~(q = p /\ attempt[p].ext = None)
    <3>1. attempt'[q] = attempt[q] /\ (attempt[q].ext # None => receipt'[attempt[q].ext] = receipt[attempt[q].ext])
      BY <1>3, <1>5, <1>7, <2>1, <2>3
    <3> QED
      BY <2>1, <3>1 DEF AttemptSound, Settled, Used
  <2> QED
    BY <2>2, <2>3
<1>12. ASSUME NEW u \in Txns PROVE ReceiptSound(u)' /\ RefundSound(u)' /\ AppliedServes(u)'
  <2>1. ReceiptSound(u) /\ RefundSound(u) /\ AppliedServes(u) /\ TypeOK
    BY Parts
  <2>2. /\ receipt[u].for \in Payables \union {None} /\ bank[u].for \in Payables \union {None}
    BY <2>1, Shapes
  <2>3. ReceiptSound(u)'
    <3>1. CASE u = t
      BY <1>1, <1>2, <1>3, <2>1, <3>1 DEF ReceiptSound, Used
    <3>2. CASE u # t /\ receipt[u].state \in Used
      <4>1. attempt[receipt[u].for].ext = u /\ receipt[u].for \in Payables
        BY <2>1, <3>2 DEF ReceiptSound
      <4>2. attempt'[receipt[u].for] = attempt[receipt[u].for]
        BY <1>5, <1>8, <4>1
      <4> QED
        BY <1>3, <2>1, <3>2, <4>2 DEF ReceiptSound, Used
    <3>3. CASE u # t /\ receipt[u].state \notin Used
      BY <1>3, <2>1, <3>3 DEF ReceiptSound, Used
    <3> QED
      BY <3>1, <3>2, <3>3
  <2>4. RefundSound(u)'
    BY <1>2, <1>3, <1>5, <2>1, <2>2 DEF RefundSound
  <2>5. AppliedServes(u)'
    BY <1>3, <1>6, <2>1 DEF AppliedServes, Serving
  <2> QED
    BY <2>3, <2>4, <2>5
<1> QED
  BY <1>10, <1>11, <1>12, Parts DEF PayInv, CallSound

LEMMA RecordUnknownKeeps ==
  ASSUME PayInv, TypeOK', HolderSound', NEW h \in hook, RecordUnknown(h),
         UNCHANGED <<refund, credited, bank, call>>
  PROVE  PayInv'
<1> DEFINE t == h.txn
<1>1. /\ receipt'[t].state = "review_required" /\ receipt'[t].for = None /\ t \in Txns
      /\ \A u \in Txns : u # t => receipt'[u] = receipt[u]
  BY ReceivedRow DEF RecordUnknown, ReceiptStates
<1>2. receipt[t].state = "none" /\ UNCHANGED <<order, attempt>>
  BY DEF RecordUnknown, Unseen
<1> HIDE DEF t
<1>3. \A q \in Payables : attempt[q].ext # t
  BY <1>1, <1>2, PaymentsAssumption, Parts DEF AttemptSound
<1>4. ASSUME NEW q \in Payables PROVE AttemptSound(q)'
  <2>1. AttemptSound(q) /\ attempt[q].ext \in Txns \union {None}
    BY Parts, Shapes
  <2>2. attempt[q].ext # None => receipt'[attempt[q].ext] = receipt[attempt[q].ext]
    BY <1>1, <1>3, <2>1
  <2> QED
    BY <1>2, <2>1, <2>2 DEF AttemptSound, Settled, Used
<1>5. ASSUME NEW x \in Orders PROVE OrderSound(x)' /\ ServesPaid(x)' /\ RefundedBack(x)'
  <2>1. /\ OrderSound(x) /\ ServesPaid(x) /\ RefundedBack(x)
        /\ x \in Payables /\ attempt[x].ext \in Txns \union {None} /\ AttemptSound(x)
    BY OrderParts
  <2>2. order[x].linked /\ order[x].state \in Serving => attempt[x].ext \in Txns
    BY <2>1 DEF ServesPaid, AttemptSound, Settled
  <2>3. ServesPaid(x)'
    BY <1>1, <1>2, <1>3, <2>1, <2>2 DEF ServesPaid, Serving, Used
  <2> QED
    BY <1>2, <2>1, <2>3 DEF OrderSound, RefundedBack
<1>6. ASSUME NEW u \in Txns PROVE ReceiptSound(u)' /\ RefundSound(u)' /\ AppliedServes(u)'
  BY <1>1, <1>2, Parts DEF ReceiptSound, RefundSound, AppliedServes, Used, Serving
<1> QED
  BY <1>4, <1>5, <1>6, Parts DEF PayInv, CallSound
-----------------------------------------------------------------------------
(* Receipts find their use.                                                *)
LEMMA ReceiptParts ==
  ASSUME PayInv, NEW t \in Txns, receipt[t].state \in Used
  PROVE  /\ receipt[t].for \in Payables /\ attempt[receipt[t].for].ext = t
         /\ attempt[receipt[t].for].state \in Settled
         /\ refund[t].state = "none" /\ t # None
         /\ \A p \in Payables : attempt[p].ext = t => p = receipt[t].for
<1>1. t # None
  BY PaymentsAssumption
<1> QED
  BY <1>1, Parts DEF ReceiptSound, RefundSound, AttemptSound, Used

LEMMA ReceiptState ==
  ASSUME PayInv, NEW t \in Txns, NEW s \in ReceiptStates,
         receipt' = [receipt EXCEPT ![t].state = s]
  PROVE  /\ receipt'[t].state = s /\ receipt'[t].for = receipt[t].for
         /\ receipt'[t].amount = receipt[t].amount
         /\ \A u \in Txns : u # t => receipt'[u] = receipt[u]
<1>1. receipt \in [Txns -> ReceiptRows] /\ receipt[t] \in ReceiptRows
  BY Parts DEF TypeOK
<1>2. /\ [receipt[t] EXCEPT !.state = s].state = s
      /\ [receipt[t] EXCEPT !.state = s].for = receipt[t].for
      /\ [receipt[t] EXCEPT !.state = s].amount = receipt[t].amount
  BY <1>1, ReceiptRow
<1> QED
  BY <1>1, <1>2

(* A receipt is applied to an order in service.                            *)
LEMMA AppliedKeeps ==
  ASSUME PayInv, TypeOK', HolderSound', NEW t \in Txns,
         receipt[t].state = "verified", receipt[t].for \in Orders,
         order[receipt[t].for].state \in Serving,
         receipt' = [receipt EXCEPT ![t].state = "applied"],
         UNCHANGED <<order, attempt, refund, credited, bank, call>>
  PROVE  PayInv'
<1>1. /\ receipt'[t].state = "applied" /\ receipt'[t].for = receipt[t].for
      /\ receipt'[t].amount = receipt[t].amount
      /\ \A u \in Txns : u # t => receipt'[u] = receipt[u]
  BY ReceiptState DEF ReceiptStates
<1>2. ASSUME NEW x \in Orders PROVE OrderSound(x)' /\ ServesPaid(x)' /\ RefundedBack(x)'
  <2>1. /\ OrderSound(x) /\ ServesPaid(x) /\ RefundedBack(x)
        /\ x \in Payables /\ attempt[x].ext \in Txns \union {None} /\ AttemptSound(x)
    BY OrderParts
  <2>2. order[x].linked /\ order[x].state \in Serving => attempt[x].ext \in Txns
    BY <2>1 DEF ServesPaid, AttemptSound, Settled
  <2>3. ServesPaid(x)'
    BY <1>1, <2>1, <2>2 DEF ServesPaid, Serving, Used
  <2> QED
    BY <2>1, <2>3 DEF OrderSound, RefundedBack
<1>3. ASSUME NEW q \in Payables PROVE AttemptSound(q)'
  <2>1. AttemptSound(q) /\ attempt[q].ext \in Txns \union {None}
    BY Parts, Shapes
  <2> QED
    BY <1>1, <2>1, PaymentsAssumption DEF AttemptSound, Settled, Used
<1>4. ASSUME NEW u \in Txns PROVE ReceiptSound(u)' /\ RefundSound(u)' /\ AppliedServes(u)'
  <2>1. ReceiptSound(u) /\ RefundSound(u) /\ AppliedServes(u)
    BY Parts
  <2>2. CASE u = t
    <3>1. receipt[t].for \notin Topups
      BY PaymentsAssumption
    <3> QED
      BY <1>1, <2>1, <2>2, <3>1 DEF ReceiptSound, RefundSound, AppliedServes, Used
  <2>3. CASE u # t
    BY <1>1, <2>1, <2>3 DEF ReceiptSound, RefundSound, AppliedServes, Used, Serving
  <2> QED
    BY <2>2, <2>3
<1> QED
  BY <1>2, <1>3, <1>4, Parts DEF PayInv, CallSound

LEMMA CreditKeeps ==
  ASSUME PayInv, TypeOK', HolderSound', NEW t \in Txns, Credit(t)
  PROVE  PayInv'
<1> DEFINE p == receipt[t].for
<1>1. /\ receipt[t].state = "verified" /\ p \in Topups /\ p \in Payables
      /\ attempt[p].state \in {"paid", "completed"} /\ attempt[p].ext = t
      /\ UNCHANGED <<order, refund, bank, call>>
  BY ReceiptParts DEF Credit, Used
<1>2. /\ receipt'[t].state = "applied" /\ receipt'[t].for = p
      /\ receipt'[t].amount = receipt[t].amount
      /\ \A u \in Txns : u # t => receipt'[u] = receipt[u]
  <2>1. receipt' = [receipt EXCEPT ![t].state = "applied"]
    BY DEF Credit
  <2> QED
    BY <2>1, ReceiptState DEF ReceiptStates
<1>3. credited'[t] = 1 /\ \A u \in Txns : u # t => credited'[u] = credited[u]
  <2>1. credited \in [Txns -> Nat] /\ credited' = [credited EXCEPT ![t] = credited[t] + 1]
    BY Parts DEF TypeOK, Credit
  <2>2. credited[t] = 0
    BY <1>1, Parts DEF ReceiptSound
  <2> QED
    BY <2>1, <2>2
<1>4. /\ attempt'[p].state = "completed" /\ attempt'[p].ext = t
      /\ \A q \in Payables : q # p => attempt'[q] = attempt[q]
  <2>1. attempt \in [Payables -> AttemptRows] /\ attempt[p] \in AttemptRows
    BY <1>1, Parts DEF TypeOK
  <2>2. attempt' = IF attempt[p].state = "paid" /\ attempt[p].ext = t
                   THEN [attempt EXCEPT ![p].state = "completed"] ELSE attempt
    BY DEF Credit
  <2>3. /\ [attempt[p] EXCEPT !.state = "completed"].state = "completed"
        /\ [attempt[p] EXCEPT !.state = "completed"].ext = attempt[p].ext
    BY <2>1, AttemptRow DEF AttemptStates
  <2> QED
    BY <1>1, <2>1, <2>2, <2>3
<1> HIDE DEF p
<1>5. \A q \in Payables : attempt[q].ext = t => q = p
  BY <1>1, ReceiptParts DEF Used, p
<1>6. ASSUME NEW x \in Orders PROVE OrderSound(x)' /\ ServesPaid(x)' /\ RefundedBack(x)'
  <2>1. /\ OrderSound(x) /\ ServesPaid(x) /\ RefundedBack(x) /\ x # p
        /\ x \in Payables /\ attempt[x].ext \in Txns \union {None} /\ AttemptSound(x)
    BY <1>1, OrderParts
  <2>2. order[x].linked /\ order[x].state \in Serving => attempt[x].ext \in Txns
    BY <2>1 DEF ServesPaid, AttemptSound, Settled
  <2>3. ServesPaid(x)'
    BY <1>1, <1>2, <1>4, <1>5, <2>1, <2>2 DEF ServesPaid, Serving, Used
  <2> QED
    BY <1>1, <1>4, <2>1, <2>3 DEF OrderSound, RefundedBack
<1>7. ASSUME NEW q \in Payables PROVE AttemptSound(q)'
  <2>1. AttemptSound(q) /\ attempt[q].ext \in Txns \union {None}
    BY Parts, Shapes
  <2>2. CASE q = p
    BY <1>1, <1>2, <1>4, <2>2, PaymentsAssumption DEF AttemptSound, Settled, Used
  <2>3. CASE q # p
    BY <1>2, <1>4, <1>5, <2>1, <2>3, PaymentsAssumption DEF AttemptSound, Settled, Used
  <2> QED
    BY <2>2, <2>3
<1>8. ASSUME NEW u \in Txns PROVE ReceiptSound(u)' /\ RefundSound(u)' /\ AppliedServes(u)'
  <2>1. ReceiptSound(u) /\ RefundSound(u) /\ AppliedServes(u) /\ TypeOK
    BY Parts
  <2>2. /\ receipt[u].for \in Payables \union {None} /\ bank[u].for \in Payables \union {None}
        /\ p \notin Orders /\ Topups \subseteq Payables
    BY <1>1, <2>1, Shapes, Parts
  <2>3. CASE u = t
    BY <1>1, <1>2, <1>3, <1>4, <2>1, <2>2, <2>3 DEF ReceiptSound, RefundSound, AppliedServes, Used
  <2>4. CASE u # t
    <3>1. ReceiptSound(u)'
      BY <1>1, <1>2, <1>3, <1>4, <2>1, <2>2, <2>4 DEF ReceiptSound, Used
    <3>2. RefundSound(u)'
      BY <1>1, <1>2, <1>4, <2>1, <2>2, <2>4 DEF RefundSound
    <3>3. AppliedServes(u)'
      BY <1>1, <1>2, <2>1, <2>4 DEF AppliedServes, Serving
    <3> QED
      BY <3>1, <3>2, <3>3
  <2> QED
    BY <2>3, <2>4
<1> QED
  BY <1>1, <1>6, <1>7, <1>8, Parts DEF PayInv, CallSound

LEMMA RefuseKeeps ==
  ASSUME PayInv, TypeOK', HolderSound', NEW t \in Txns, Refuse(t), ~AlreadyUsed(receipt[t].for)
  PROVE  PayInv'
<1> DEFINE p == receipt[t].for
<1>1. /\ receipt[t].state = "verified" /\ p \in Payables
      /\ attempt[p].ext = t /\ attempt[p].state \in Settled
      /\ UNCHANGED <<refund, credited, bank, call>>
  BY ReceiptParts DEF Refuse, Used
<1>2. /\ receipt'[t].state = "refund_required" /\ receipt'[t].for = p
      /\ \A u \in Txns : u # t => receipt'[u] = receipt[u]
  <2>1. receipt' = [receipt EXCEPT ![t].state = "refund_required"]
    BY DEF Refuse
  <2> QED
    BY <2>1, ReceiptState DEF ReceiptStates
<1>3. /\ attempt'[p].ext = t
      /\ attempt'[p].state = IF attempt[p].state = "paid" THEN "refund_required" ELSE attempt[p].state
      /\ \A q \in Payables : q # p => attempt'[q] = attempt[q]
  <2>1. attempt \in [Payables -> AttemptRows] /\ attempt[p] \in AttemptRows
    BY <1>1, Parts DEF TypeOK
  <2>2. attempt' = IF attempt[p].ext = t /\ attempt[p].state = "paid"
                   THEN [attempt EXCEPT ![p].state = "refund_required"] ELSE attempt
    BY DEF Refuse
  <2>3. /\ [attempt[p] EXCEPT !.state = "refund_required"].state = "refund_required"
        /\ [attempt[p] EXCEPT !.state = "refund_required"].ext = attempt[p].ext
    BY <2>1, AttemptRow DEF AttemptStates
  <2> QED
    BY <1>1, <2>1, <2>2, <2>3
<1>4. ASSUME NEW x \in Orders
      PROVE  \/ order'[x] = order[x] /\ (x = p => order[x].state # "pending" \/ ~order[x].linked)
             \/ /\ x = p /\ order[x].state = "pending"
                /\ order'[x].state = "failed" /\ order'[x].linked = order[x].linked
  <2>1. order[x] \in OrderRows /\ order \in [Orders -> OrderRows]
    BY OrderParts
  <2>2. /\ [order[x] EXCEPT !.state = "failed"].state = "failed"
        /\ [order[x] EXCEPT !.state = "failed"].linked = order[x].linked
    BY <2>1 DEF OrderRows
  <2>3. order' = IF p \in Orders /\ order[p].state = "pending" /\ order[p].linked
                 THEN [order EXCEPT ![p].state = "failed"] ELSE order
    BY DEF Refuse
  <2> QED
    BY <2>1, <2>2, <2>3
<1>5. \A q \in Payables : attempt[q].ext = t => q = p
  BY <1>1, ReceiptParts DEF Used
<1>6. /\ p \in Orders /\ order[p].linked /\ order[p].state \in Serving
            => attempt[p].state = "refund_required"
      /\ refund[t].state = "none" /\ t # None
  BY <1>1, ReceiptParts DEF AlreadyUsed, Serving, Used
<1> HIDE DEF p
<1>7. ASSUME NEW x \in Orders PROVE OrderSound(x)' /\ ServesPaid(x)' /\ RefundedBack(x)'
  <2>1. /\ OrderSound(x) /\ ServesPaid(x) /\ RefundedBack(x)
        /\ x \in Payables /\ attempt[x].ext \in Txns \union {None} /\ AttemptSound(x)
    BY OrderParts
  <2>2. order[x].linked /\ order[x].state \in Serving => attempt[x].ext \in Txns
    BY <2>1 DEF ServesPaid, AttemptSound, Settled
  <2>3. CASE x = p
    <3>1. order[p].state \notin Serving \/ ~order[p].linked
      BY <1>6, <2>1, <2>3 DEF ServesPaid
    <3>2. OrderSound(x)'
      BY <1>1, <1>3, <1>4, <2>1, <2>3 DEF OrderSound, Settled
    <3>3. ServesPaid(x)'
      BY <1>4, <2>1, <2>3, <3>1 DEF ServesPaid, Serving
    <3>4. RefundedBack(x)'
      BY <1>1, <1>4, <1>6, <2>1, <2>3 DEF RefundedBack
    <3> QED
      BY <3>2, <3>3, <3>4
  <2>4. CASE x # p
    <3>1. order'[x] = order[x] /\ attempt'[x] = attempt[x] /\ attempt[x].ext # t
      BY <1>3, <1>4, <1>5, <2>1, <2>4
    <3>2. ServesPaid(x)'
      BY <1>2, <2>1, <2>2, <3>1 DEF ServesPaid, Serving, Used
    <3> QED
      BY <1>1, <2>1, <3>1, <3>2 DEF OrderSound, RefundedBack
  <2> QED
    BY <2>3, <2>4
<1>8. ASSUME NEW q \in Payables PROVE AttemptSound(q)'
  <2>1. AttemptSound(q) /\ attempt[q].ext \in Txns \union {None}
    BY Parts, Shapes
  <2>2. CASE q = p
    BY <1>1, <1>2, <1>3, <1>6, <2>2 DEF AttemptSound, Settled
  <2>3. CASE q # p
    BY <1>2, <1>3, <1>5, <2>1, <2>3, PaymentsAssumption DEF AttemptSound, Settled, Used
  <2> QED
    BY <2>2, <2>3
<1>9. ASSUME NEW u \in Txns PROVE ReceiptSound(u)' /\ RefundSound(u)' /\ AppliedServes(u)'
  <2>1. ReceiptSound(u) /\ RefundSound(u) /\ AppliedServes(u) /\ TypeOK
    BY Parts
  <2>2. /\ receipt[u].for \in Payables \union {None} /\ bank[u].for \in Payables \union {None}
        /\ Topups \subseteq Payables
    BY <2>1, Shapes, Parts
  <2>3. ReceiptSound(u)'
    <3>1. CASE u = t
      BY <1>1, <1>2, <2>1, <3>1 DEF ReceiptSound, Used
    <3>2. CASE u # t
      BY <1>1, <1>2, <1>3, <2>1, <2>2, <3>2 DEF ReceiptSound, Used
    <3> QED
      BY <3>1, <3>2
  <2>4. RefundSound(u)'
    BY <1>1, <1>2, <1>3, <1>6, <2>1, <2>2 DEF RefundSound, Settled
  <2>5. AppliedServes(u)'
    BY <1>2, <1>4, <2>1 DEF AppliedServes, Serving
  <2> QED
    BY <2>3, <2>4, <2>5
<1> QED
  BY <1>1, <1>7, <1>8, <1>9, Parts DEF PayInv, CallSound

LEMMA MarkEndedKeeps ==
  ASSUME PayInv, TypeOK', HolderSound', MarkEnded
  PROVE  PayInv'
<1>1. UNCHANGED <<order, attempt, refund, credited, bank, call>>
  BY DEF MarkEnded
<1>2. ASSUME NEW t \in Txns
      PROVE  /\ receipt'[t].for = receipt[t].for /\ receipt'[t].amount = receipt[t].amount
             /\ \/ receipt'[t].state = receipt[t].state
                \/ /\ receipt[t].state \in Used /\ receipt'[t].state = "refund_required"
                   /\ attempt[receipt[t].for].state = "refund_required"
  <2>1. receipt[t] \in ReceiptRows
    BY Parts DEF TypeOK
  <2>2. /\ [receipt[t] EXCEPT !.state = "refund_required"].state = "refund_required"
        /\ [receipt[t] EXCEPT !.state = "refund_required"].for = receipt[t].for
        /\ [receipt[t] EXCEPT !.state = "refund_required"].amount = receipt[t].amount
    BY <2>1, ReceiptRow DEF ReceiptStates
  <2> QED
    BY <2>2 DEF MarkEnded, Used
<1>3. ASSUME NEW x \in Orders PROVE OrderSound(x)' /\ ServesPaid(x)' /\ RefundedBack(x)'
  <2>1. /\ OrderSound(x) /\ ServesPaid(x) /\ RefundedBack(x)
        /\ x \in Payables /\ attempt[x].ext \in Txns \union {None} /\ AttemptSound(x)
    BY OrderParts
  <2>2. order[x].linked /\ order[x].state \in Serving
          => attempt[x].ext \in Txns /\ receipt[attempt[x].ext].for = x
    BY <2>1 DEF ServesPaid, AttemptSound, Settled
  <2>3. ServesPaid(x)'
    BY <1>1, <1>2, <2>1, <2>2 DEF ServesPaid, Serving, Used
  <2> QED
    BY <1>1, <2>1, <2>3 DEF OrderSound, RefundedBack
<1>4. ASSUME NEW q \in Payables PROVE AttemptSound(q)'
  <2>1. AttemptSound(q) /\ attempt[q].ext \in Txns \union {None}
    BY Parts, Shapes
  <2> QED
    BY <1>1, <1>2, <2>1, PaymentsAssumption DEF AttemptSound, Settled, Used
<1>5. ASSUME NEW u \in Txns PROVE ReceiptSound(u)' /\ RefundSound(u)' /\ AppliedServes(u)'
  <2>1. ReceiptSound(u) /\ RefundSound(u) /\ AppliedServes(u)
    BY Parts
  <2> QED
    BY <1>1, <1>2, <2>1 DEF ReceiptSound, RefundSound, AppliedServes, Used, Serving
<1> QED
  BY <1>1, <1>3, <1>4, <1>5, Parts DEF PayInv, CallSound
-----------------------------------------------------------------------------
(* Refunds.                                                                *)
LEMMA RequestKeeps ==
  ASSUME PayInv, TypeOK', HolderSound', NEW t \in Txns, RequestRefund(t)
  PROVE  PayInv'
<1>1. /\ receipt[t].state = "refund_required"
      /\ UNCHANGED <<order, attempt, credited, bank, call>>
      /\ receipt' = [receipt EXCEPT ![t].state = "refund_pending"]
  BY DEF RequestRefund, Refundable
<1>2. /\ receipt'[t].state = "refund_pending" /\ receipt'[t].for = receipt[t].for
      /\ \A u \in Txns : u # t => receipt'[u] = receipt[u]
  BY <1>1, ReceiptState DEF ReceiptStates
<1>3. /\ refund'[t].state = "queued"
      /\ \A u \in Txns : u # t => refund'[u] = refund[u]
  <2>1. refund \in [Txns -> RefundRows]
    BY Parts DEF TypeOK
  <2>2. PICK a \in RefundAmounts(t) \ {0} :
          refund' = [refund EXCEPT ![t] = [state |-> "queued", amount |-> a]]
    BY DEF RequestRefund
  <2> QED
    BY <2>1, <2>2
<1>4. refund[t].state = "none"
  BY <1>1, Parts DEF RefundSound
<1>5. ASSUME NEW x \in Orders PROVE OrderSound(x)' /\ ServesPaid(x)' /\ RefundedBack(x)'
  <2>1. /\ OrderSound(x) /\ ServesPaid(x) /\ RefundedBack(x)
        /\ x \in Payables /\ attempt[x].ext \in Txns \union {None} /\ AttemptSound(x)
    BY OrderParts
  <2>2. order[x].linked /\ order[x].state \in Serving => attempt[x].ext \in Txns
    BY <2>1 DEF ServesPaid, AttemptSound, Settled
  <2>3. ServesPaid(x)'
    BY <1>1, <1>2, <2>1, <2>2 DEF ServesPaid, Serving, Used
  <2> QED
    BY <1>1, <1>3, <1>4, <2>1, <2>3 DEF OrderSound, RefundedBack
<1>6. ASSUME NEW q \in Payables PROVE AttemptSound(q)'
  <2>1. AttemptSound(q) /\ attempt[q].ext \in Txns \union {None}
    BY Parts, Shapes
  <2> QED
    BY <1>1, <1>2, <2>1, PaymentsAssumption DEF AttemptSound, Settled, Used
<1>7. ASSUME NEW u \in Txns PROVE ReceiptSound(u)' /\ RefundSound(u)' /\ AppliedServes(u)'
  <2>1. ReceiptSound(u) /\ RefundSound(u) /\ AppliedServes(u)
    BY Parts
  <2> QED
    BY <1>1, <1>2, <1>3, <2>1 DEF ReceiptSound, RefundSound, AppliedServes, Used, Serving
<1>8. CallSound'
  <2>1. call \in Txns \union {None} /\ CallSound
    BY Parts, Shapes
  <2> QED
    BY <1>1, <1>3, <2>1 DEF CallSound
<1> QED
  BY <1>5, <1>6, <1>7, <1>8 DEF PayInv

(* The refund has succeeded; the order follows if it was its own payment.  *)
LEMMA FinishKeeps ==
  ASSUME PayInv, TypeOK', HolderSound', NEW t \in Txns, Finish(t),
         UNCHANGED <<credited, bank>>, call' \in {call, None},
         receipt[t].state \in {"review_required", "refund_required", "refund_pending", "refunded"},
         refund'[t].state = "succeeded",
         \A u \in Txns : u # t => refund'[u] = refund[u],
         t \in Stripe /\ receipt[t].for # None => bank[t].refund = "succeeded"
  PROVE  PayInv'
<1> DEFINE p == receipt[t].for
           primary == p # None /\ attempt[p].ext = t /\ attempt[p].state = "refund_required"
<1>1. p \in Payables \union {None} /\ t # None
  BY Parts, Shapes, PaymentsAssumption
<1>2. /\ receipt'[t].state = "refunded" /\ receipt'[t].for = p
      /\ \A u \in Txns : u # t => receipt'[u] = receipt[u]
  <2>1. receipt' = [receipt EXCEPT ![t].state = "refunded"]
    BY DEF Finish
  <2> QED
    BY <2>1, ReceiptState DEF ReceiptStates
<1>3. ASSUME NEW q \in Payables
      PROVE  /\ attempt'[q].ext = attempt[q].ext
             /\ IF primary /\ q = p THEN attempt'[q].state = "refunded"
                                    ELSE attempt'[q].state = attempt[q].state
  <2>1. attempt \in [Payables -> AttemptRows] /\ attempt[q] \in AttemptRows
    BY Parts DEF TypeOK
  <2>2. attempt' = IF primary THEN [attempt EXCEPT ![p].state = "refunded"] ELSE attempt
    BY DEF Finish
  <2>3. /\ [attempt[q] EXCEPT !.state = "refunded"].state = "refunded"
        /\ [attempt[q] EXCEPT !.state = "refunded"].ext = attempt[q].ext
    BY <2>1, AttemptRow DEF AttemptStates
  <2> HIDE DEF primary, p
  <2> QED
    BY <2>1, <2>2, <2>3
<1>4. ASSUME NEW x \in Orders
      PROVE  \/ order'[x] = order[x]
             \/ /\ primary /\ x = p /\ order[x].linked
                /\ order[x].state \in {"refund_pending", "failed", "cancelled", "expired"}
                /\ order'[x].state = "refunded" /\ order'[x].linked = order[x].linked
  <2>1. order[x] \in OrderRows /\ order \in [Orders -> OrderRows]
    BY OrderParts
  <2>2. /\ [order[x] EXCEPT !.state = "refunded"].state = "refunded"
        /\ [order[x] EXCEPT !.state = "refunded"].linked = order[x].linked
    BY <2>1 DEF OrderRows
  <2>3. order' = IF primary /\ p \in Orders /\ order[p].linked
                      /\ order[p].state \in {"refund_pending", "failed", "cancelled", "expired"}
                 THEN [order EXCEPT ![p].state = "refunded"] ELSE order
    BY DEF Finish
  <2> HIDE DEF primary, p
  <2> QED
    BY <2>1, <2>2, <2>3
<1>5. primary => p # None /\ attempt[p].ext = t /\ attempt[p].state = "refund_required"
  OBVIOUS
<1> HIDE DEF p, primary
<1>6. ASSUME NEW x \in Orders PROVE OrderSound(x)' /\ ServesPaid(x)' /\ RefundedBack(x)'
  <2>1. /\ OrderSound(x) /\ ServesPaid(x) /\ RefundedBack(x)
        /\ x \in Payables /\ attempt[x].ext \in Txns \union {None} /\ AttemptSound(x)
    BY OrderParts
  <2>2. order[x].linked /\ order[x].state \in Serving => attempt[x].ext \in Txns
    BY <2>1 DEF ServesPaid, AttemptSound, Settled
  <2>3. OrderSound(x)'
    BY <1>3, <1>4, <1>5, <2>1 DEF OrderSound
  <2>4. ServesPaid(x)'
    BY <1>2, <1>3, <1>4, <1>5, <2>1, <2>2 DEF ServesPaid, Serving, Used
  <2>5. RefundedBack(x)'
    <3>1. t \in Stripe /\ primary => bank[t].refund = "succeeded"
      BY <1>5 DEF p
    <3>2. CASE order'[x] = order[x]
      BY <1>3, <2>1, <3>2 DEF RefundedBack
    <3>3. CASE order'[x] # order[x]
      BY <1>1, <1>3, <1>4, <1>5, <2>1, <3>1, <3>3 DEF RefundedBack
    <3> QED
      BY <3>2, <3>3
  <2> QED
    BY <2>3, <2>4, <2>5
<1>7. ASSUME NEW q \in Payables PROVE AttemptSound(q)'
  <2>1. AttemptSound(q) /\ attempt[q].ext \in Txns \union {None}
    BY Parts, Shapes
  <2> QED
    BY <1>1, <1>2, <1>3, <1>5, <2>1, PaymentsAssumption DEF AttemptSound, Settled, Used, p
<1>8. ASSUME NEW u \in Txns PROVE ReceiptSound(u)' /\ RefundSound(u)' /\ AppliedServes(u)'
  <2>1. ReceiptSound(u) /\ RefundSound(u) /\ AppliedServes(u) /\ TypeOK
    BY Parts
  <2>2. /\ receipt[u].for \in Payables \union {None} /\ bank[u].for \in Payables \union {None}
        /\ Topups \subseteq Payables
    BY <2>1, Shapes, Parts
  <2>3. ReceiptSound(u)'
    <3>1. CASE u = t
      BY <1>2, <2>1, <3>1 DEF ReceiptSound, Used
    <3>2. CASE u # t
      BY <1>2, <1>3, <1>5, <2>1, <2>2, <3>2 DEF ReceiptSound, Used
    <3> QED
      BY <3>1, <3>2
  <2>4. RefundSound(u)'
    BY <1>2, <1>3, <2>1, <2>2 DEF RefundSound
  <2>5. AppliedServes(u)'
    BY <1>2, <1>4, <2>1 DEF AppliedServes, Serving
  <2> QED
    BY <2>3, <2>4, <2>5
<1>9. CallSound'
  <2>1. call \in Txns \union {None} /\ CallSound
    BY Parts, Shapes
  <2> QED
    BY <2>1 DEF CallSound
<1> QED
  BY <1>6, <1>7, <1>8, <1>9 DEF PayInv

LEMMA ManualKeeps ==
  ASSUME PayInv, TypeOK', HolderSound', NEW t \in Txns, ConfirmManual(t)
  PROVE  PayInv'
<1>1. PICK a \in RefundAmounts(t) \ {0} :
        refund' = [refund EXCEPT ![t] = [state |-> "succeeded", amount |-> a]]
  BY DEF ConfirmManual
<1>2. refund'[t].state = "succeeded" /\ \A u \in Txns : u # t => refund'[u] = refund[u]
  <2>1. refund \in [Txns -> RefundRows]
    BY Parts DEF TypeOK
  <2> QED
    BY <1>1, <2>1
<1>3. receipt[t].state \in {"review_required", "refund_required"}
  BY DEF ConfirmManual, Refundable
<1>4. t \in Stripe => receipt[t].for = None
  BY Parts DEF ConfirmManual, ReceiptSound
<1> QED
  BY <1>2, <1>3, <1>4, FinishKeeps DEF ConfirmManual

LEMMA RefundState ==
  ASSUME PayInv, NEW t \in Txns, NEW s \in RefundStates,
         refund' = [refund EXCEPT ![t].state = s]
  PROVE  refund'[t].state = s /\ \A u \in Txns : u # t => refund'[u] = refund[u]
<1>1. refund \in [Txns -> RefundRows] /\ refund[t] \in RefundRows
  BY Parts DEF TypeOK
<1>2. [refund[t] EXCEPT !.state = s].state = s
  BY <1>1, RefundRow
<1> QED
  BY <1>1, <1>2

LEMMA ClaimKeeps ==
  ASSUME PayInv, TypeOK', HolderSound', NEW t \in Txns, ClaimRefund(t)
  PROVE  PayInv'
<1>1. /\ refund'[t].state = "processing"
      /\ \A u \in Txns : u # t => refund'[u] = refund[u]
      /\ refund[t].state \in Open
  BY RefundState DEF ClaimRefund, RefundStates
<1>2. CallSound'
  BY <1>1 DEF CallSound, ClaimRefund
<1> QED
  BY <1>1, <1>2, RefundKeeps DEF ClaimRefund

LEMMA UnansweredKeeps ==
  ASSUME PayInv, TypeOK', HolderSound', RefundUnanswered
  PROVE  PayInv'
<1>1. call \in Txns /\ call' = None
  BY Parts, Shapes DEF RefundUnanswered
<1>2. CASE refund[call].state = "processing"
  <2>1. refund' = [refund EXCEPT ![call].state = "pending"]
    BY <1>2 DEF RefundUnanswered
  <2>2. refund'[call].state = "pending" /\ \A u \in Txns : u # call => refund'[u] = refund[u]
    BY <1>1, <2>1, RefundState DEF RefundStates
  <2> QED
    BY <1>1, <1>2, <2>2, RefundKeeps DEF RefundUnanswered, Open, CallSound
<1>3. CASE refund[call].state # "processing"
  <2>1. refund' = [refund EXCEPT ![call].state = refund[call].state]
    BY <1>3 DEF RefundUnanswered
  <2>2. refund[call].state \in RefundStates
    BY <1>1, Parts DEF TypeOK, RefundRows
  <2>3. \A u \in Txns : refund'[u].state = refund[u].state
    BY <1>1, <2>1, <2>2, RefundState
  <2> QED
    BY <1>1, <2>3, RefundKeeps DEF RefundUnanswered, CallSound
<1> QED
  BY <1>2, <1>3

(* The gateway's word on a refund, asked for or not.                       *)
LEMMA VerdictKeeps ==
  ASSUME PayInv, TypeOK', HolderSound', NEW t \in Txns,
         NEW s \in {"pending", "succeeded", "failed"},
         s \in {"pending", bank[t].refund},
         RecordStripeRefund(t, s),
         UNCHANGED <<credited, bank>>, call' \in {call, None}
  PROVE  PayInv'
<1>1. CASE refund[t].state \in Open /\ bank[t].back = refund[t].amount
  <2>1. refund' = [refund EXCEPT ![t].state = s]
    BY <1>1 DEF RecordStripeRefund, Status
  <2>2. refund'[t].state = s /\ \A u \in Txns : u # t => refund'[u] = refund[u]
    BY <2>1, RefundState DEF RefundStates
  <2>3. CASE s = "succeeded"
    <3>1. Finish(t)
      BY <1>1, <2>3 DEF RecordStripeRefund, Status
    <3>2. receipt[t].state \in {"refund_pending", "refunded"}
      BY <1>1, Parts DEF RefundSound, Open
    <3> QED
      BY <2>2, <2>3, <3>1, <3>2, FinishKeeps
  <2>4. CASE s # "succeeded"
    <3>1. UNCHANGED <<order, attempt, receipt>>
      BY <1>1, <2>4 DEF RecordStripeRefund, Status
    <3>2. CallSound'
      <4>1. call \in Txns \union {None} /\ CallSound
        BY Parts, Shapes
      <4> QED
        BY <2>2, <4>1 DEF CallSound
    <3> QED
      BY <1>1, <2>2, <2>4, <3>1, <3>2, RefundKeeps
  <2> QED
    BY <2>3, <2>4
<1>2. CASE ~(refund[t].state \in Open /\ bank[t].back = refund[t].amount)
  <2>1. UNCHANGED <<records, bank>>
    BY <1>2 DEF RecordStripeRefund, records
  <2> QED
    BY <2>1, OutsideKeeps
<1> QED
  BY <1>1, <1>2
-----------------------------------------------------------------------------
LEMMA PayInit ==
  ASSUME Init
  PROVE  PayInv
<1>1. TypeOK
  BY PaymentsAssumption
     DEF Init, TypeOK, OrderRows, AttemptRows, ReceiptRows, RefundRows, Held, Holder, Free,
         OrderStates, AttemptStates, ReceiptStates, RefundStates, Unset
<1>2. Orders \subseteq Payables
  BY DEF Payables
<1> QED
  BY <1>1, <1>2 DEF Init, PayInv, CallSound, HolderSound, OrderSound, ServesPaid, RefundedBack,
       AttemptSound, ReceiptSound, RefundSound, AppliedServes, Free, Serving, Used, Settled

LEMMA GatewayKeeps ==
  ASSUME PayInv, TypeOK', HolderSound', Gateway
  PROVE  PayInv'
<1>1. ASSUME NEW t \in Txns, NEW p \in Payables \union {None}, NEW a \in Amounts, Pay(t, p, a)
      PROVE PayInv'
  <2>1. bank \in [Txns -> Held] /\ bank[t] \in Held
    BY Parts DEF TypeOK
  <2>2. bank' = [bank EXCEPT ![t] = [bank[t] EXCEPT !.paid = TRUE, !.for = p, !.amount = a]]
    BY <1>1 DEF Pay
  <2>3. /\ bank'[t].refund = bank[t].refund /\ bank'[t].back = bank[t].back /\ bank'[t].for = p
        /\ \A u \in Txns : u # t => bank'[u] = bank[u]
    BY <2>1, <2>2 DEF Held
  <2>4. ASSUME NEW u \in Txns
        PROVE  /\ bank[u].refund = "succeeded" => bank'[u].refund = "succeeded"
               /\ bank'[u].refund # "none" => refund[u].state # "none"
               /\ bank'[u].refund = "none" => bank'[u].back = 0
               /\ bank'[u].for # None => attempt[bank'[u].for].state # "none"
    <3>1. RefundSound(u)
      BY Parts
    <3> QED
      BY <1>1, <2>3, <3>1 DEF RefundSound, Pay
  <2> QED
    BY <1>1, <2>4, BankKeeps DEF Pay
<1>2. ASSUME NEW t \in Txns, Deliver(t) PROVE PayInv'
  BY <1>2, OutsideKeeps DEF Deliver
<1>3. ASSUME NEW t \in Txns, NEW s \in {"pending", "succeeded", "failed"}, GatewaySettles(t, s)
      PROVE PayInv'
  <2>1. bank \in [Txns -> Held] /\ bank[t] \in Held
    BY Parts DEF TypeOK
  <2>2. bank' = [bank EXCEPT ![t] = [bank[t] EXCEPT !.refund = s]]
    BY <1>3 DEF GatewaySettles
  <2>3. /\ bank'[t].refund = s /\ bank'[t].back = bank[t].back /\ bank'[t].for = bank[t].for
        /\ \A u \in Txns : u # t => bank'[u] = bank[u]
    BY <2>1, <2>2 DEF Held
  <2>4. ASSUME NEW u \in Txns
        PROVE  /\ bank[u].refund = "succeeded" => bank'[u].refund = "succeeded"
               /\ bank'[u].refund # "none" => refund[u].state # "none"
               /\ bank'[u].refund = "none" => bank'[u].back = 0
               /\ bank'[u].for # None => attempt[bank'[u].for].state # "none"
    <3>1. RefundSound(u)
      BY Parts
    <3> QED
      BY <1>3, <2>3, <3>1 DEF RefundSound, GatewaySettles
  <2> QED
    BY <1>3, <2>4, BankKeeps DEF GatewaySettles
<1>4. ASSUME NEW t \in Txns, NEW s \in {"pending", "succeeded", "failed"}, RefundNotice(t, s)
      PROVE PayInv'
  BY <1>4, VerdictKeeps DEF RefundNotice
<1>5. ASSUME GatewayRefund PROVE PayInv'
  <2>1. bank \in [Txns -> Held] /\ call \in Txns /\ bank[call] \in Held
    BY <1>5, Parts DEF TypeOK, GatewayRefund
  <2>2. bank' = [bank EXCEPT ![call] = [bank[call] EXCEPT !.refund = "pending", !.back = receipt[call].amount]]
    BY <1>5 DEF GatewayRefund
  <2>3. /\ bank'[call].refund = "pending" /\ bank'[call].for = bank[call].for
        /\ \A u \in Txns : u # call => bank'[u] = bank[u]
    BY <2>1, <2>2 DEF Held
  <2>4. ASSUME NEW u \in Txns
        PROVE  /\ bank[u].refund = "succeeded" => bank'[u].refund = "succeeded"
               /\ bank'[u].refund # "none" => refund[u].state # "none"
               /\ bank'[u].refund = "none" => bank'[u].back = 0
               /\ bank'[u].for # None => attempt[bank'[u].for].state # "none"
    <3>1. RefundSound(u) /\ CallSound
      BY Parts
    <3> QED
      BY <1>5, <2>3, <3>1 DEF RefundSound, CallSound, GatewayRefund
  <2> QED
    BY <1>5, <2>4, BankKeeps DEF GatewayRefund
<1>6. \/ \E t \in Txns, p \in Payables \union {None}, a \in Amounts : Pay(t, p, a)
      \/ \E t \in Txns : Deliver(t)
      \/ \E t \in Txns, s \in {"pending", "succeeded", "failed"} : GatewaySettles(t, s) \/ RefundNotice(t, s)
      \/ GatewayRefund
  BY DEF Gateway
<1> QED
  BY <1>1, <1>2, <1>3, <1>4, <1>5, <1>6

LEMMA MemberKeeps ==
  ASSUME PayInv, TypeOK', HolderSound', Member
  PROVE  PayInv'
<1>1. ASSUME NEW o \in Orders, BeginConfirm(o) \/ BeginCancel(o) PROVE PayInv'
  BY <1>1, OutsideKeeps DEF BeginConfirm, BeginCancel, Reads
<1>2. ASSUME NEW p \in Topups, ReserveTopup(p) PROVE PayInv'
  <2>1. /\ p \in Payables /\ attempt \in [Payables -> AttemptRows]
        /\ attempt[p].state \notin Settled
    BY <1>2, Parts DEF TypeOK, ReserveTopup, Settled
  <2>2. attempt'[p].state = "created" /\ attempt'[p].ext = None
        /\ \A q \in Payables : q # p => attempt'[q] = attempt[q]
    BY <1>2, <2>1 DEF ReserveTopup
  <2> QED
    BY <1>2, <2>1, <2>2, UnpaidKeeps DEF ReserveTopup
<1>3. ASSUME NEW p \in Payables, Checkout(p) PROVE PayInv'
  <2>1. /\ attempt \in [Payables -> AttemptRows] /\ attempt[p] \in AttemptRows
        /\ attempt[p].state \notin Settled /\ attempt[p].state # "none" /\ AttemptSound(p)
    BY <1>3, Parts DEF TypeOK, Checkout, Settled
  <2>2. /\ [attempt[p] EXCEPT !.state = "awaiting_customer"].state = "awaiting_customer"
        /\ [attempt[p] EXCEPT !.state = "awaiting_customer"].ext = attempt[p].ext
    BY <2>1, AttemptRow DEF AttemptStates
  <2>3. /\ attempt'[p].state = "awaiting_customer" /\ attempt'[p].ext = None
        /\ \A q \in Payables : q # p => attempt'[q] = attempt[q]
    BY <1>3, <2>1, <2>2 DEF Checkout, AttemptSound
  <2> QED
    BY <1>3, <2>1, <2>3, UnpaidKeeps DEF Checkout
<1>4. \/ \E o \in Orders : ReserveOrder(o) \/ BeginConfirm(o) \/ BeginCancel(o)
      \/ \E p \in Topups : ReserveTopup(p)
      \/ \E p \in Payables : Checkout(p)
  BY DEF Member
<1> QED
  BY <1>1, <1>2, <1>3, <1>4, ReserveKeeps

LEMMA OwnerKeeps ==
  ASSUME PayInv, TypeOK', HolderSound', Owner
  PROVE  PayInv'
<1>1. ASSUME NEW o \in Orders, RefundQueued(o) PROVE PayInv'
  BY <1>1, WithdrawnKeeps DEF RefundQueued
<1>2. ASSUME NEW o \in Orders, NEW a \in 0..Due[o], ApproveRefund(o, a) PROVE PayInv'
  BY <1>2, ApproveKeeps
<1>3. ASSUME NEW t \in Txns, RequestRefund(t) \/ ConfirmManual(t) PROVE PayInv'
  BY <1>3, RequestKeeps, ManualKeeps
<1>4. \/ \E o \in Orders : RefundQueued(o) \/ \E a \in 0..Due[o] : ApproveRefund(o, a)
      \/ \E t \in Txns : RequestRefund(t) \/ ConfirmManual(t)
  BY DEF Owner
<1> QED
  BY <1>1, <1>2, <1>3, <1>4

LEMMA EndingAttempts ==
  ASSUME PayInv, TypeOK', HolderSound',
         ExpireAttempts \/ \E o \in Orders : EndAttempt(o)
  PROVE  PayInv'
<1>1. ASSUME NEW p \in Payables
      PROVE  \/ attempt'[p] = attempt[p]
             \/ /\ attempt[p].state \in {"created", "awaiting_customer"}
                /\ attempt'[p].state = "expired" /\ attempt'[p].ext = attempt[p].ext
  <2>1. attempt \in [Payables -> AttemptRows] /\ attempt[p] \in AttemptRows
    BY Parts DEF TypeOK
  <2>2. /\ [attempt[p] EXCEPT !.state = "expired"].state = "expired"
        /\ [attempt[p] EXCEPT !.state = "expired"].ext = attempt[p].ext
    BY <2>1, AttemptRow DEF AttemptStates
  <2>3. CASE ExpireAttempts
    BY <2>1, <2>2, <2>3 DEF ExpireAttempts
  <2>4. CASE \E o \in Orders : EndAttempt(o)
    <3>1. PICK o \in Orders : EndAttempt(o)
      BY <2>4
    <3>2. attempt' = IF attempt[o].state \in {"created", "awaiting_customer"}
                     THEN [attempt EXCEPT ![o].state = "expired"] ELSE attempt
      BY <3>1 DEF EndAttempt
    <3> QED
      BY <2>1, <2>2, <3>2
  <2> QED
    BY <2>3, <2>4
<1>2. ASSUME NEW p \in Payables
      PROVE  \/ attempt'[p] = attempt[p]
             \/ /\ attempt[p].state \notin Settled /\ attempt'[p].ext = None
                /\ attempt'[p].state = "expired" /\ attempt[p].state # "none"
  <2>1. AttemptSound(p)
    BY Parts
  <2> QED
    BY <1>1, <2>1 DEF AttemptSound, Settled
<1>3. UNCHANGED <<order, receipt, refund, credited, bank, call>>
  BY DEF ExpireAttempts, EndAttempt
<1> QED
  BY <1>2, <1>3, UnpaidKeeps

LEMMA WorkKeeps ==
  ASSUME PayInv, TypeOK', HolderSound', Work
  PROVE  PayInv'
<1>1. ASSUME NEW h \in hook, Record(h) PROVE PayInv'
  <2>1. UNCHANGED <<refund, credited, bank, call>>
    BY <1>1 DEF Record
  <2>2. RecordRepeated(h) => PayInv'
    BY <1>1, OutsideKeeps DEF Record, RecordRepeated, records
  <2> QED
    BY <1>1, <2>1, <2>2, RecordPaidKeeps, RecordRefusedKeeps, RecordUnknownKeeps DEF Record
<1>2. ASSUME NEW t \in Txns, Apply(t) PROVE PayInv'
  BY <1>2, AppliedKeeps DEF Apply, Serving
<1>3. ASSUME NEW t \in Txns, Refuse(t) PROVE PayInv'
  <2>1. CASE AlreadyUsed(receipt[t].for)
    <3>1. receipt' = [receipt EXCEPT ![t].state = "applied"] /\ UNCHANGED <<attempt, order>>
      BY <1>3, <2>1 DEF Refuse
    <3> QED
      BY <1>3, <2>1, <3>1, AppliedKeeps DEF Refuse, AlreadyUsed, Serving
  <2> QED
    BY <1>3, <2>1, RefuseKeeps
<1>4. ASSUME NEW t \in Txns, Reconcile(t) \/ RefuseMember(t) \/ ClaimRefund(t) PROVE PayInv'
  BY <1>2, <1>3, <1>4, ActivateKeeps, CreditKeeps, ClaimKeeps DEF Reconcile, RefuseOver, RefuseMember
<1>5. ASSUME NEW o \in Orders, BeginExpire(o) PROVE PayInv'
  BY <1>5, OutsideKeeps DEF BeginExpire, Reads
<1>6. ASSUME NEW o \in Orders, Withdraw(o) PROVE PayInv'
  BY <1>6, WithdrawnKeeps DEF Withdraw
<1>7. GiveUp => PayInv'
  BY OutsideKeeps DEF GiveUp
<1>8. ASSUME RefundAnswered PROVE PayInv'
  <2>1. call \in Txns
    BY <1>8, Parts, Shapes DEF RefundAnswered
  <2>2. bank[call].refund \in {"pending", "succeeded", "failed"}
    BY <1>8, <2>1, Parts, Shapes DEF RefundAnswered, Held
  <2> QED
    BY <1>8, <2>1, <2>2, VerdictKeeps DEF RefundAnswered
<1>9. ASSUME NEW o \in Orders,
             Confirm(o) \/ Cancel(o) \/ PersistExpired(o) \/ Provision(o) \/ FailProvisioning(o)
      PROVE  PayInv'
  BY <1>9, ConfirmKeeps, CancelKeeps, PersistKeeps, ProvisionKeeps, FailKeeps
<1> QED
  BY <1>1, <1>4, <1>5, <1>6, <1>7, <1>8, <1>9, MarkEndedKeeps, EndingAttempts, UnansweredKeeps DEF Work

LEMMA PayNext ==
  ASSUME PayInv, [Next]_vars
  PROVE  PayInv'
<1>1. TypeOK' /\ HolderSound'
  BY Parts, TypeSafe, HolderSafe
<1>2. CASE UNCHANGED vars
  BY <1>1, <1>2, OutsideKeeps DEF vars
<1>3. CASE Tick
  BY <1>1, <1>3, OutsideKeeps DEF Tick
<1>4. CASE Crash
  BY <1>1, <1>4, OutsideKeeps DEF Crash
<1> QED
  BY <1>1, <1>2, <1>3, <1>4, GatewayKeeps, MemberKeeps, OwnerKeeps, WorkKeeps DEF Next

(* For any orders, top-ups, transactions, prices and times: every attempt  *)
(* with money is settled with one receipt made for it, a receipt in use is *)
(* the one of its attempt, and no refund is asked for, or made at the      *)
(* gateway, before its receipt was set aside for it.                       *)
THEOREM PaymentsSafe == Spec => []PayInv
<1> QED
  BY PayInit, PayNext, PTL DEF Spec

(* The rows of orders, attempts, receipts and refunds keep to the states   *)
(* of recordPaymentEvent, the order handlers and the refund worker.        *)
THEOREM PaymentsTyped == Spec => []TypeOK
<1>1. PayInv => TypeOK
  BY DEF PayInv
<1> QED
  BY <1>1, PaymentsSafe, PTL

(* confirm and reconcilePaymentReceipt between them never serve an order   *)
(* twice paid, unpaid, underpaid or being paid back.                       *)
THEOREM ServicePaid == Spec => []ServiceIsPaid
<1>1. PayInv => ServiceIsPaid
  <2> SUFFICES ASSUME PayInv, NEW o \in Orders, order[o].state \in Serving
      PROVE IF order[o].linked
            THEN /\ order[o].wallet = "none"
                 /\ attempt[o].state \in {"paid", "completed"}
                 /\ attempt[o].ext # None
                 /\ LET t == attempt[o].ext
                    IN  /\ receipt[t].state \in Used
                        /\ receipt[t].for = o /\ receipt[t].amount = Due[o]
                        /\ refund[t].state = "none" /\ bank[t].back = 0
            ELSE order[o].wallet = "used" /\ attempt[o].state \notin {"paid", "completed"}
    BY DEF ServiceIsPaid
  <2>1. CASE order[o].linked
    <3>1. attempt[o].ext \in Txns /\ receipt[attempt[o].ext].for = o
      BY <2>1, OrderParts DEF ServesPaid, AttemptSound, Settled
    <3>2. /\ order[o].wallet = "none" /\ attempt[o].state \in {"paid", "completed"}
          /\ receipt[attempt[o].ext].state \in Used /\ receipt[attempt[o].ext].amount = Due[o]
      BY <2>1, OrderParts DEF ServesPaid
    <3>3. /\ refund[attempt[o].ext].state = "none" /\ bank[attempt[o].ext].back = 0
          /\ attempt[o].ext # None
      BY <3>1, <3>2, ReceiptParts, Parts DEF RefundSound
    <3> QED
      BY <2>1, <3>1, <3>2, <3>3
  <2>2. CASE ~order[o].linked
    BY <2>2, OrderParts, UnlinkedAttempt DEF ServesPaid, Serving
  <2> QED
    BY <2>1, <2>2
<1> QED
  BY <1>1, PaymentsSafe, PTL

(* Money counted as applied is in use, whatever cancels, expires, fails or *)
(* refunds its order: paymentMarkReceiptRefund catches every receipt.      *)
THEOREM AppliedUsed == Spec => []AppliedIsUsed
<1>1. PayInv => AppliedIsUsed
  <2> SUFFICES ASSUME PayInv, NEW t \in Txns, receipt[t].state = "applied"
      PROVE LET p == receipt[t].for
            IN  /\ p # None
                /\ attempt[p].ext = t
                /\ p \in Orders => order[p].state \in Serving \union {"refunding"}
                /\ p \in Topups => credited[t] = 1
    BY DEF AppliedIsUsed
  <2>1. receipt[t].for \in Payables /\ attempt[receipt[t].for].ext = t /\ None \notin Payables
    BY ReceiptParts, PaymentsAssumption DEF Used
  <2> QED
    BY <2>1, Parts DEF AppliedServes, ReceiptSound
<1> QED
  BY <1>1, PaymentsSafe, PTL

(* creditPaymentTopup credits a transaction at most once, and what was     *)
(* credited is never refunded too, for any number of callbacks and crashes. *)
THEOREM CreditedAtMostOnce == Spec => []CreditedOnce
<1>1. PayInv => CreditedOnce
  <2> SUFFICES ASSUME PayInv, NEW t \in Txns
      PROVE /\ credited[t] <= 1
            /\ credited[t] = 1 => receipt[t].state = "applied" /\ refund[t].state = "none"
    BY DEF CreditedOnce
  <2>1. credited[t] = IF receipt[t].state = "applied" /\ receipt[t].for \in Topups THEN 1 ELSE 0
    BY Parts DEF ReceiptSound
  <2>2. receipt[t].state = "applied" => refund[t].state = "none"
    BY Parts DEF RefundSound
  <2> QED
    BY <2>1, <2>2
<1> QED
  BY <1>1, PaymentsSafe, PTL

(* finishPaymentRefund and the rules for what may be refunded: the payment *)
(* of an order in service or still waiting is not refunded, and an order   *)
(* is called refunded only when its own payment has gone back.             *)
THEOREM RefundsFollow == Spec => []RefundFollowsService
<1>1. PayInv => RefundFollowsService
  <2>1. ASSUME PayInv, NEW t \in Txns, refund[t].state # "none", receipt[t].for \in Orders,
               attempt[receipt[t].for].ext = t
        PROVE  order[receipt[t].for].state \notin Serving \union {"pending"}
    <3> DEFINE o == receipt[t].for
    <3>1. receipt[t].state \in {"refund_pending", "refunded"} /\ t # None
      BY <2>1, Parts, PaymentsAssumption DEF RefundSound
    <3>2. attempt[o].state \in Settled /\ attempt[o].state # "paid"
      BY <2>1, <3>1, OrderParts DEF AttemptSound, Used
    <3>3. order[o].state # "pending"
      BY <2>1, <3>2, OrderParts DEF OrderSound, Settled
    <3>4. order[o].state \notin Serving
      BY <2>1, <3>1, <3>2, OrderParts DEF OrderSound, ServesPaid, Serving, Used, Settled
    <3> QED
      BY <3>3, <3>4
  <2>2. ASSUME PayInv, NEW o \in Orders, order[o].state = "refunded", order[o].linked
        PROVE  /\ attempt[o].ext # None
               /\ refund[attempt[o].ext].state = "succeeded"
               /\ attempt[o].ext \in Stripe => bank[attempt[o].ext].refund = "succeeded"
    BY <2>2, OrderParts DEF RefundedBack
  <2> QED
    BY <2>1, <2>2 DEF RefundFollowsService
<1> QED
  BY <1>1, PaymentsSafe, PTL
=============================================================================
