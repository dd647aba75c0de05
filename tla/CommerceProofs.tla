--------------------------- MODULE CommerceProofs ---------------------------
(* Commerce for every set of orders, plans, credits and sites, every price, *)
(* duration and bound.                                                      *)
EXTENDS Commerce, SequenceTheorems, Sums

(* An order that exists has a plan.                                         *)
PlanKnown == \A o \in Orders : order[o].state # "new" => order[o].plan \in Plans

TypeInv == TypeOK /\ PlanKnown

-----------------------------------------------------------------------------
(* Rows.                                                                    *)

(* Order o is now in state st; it kept its offer, and the others are as     *)
(* they were.                                                               *)
Moves(o, st) == /\ order' \in [Orders -> Order]
                /\ order'[o].state = st
                /\ order'[o].plan = order[o].plan
                /\ order'[o].action = order[o].action
                /\ \A q \in Orders \ {o} : order'[q] = order[q]

(* A row with some fields replaced is a row.                                *)
LEMMA RowType ==
  ASSUME NEW r \in Order, NEW st \in OrderStates, NEW d \in Nat, NEW a \in Nat
  PROVE  /\ [r EXCEPT !.state = st, !.deadline = d] \in Order
         /\ [r EXCEPT !.state = st, !.refund = a] \in Order
  BY DEF Order

(* What saveOrder changes: the state, and the deadline no longer counts.    *)
LEMMA BecomeMoves ==
  ASSUME order \in [Orders -> Order], NEW o \in Orders, NEW st \in OrderStates,
         Become(o, st)
  PROVE  Moves(o, st) /\ order'[o].refund = order[o].refund
<1>1. order[o] \in Order
  OBVIOUS
<1>2. DEFINE r == [order[o] EXCEPT !.state = st, !.deadline = 0]
<1>3. r \in Order
  BY <1>1, RowType
<1>4. /\ r.state = st
      /\ r.plan = order[o].plan
      /\ r.action = order[o].action
      /\ r.refund = order[o].refund
  BY <1>1 DEF Order
<1>5. order' = [order EXCEPT ![o] = r]
  BY DEF Become
<1> HIDE DEF r
<1>6. order'[o] = r /\ order' \in [Orders -> Order] /\ \A q \in Orders \ {o} : order'[q] = order[q]
  BY <1>3, <1>5
<1> QED
  BY <1>4, <1>6 DEF Moves

(* The same for the confirmation.                                           *)
LEMMA ConfirmMoves ==
  ASSUME order \in [Orders -> Order], NEW o \in Orders, now \in Nat, Confirm(o)
  PROVE  Moves(o, "provisioning") /\ order'[o].refund = order[o].refund
<1>1. order[o] \in Order /\ now + ProvisionTTL \in Nat
  BY BoundAssumption
<1>2. DEFINE r == [order[o] EXCEPT !.state = "provisioning", !.deadline = now + ProvisionTTL]
<1>3. r \in Order
  BY <1>1, RowType DEF OrderStates
<1>4. /\ r.state = "provisioning"
      /\ r.plan = order[o].plan
      /\ r.action = order[o].action
      /\ r.refund = order[o].refund
  BY <1>1 DEF Order
<1>5. order' = [order EXCEPT ![o] = r]
  BY DEF Confirm
<1> HIDE DEF r
<1>6. order'[o] = r /\ order' \in [Orders -> Order] /\ \A q \in Orders \ {o} : order'[q] = order[q]
  BY <1>3, <1>5
<1> QED
  BY <1>4, <1>6 DEF Moves

(* The same for a refund of the amount a.                                   *)
LEMMA RefundMoves ==
  ASSUME order \in [Orders -> Order], NEW o \in Orders, NEW st \in OrderStates, NEW a \in Nat,
         order' = [order EXCEPT ![o] = [@ EXCEPT !.state = st, !.refund = a]]
  PROVE  Moves(o, st) /\ order'[o].refund = a
<1>1. order[o] \in Order
  OBVIOUS
<1>2. DEFINE r == [order[o] EXCEPT !.state = st, !.refund = a]
<1>3. r \in Order
  BY <1>1, RowType
<1>4. /\ r.state = st
      /\ r.plan = order[o].plan
      /\ r.action = order[o].action
      /\ r.refund = a
  BY <1>1 DEF Order
<1>5. order' = [order EXCEPT ![o] = r]
  OBVIOUS
<1> HIDE DEF r
<1>6. order'[o] = r /\ order' \in [Orders -> Order] /\ \A q \in Orders \ {o} : order'[q] = order[q]
  BY <1>3, <1>5
<1> QED
  BY <1>4, <1>6 DEF Moves

(* A new order has its plan, and the others are as they were.               *)
LEMMA CreateRow ==
  ASSUME order \in [Orders -> Order], NEW o \in Orders, NEW p \in Plans,
         now \in Nat, expires \in Nat, CreateOrder(o, p)
  PROVE  /\ order' \in [Orders -> Order]
         /\ order'[o].state = "pending"
         /\ order'[o].plan = p
         /\ order'[o].refund = 0
         /\ \A q \in Orders \ {o} : order'[q] = order[q]
<1> DEFINE renewing == ent.plan = p /\ InForce
           r == [state |-> "pending", plan |-> p,
                 action |-> IF renewing THEN "renew" ELSE "purchase",
                 before |-> IF renewing THEN expires ELSE 0,
                 deadline |-> now + OrderTTL, refund |-> 0]
<1>1. order' = [order EXCEPT ![o] = r]
  BY DEF CreateOrder
<1>2. (IF renewing THEN "renew" ELSE "purchase") \in {"purchase", "renew"}
  OBVIOUS
<1>3. (IF renewing THEN expires ELSE 0) \in Nat
  OBVIOUS
<1> HIDE DEF renewing
<1>4. now + OrderTTL \in Nat /\ p \in PlanIds
  BY BoundAssumption DEF PlanIds
<1>5. r \in Order /\ r.state = "pending" /\ r.plan = p /\ r.refund = 0
  BY <1>2, <1>3, <1>4 DEF Order, OrderStates
<1> HIDE DEF r
<1> QED
  BY <1>1, <1>5
-----------------------------------------------------------------------------
(* Types.                                                                   *)

(* The pieces of the member's document that the handlers put together.      *)
LEMMA SlotType ==
  ASSUME TypeOK
  PROVE  /\ Paused \in Seq(PlanSlot)
         /\ \A p \in Plans : Until(p) \in Nat
         /\ \A t \in PlanSlot : ResumedUntil(t) \in Nat /\ t.ent \in Entitlement /\ t.period \in Nat
         /\ \A n \in Nat : Later(now, expires) + n \in Nat
         /\ \A q \in OrderIds : [ent EXCEPT !.renewal = q] \in Entitlement
         /\ \A p \in Plans, q \in OrderIds : [plan |-> p, order |-> q, renewal |-> NoOrder] \in Entitlement
<1> USE DEF TypeOK
<1>1. [ent |-> ent, expires |-> expires, paused |-> now, period |-> period] \in PlanSlot
  BY DEF PlanSlot
<1>2. Paused \in Seq(PlanSlot)
  <2>1. CASE ent = NoEntitlement \/ ~InForce
    BY <2>1 DEF Paused
  <2>2. CASE ~(ent = NoEntitlement \/ ~InForce)
    BY <2>2, <1>1, AppendProperties DEF Paused
  <2> QED
    BY <2>1, <2>2
<1>3. \A p \in Plans : Until(p) \in Nat
  BY PriceAssumption DEF Until
<1>4. \A t \in PlanSlot : t.ent \in Entitlement /\ t.period \in Nat /\ t.expires \in Nat /\ t.paused \in Nat
  BY DEF PlanSlot
<1>5. \A t \in PlanSlot : ResumedUntil(t) \in Nat
  BY <1>4 DEF ResumedUntil, Later
<1>6. \A n \in Nat : Later(now, expires) + n \in Nat
  BY DEF Later
<1>7. \A q \in OrderIds : [ent EXCEPT !.renewal = q] \in Entitlement
  BY DEF Entitlement
<1>8. \A p \in Plans, q \in OrderIds : [plan |-> p, order |-> q, renewal |-> NoOrder] \in Entitlement
  BY DEF Entitlement, OrderIds, PlanIds
<1> QED
  BY <1>2, <1>3, <1>4, <1>5, <1>6, <1>7, <1>8

(* A set of positions that is not empty has a first one.                    *)
LEMMA FirstExists ==
  ASSUME NEW T \in SUBSET Nat, T # {}
  PROVE  \E i \in T : \A j \in T : i <= j
<1>1. PICK i \in T : \A j \in T : ~(<<j, i>> \in OpToRel(<, Nat))
  BY NatLessThanWellFounded, WFMin
<1>2. \A j \in T : ~(j < i)
  BY <1>1 DEF OpToRel
<1> QED
  BY <1>2

(* Taking a refunded order out of the queue leaves a queue.                 *)
LEMMA WithoutType ==
  ASSUME TypeOK, NEW o \in Orders, QueuedAt(o) # {}
  PROVE  WithoutOrder(o) \in Seq(PlanSlot)
<1> DEFINE i == CHOOSE i \in QueuedAt(o) : \A j \in QueuedAt(o) : i <= j
<1>1. queue \in Seq(PlanSlot) /\ order[o].before \in Nat
  BY DEF TypeOK, Order
<1>2. i \in DOMAIN queue
  <2>1. QueuedAt(o) \subseteq DOMAIN queue /\ DOMAIN queue \subseteq Nat
    BY <1>1, LenProperties DEF QueuedAt
  <2> QED
    BY <2>1, FirstExists
<1> HIDE DEF i
<1>3. queue[i] \in PlanSlot
  BY <1>1, <1>2, ElementOfSeq
<1>4. [queue[i].ent EXCEPT !.renewal = NoOrder] \in Entitlement
  BY <1>3 DEF PlanSlot, Entitlement, OrderIds
<1> DEFINE t == [queue[i] EXCEPT !.expires = order[o].before,
                                 !.ent = [queue[i].ent EXCEPT !.renewal = NoOrder]]
<1>5. t \in PlanSlot
  BY <1>1, <1>3, <1>4 DEF PlanSlot
<1>6. [queue EXCEPT ![i] = t] \in Seq(PlanSlot)
  BY <1>1, <1>2, <1>5, ExceptSeq
<1>7. RemoveAt(queue, i) \in Seq(PlanSlot)
  <2>1. i \in 1..Len(queue)
    BY <1>1, <1>2
  <2>2. Len(queue) \in Nat /\ \A j \in 1..Len(queue) : queue[j] \in PlanSlot
    BY <1>1, LenProperties, ElementOfSeq
  <2>3. SubSeq(queue, 1, i - 1) \in Seq(PlanSlot)
    BY <2>1, <2>2, SubSeqProperties
  <2>4. SubSeq(queue, i + 1, Len(queue)) \in Seq(PlanSlot)
    BY <2>1, <2>2, SubSeqProperties
  <2> QED
    BY <2>3, <2>4, ConcatProperties DEF RemoveAt
<1> QED
  BY <1>6, <1>7 DEF WithoutOrder, i

(* The price of an existing order is an amount.                             *)
LEMMA PriceType ==
  ASSUME TypeInv, NEW o \in Orders, order[o].state # "new"
  PROVE  PriceOf(o) \in Nat
  BY PriceAssumption DEF TypeInv, PlanKnown, PriceOf

(* Every posting leaves a wallet within its limits and a known event key.   *)
LEMMA PostType ==
  ASSUME TypeOK, NEW amount \in Nat, NEW event \in Events, NEW da, NEW dh,
         PostUnlessFree(amount, event, da, dh)
  PROVE  available' \in 0..Limit /\ held' \in 0..Limit /\ posted' \subseteq Events
<1>1. CASE amount > 0
  BY <1>1 DEF TypeOK, PostUnlessFree, Post
<1>2. CASE ~(amount > 0)
  BY <1>2 DEF TypeOK, PostUnlessFree, wallet
<1> QED
  BY <1>1, <1>2

LEMMA MoneyType ==
  ASSUME TypeInv, NEW o \in Orders, order[o].state # "new", NEW a \in Nat,
         Hold(o) \/ Release(o) \/ Capture(o) \/ Return(o, a)
  PROVE  available' \in 0..Limit /\ held' \in 0..Limit /\ posted' \subseteq Events
<1>1. TypeOK /\ PriceOf(o) \in Nat
  BY PriceType DEF TypeInv
<1>2. <<"hold", o>> \in Events /\ <<"release", o>> \in Events
      /\ <<"capture", o>> \in Events /\ <<"refund", o>> \in Events
  BY DEF Events
<1> HIDE DEF Events
<1>3. CASE Hold(o)
  BY <1>1, <1>2, <1>3, PostType DEF Hold
<1>4. CASE Release(o)
  BY <1>1, <1>2, <1>4, PostType DEF Release
<1>5. CASE Capture(o)
  BY <1>1, <1>2, <1>5, PostType DEF Capture
<1>6. CASE Return(o, a)
  BY <1>1, <1>2, <1>6, PostType DEF Return
<1> QED
  BY <1>3, <1>4, <1>5, <1>6

(* A moved order still has its plan.                                        *)
LEMMA KnownKept ==
  ASSUME TypeInv, NEW o \in Orders, NEW st, Moves(o, st), order[o].state # "new"
  PROVE  PlanKnown'
  BY DEF TypeInv, PlanKnown, Moves

(* What an untouched part of the state leaves typed.                        *)
UserTypeOK == /\ ent \in Entitlement
              /\ expires \in Nat
              /\ enabled \in BOOLEAN
              /\ queue \in Seq(PlanSlot)
              /\ period \in Nat
              /\ pendingReset \in BOOLEAN
RestTypeOK == /\ revoked \subseteq Codes
              /\ sent \in [Sites -> Nat]
              /\ issued \in [Sites -> SUBSET Nat]
              /\ now \in Nat
              /\ periods \in Nat
              /\ interventions \in 0..MaxInterventions
WalletTypeOK == available \in 0..Limit /\ held \in 0..Limit /\ posted \subseteq Events
OrderTypeOK == /\ order \in [Orders -> Order]
               /\ DOMAIN expected = Orders
               /\ request \in [Orders -> RequestStates]

LEMMA TypeParts == TypeOK <=> OrderTypeOK /\ WalletTypeOK /\ UserTypeOK /\ RestTypeOK
  BY DEF TypeOK, OrderTypeOK, WalletTypeOK, UserTypeOK, RestTypeOK

(* A step of an order that exists keeps the types, whatever it does to the  *)
(* wallet and to the member.                                                *)
LEMMA OrderStepType ==
  ASSUME TypeInv, NEW o \in Orders, NEW st, order[o].state # "new",
         Moves(o, st), WalletTypeOK', UserTypeOK', RestTypeOK',
         DOMAIN expected' = Orders, request' \in [Orders -> RequestStates]
  PROVE  TypeInv'
<1>1. PlanKnown'
  BY KnownKept
<1>2. OrderTypeOK'
  BY DEF OrderTypeOK, Moves
<1>3. TypeOK'
  BY <1>2 DEF TypeOK, OrderTypeOK, WalletTypeOK, UserTypeOK, RestTypeOK
<1> QED
  BY <1>1, <1>3 DEF TypeInv

(* A step that leaves the orders alone keeps their plans.                   *)
LEMMA OtherStepType ==
  ASSUME TypeInv, order' = order, DOMAIN expected' = Orders,
         request' \in [Orders -> RequestStates], WalletTypeOK', UserTypeOK', RestTypeOK'
  PROVE  TypeInv'
<1>1. PlanKnown' /\ OrderTypeOK'
  BY DEF TypeInv, PlanKnown, OrderTypeOK, TypeOK
<1>2. TypeOK'
  BY <1>1 DEF TypeOK, OrderTypeOK, WalletTypeOK, UserTypeOK, RestTypeOK
<1> QED
  BY <1>1, <1>2 DEF TypeInv

(* The shape of a step: an order is created, an order moves, or the orders  *)
(* stay as they are.                                                        *)
MovesOrder(o) == \/ Confirm(o) \/ CancelPending(o) \/ CancelProvisioning(o)
                 \/ ExpireOrder(o) \/ FailProvisioning(o)
                 \/ FulfilPurchase(o) \/ FulfilRenewal(o) \/ FulfilRefund(o)
                 \/ RefundQueued(o) \/ \E a \in 0..Limit : RefundCurrent(o, a)
LeavesOrders == \/ \E c \in Credits : AdjustBalance(c) \/ RedeemCode(c) \/ RevokeCode(c)
                \/ \E o \in Orders : RequestRefund(o)
                \/ \E o \in Orders : CloseRequest(o, "cancelled") \/ CloseRequest(o, "rejected")
                \/ StopRunOut \/ RestorePreviousPlan \/ PeriodEnds \/ StartPeriod
                \/ \E p \in Plans : AssignPlan(p)
                \/ ExtendByOwner(1) \/ ResetByOwner
                \/ \E on \in BOOLEAN : SetEnabled(on)
                \/ \E s \in Sites : SiteStep(s)
                \/ Tick

(* The worker, the member and the owner moving an order.                    *)
LEMMA OrderTypeStep ==
  ASSUME TypeInv, NEW o \in Orders, MovesOrder(o)
  PROVE  TypeInv'
<1>1. TypeOK /\ OrderTypeOK /\ WalletTypeOK /\ UserTypeOK /\ RestTypeOK
  BY TypeParts DEF TypeInv
<1>2. order \in [Orders -> Order] /\ now \in Nat /\ order[o] \in Order
  BY <1>1 DEF OrderTypeOK, RestTypeOK
<1>3. order[o].refund \in Nat /\ order[o].before \in Nat
  BY <1>2 DEF Order
<1>4. {"provisioning", "cancelled", "expired", "failed", "completed", "refunding", "refunded"} \subseteq OrderStates
  BY DEF OrderStates
<1>5. \A p \in Plans : Days[p] \in Nat
  BY PriceAssumption
<1>6. CASE Confirm(o)
  <2>1. Moves(o, "provisioning") /\ order[o].state # "new"
    BY <1>2, <1>6, ConfirmMoves DEF Confirm
  <2>2. WalletTypeOK'
    BY <2>1, <1>6, MoneyType DEF Confirm, WalletTypeOK
  <2>3. UserTypeOK'
    BY <1>1, <1>6 DEF Confirm, UserTypeOK
  <2>4. RestTypeOK' /\ DOMAIN expected' = Orders /\ request' \in [Orders -> RequestStates]
    BY <1>1, <1>6 DEF Confirm, RestTypeOK, OrderTypeOK, sites, bounds
  <2> QED
    BY <2>1, <2>2, <2>3, <2>4, OrderStepType
<1>7. CASE CancelPending(o) \/ ExpireOrder(o)
  <2>1. PICK st \in {"cancelled", "expired"} : Become(o, st)
    BY <1>7 DEF CancelPending, ExpireOrder
  <2>2. Moves(o, st) /\ order[o].state # "new"
    BY <1>2, <1>4, <1>7, <2>1, BecomeMoves DEF CancelPending, ExpireOrder
  <2>3. WalletTypeOK' /\ UserTypeOK'
    BY <1>1, <1>7 DEF CancelPending, ExpireOrder, WalletTypeOK, UserTypeOK, wallet, user
  <2>4. RestTypeOK' /\ DOMAIN expected' = Orders /\ request' \in [Orders -> RequestStates]
    BY <1>1, <1>7 DEF CancelPending, ExpireOrder, RestTypeOK, OrderTypeOK, sites, bounds
  <2> QED
    BY <2>2, <2>3, <2>4, OrderStepType
<1>8. CASE CancelProvisioning(o) \/ FailProvisioning(o)
  <2>1. PICK st \in {"cancelled", "failed"} : GiveUp(o, st)
    BY <1>8 DEF CancelProvisioning, FailProvisioning
  <2>2. Moves(o, st) /\ order[o].state # "new"
    BY <1>2, <1>4, <2>1, BecomeMoves DEF GiveUp
  <2>3. WalletTypeOK'
    BY <2>1, <2>2, MoneyType DEF GiveUp, WalletTypeOK
  <2>4. UserTypeOK'
    BY <1>1, <2>1 DEF GiveUp, UserTypeOK
  <2>5. RestTypeOK' /\ DOMAIN expected' = Orders /\ request' \in [Orders -> RequestStates]
    BY <1>1, <2>1 DEF GiveUp, RestTypeOK, OrderTypeOK, sites, bounds
  <2> QED
    BY <2>2, <2>3, <2>4, <2>5, OrderStepType
<1>9. CASE FulfilPurchase(o)
  <2>1. Moves(o, "completed") /\ order[o].state # "new" /\ order[o].plan \in Plans
    BY <1>2, <1>4, <1>9, BecomeMoves DEF FulfilPurchase, TypeInv, PlanKnown
  <2>2. WalletTypeOK'
    BY <2>1, <1>9, MoneyType DEF FulfilPurchase, WalletTypeOK
  <2>3. UserTypeOK'
    <3>1. queue' \in Seq(PlanSlot)
      BY <1>1, <1>9, SlotType DEF FulfilPurchase
    <3>2. ent' \in Entitlement /\ expires' \in Nat
      BY <1>1, <1>9, <2>1, SlotType DEF FulfilPurchase, OrderIds
    <3>3. period' \in Nat
      BY <1>1, <1>9 DEF FulfilPurchase, RestTypeOK
    <3>4. enabled' \in BOOLEAN /\ pendingReset' \in BOOLEAN
      BY <1>1, <1>9, Zenon DEF FulfilPurchase, UserTypeOK
    <3> QED
      BY <3>1, <3>2, <3>3, <3>4 DEF UserTypeOK
  <2>4. RestTypeOK' /\ DOMAIN expected' = Orders /\ request' \in [Orders -> RequestStates]
    BY <1>1, <1>9 DEF FulfilPurchase, RestTypeOK, OrderTypeOK, sites
  <2> QED
    BY <2>1, <2>2, <2>3, <2>4, OrderStepType
<1>10. CASE FulfilRenewal(o)
  <2>1. Moves(o, "completed") /\ order[o].state # "new" /\ order[o].plan \in Plans
    BY <1>2, <1>4, <1>10, BecomeMoves DEF FulfilRenewal, TypeInv, PlanKnown
  <2>2. WalletTypeOK'
    BY <2>1, <1>10, MoneyType DEF FulfilRenewal, WalletTypeOK
  <2>3. UserTypeOK'
    <3>1. ent' \in Entitlement /\ expires' \in Nat
      BY <1>1, <1>5, <1>10, <2>1, SlotType DEF FulfilRenewal, OrderIds
    <3> QED
      BY <1>1, <1>10, <3>1 DEF FulfilRenewal, UserTypeOK
  <2>4. RestTypeOK' /\ DOMAIN expected' = Orders /\ request' \in [Orders -> RequestStates]
    BY <1>1, <1>10 DEF FulfilRenewal, RestTypeOK, OrderTypeOK, sites, bounds
  <2> QED
    BY <2>1, <2>2, <2>3, <2>4, OrderStepType
<1>11. CASE FulfilRefund(o)
  <2>1. Moves(o, "refunded") /\ order[o].state # "new"
    BY <1>2, <1>4, <1>11, BecomeMoves DEF FulfilRefund
  <2>2. WalletTypeOK'
    BY <2>1, <1>3, <1>11, MoneyType DEF FulfilRefund, WalletTypeOK
  <2>3. UserTypeOK'
    <3>1. ent' \in Entitlement /\ expires' \in Nat
      BY <1>1, <1>2, <1>3, <1>11, SlotType DEF FulfilRefund, OrderIds, UserTypeOK
    <3> QED
      BY <1>1, <1>11, <3>1 DEF FulfilRefund, UserTypeOK
  <2>4. RestTypeOK' /\ DOMAIN expected' = Orders /\ request' \in [Orders -> RequestStates]
    BY <1>1, <1>11 DEF FulfilRefund, RestTypeOK, OrderTypeOK, sites, bounds
  <2> QED
    BY <2>1, <2>2, <2>3, <2>4, OrderStepType
<1>12. CASE RefundQueued(o)
  <2>1. order[o].state # "new" /\ PriceOf(o) \in Nat
    BY <1>12, PriceType DEF RefundQueued, Refundable
  <2>2. Moves(o, "refunded")
    BY <1>2, <1>4, <1>12, <2>1, RefundMoves DEF RefundQueued
  <2>3. WalletTypeOK'
    BY <2>1, <1>12, MoneyType DEF RefundQueued, WalletTypeOK
  <2>4. queue' \in Seq(PlanSlot)
    BY <1>1, <1>12, WithoutType DEF RefundQueued
  <2>5. UserTypeOK'
    BY <1>1, <1>12, <2>4 DEF RefundQueued, UserTypeOK
  <2>6. RestTypeOK' /\ DOMAIN expected' = Orders /\ request' \in [Orders -> RequestStates]
    BY <1>1, <1>12 DEF RefundQueued, Approve, RequestStates, RestTypeOK, OrderTypeOK, sites, bounds
  <2> QED
    BY <2>1, <2>2, <2>3, <2>5, <2>6, OrderStepType
<1>13. ASSUME NEW a \in 0..Limit, RefundCurrent(o, a)
       PROVE  TypeInv'
  <2>1. order[o].state # "new"
    BY <1>13 DEF RefundCurrent, Refundable
  <2>2. Moves(o, "refunding")
    <3>1. a \in Nat
      BY BoundAssumption
    <3> QED
      BY <1>2, <1>4, <1>13, <3>1, RefundMoves DEF RefundCurrent
  <2>3. WalletTypeOK' /\ UserTypeOK'
    BY <1>1, <1>13 DEF RefundCurrent, WalletTypeOK, UserTypeOK, wallet
  <2>4. RestTypeOK' /\ DOMAIN expected' = Orders /\ request' \in [Orders -> RequestStates]
    BY <1>1, <1>13 DEF RefundCurrent, Approve, RequestStates, RestTypeOK, OrderTypeOK, sites, bounds
  <2> QED
    BY <2>1, <2>2, <2>3, <2>4, OrderStepType
<1> QED
  BY <1>6, <1>7, <1>8, <1>9, <1>10, <1>11, <1>12, <1>13 DEF MovesOrder

(* Money that belongs to no order, requests, periods, edits, sites, time.   *)
LEMMA OtherTypeStep ==
  ASSUME TypeInv, LeavesOrders
  PROVE  TypeInv'
<1>1. TypeOK /\ OrderTypeOK /\ WalletTypeOK /\ UserTypeOK /\ RestTypeOK
  BY TypeParts DEF TypeInv
<1>2. DOMAIN expected = Orders /\ request \in [Orders -> RequestStates]
  BY <1>1 DEF OrderTypeOK
<1>3. ASSUME NEW c \in Credits, AdjustBalance(c) \/ RedeemCode(c)
      PROVE  TypeInv'
  <2>1. <<"credit", c>> \in Events
    BY DEF Events
  <2> HIDE DEF Events
  <2>2. WalletTypeOK'
    BY <1>1, <1>3, <2>1 DEF AdjustBalance, RedeemCode, Post, WalletTypeOK
  <2>3. UserTypeOK' /\ RestTypeOK'
    BY <1>1, <1>3 DEF AdjustBalance, RedeemCode, UserTypeOK, RestTypeOK, user, sites, bounds
  <2>4. UNCHANGED <<order, expected, request>>
    BY <1>3 DEF AdjustBalance, RedeemCode
  <2> QED
    BY <1>2, <2>2, <2>3, <2>4, OtherStepType
<1>4. ASSUME NEW c \in Credits, RevokeCode(c)
      PROVE  TypeInv'
  <2>1. WalletTypeOK' /\ UserTypeOK' /\ RestTypeOK'
    BY <1>1, <1>4 DEF RevokeCode, WalletTypeOK, UserTypeOK, RestTypeOK, wallet, user, sites, bounds
  <2>2. UNCHANGED <<order, expected, request>>
    BY <1>4 DEF RevokeCode
  <2> QED
    BY <1>2, <2>1, <2>2, OtherStepType
<1>5. ASSUME NEW o \in Orders,
             \/ RequestRefund(o)
             \/ CloseRequest(o, "cancelled") \/ CloseRequest(o, "rejected")
      PROVE  TypeInv'
  <2>1. request' \in [Orders -> RequestStates]
    BY <1>2, <1>5 DEF RequestRefund, CloseRequest, RequestStates
  <2>2. WalletTypeOK' /\ UserTypeOK' /\ RestTypeOK'
    BY <1>1, <1>5 DEF RequestRefund, CloseRequest, WalletTypeOK, UserTypeOK, RestTypeOK,
                      wallet, user, sites, bounds
  <2>3. UNCHANGED <<order, expected>>
    BY <1>5 DEF RequestRefund, CloseRequest
  <2> QED
    BY <1>2, <2>1, <2>2, <2>3, OtherStepType
<1>6. CASE StopRunOut \/ PeriodEnds \/ ResetByOwner
  <2>1. WalletTypeOK'
    BY <1>1, <1>6 DEF StopRunOut, PeriodEnds, ResetByOwner, WalletTypeOK, wallet
  <2>2. UserTypeOK'
    BY <1>1, <1>6 DEF StopRunOut, PeriodEnds, ResetByOwner, UserTypeOK
  <2>3. RestTypeOK'
    BY <1>1, <1>6, BoundAssumption DEF StopRunOut, PeriodEnds, ResetByOwner, MayEdit, Intervene,
                                       RestTypeOK, sites, bounds
  <2>4. UNCHANGED <<order, expected, request>>
    BY <1>6 DEF StopRunOut, PeriodEnds, ResetByOwner
  <2> QED
    BY <1>2, <2>1, <2>2, <2>3, <2>4, OtherStepType
<1>7. CASE RestorePreviousPlan
  <2>1. WalletTypeOK' /\ RestTypeOK'
    BY <1>1, <1>7 DEF RestorePreviousPlan, WalletTypeOK, RestTypeOK, wallet, sites, bounds
  <2>2. queue[Len(queue)] \in PlanSlot /\ queue' \in Seq(PlanSlot)
    <3>1. queue \in Seq(PlanSlot) /\ queue # <<>>
      BY <1>1, <1>7 DEF RestorePreviousPlan, RunOut, UserTypeOK
    <3>2. Len(queue) \in Nat /\ Len(queue) # 0 /\ \A j \in 1..Len(queue) : queue[j] \in PlanSlot
      BY <3>1, LenProperties, ElementOfSeq, EmptySeq
    <3>3. SubSeq(queue, 1, Len(queue) - 1) \in Seq(PlanSlot)
      BY <3>1, <3>2, SubSeqProperties
    <3> QED
      BY <3>2, <3>3, <1>7 DEF RestorePreviousPlan
  <2>3. ent' \in Entitlement /\ expires' \in Nat /\ period' \in Nat
    BY <1>1, <1>7, <2>2, SlotType DEF RestorePreviousPlan
  <2>4. UserTypeOK'
    BY <1>1, <1>7, <2>2, <2>3 DEF RestorePreviousPlan, UserTypeOK
  <2>5. UNCHANGED <<order, expected, request>>
    BY <1>7 DEF RestorePreviousPlan
  <2> QED
    BY <1>2, <2>1, <2>4, <2>5, OtherStepType
<1>8. CASE StartPeriod
  <2>1. WalletTypeOK' /\ RestTypeOK'
    BY <1>1, <1>8 DEF StartPeriod, WalletTypeOK, RestTypeOK, wallet, sites
  <2>2. period' \in Nat
    BY <1>1, <1>8 DEF StartPeriod, RestTypeOK
  <2>3. UserTypeOK'
    BY <1>1, <1>8, <2>2 DEF StartPeriod, UserTypeOK
  <2>4. UNCHANGED <<order, expected, request>>
    BY <1>8 DEF StartPeriod
  <2> QED
    BY <1>2, <2>1, <2>3, <2>4, OtherStepType
<1>9. ASSUME NEW p \in Plans, AssignPlan(p)
      PROVE  TypeInv'
  <2>1. WalletTypeOK'
    BY <1>1, <1>9 DEF AssignPlan, WalletTypeOK, wallet
  <2>2. RestTypeOK'
    BY <1>1, <1>9, BoundAssumption DEF AssignPlan, MayEdit, Intervene, RestTypeOK, sites
  <2>3. ent' \in Entitlement /\ expires' \in Nat
    BY <1>1, <1>9, SlotType DEF AssignPlan, OrderIds, UserTypeOK
  <2>4. UserTypeOK'
    BY <1>1, <1>9, <2>3 DEF AssignPlan, UserTypeOK
  <2>5. UNCHANGED <<order, expected, request>>
    BY <1>9 DEF AssignPlan
  <2> QED
    BY <1>2, <2>1, <2>2, <2>4, <2>5, OtherStepType
<1>10. CASE ExtendByOwner(1)
  <2>1. WalletTypeOK'
    BY <1>1, <1>10 DEF ExtendByOwner, WalletTypeOK, wallet
  <2>2. RestTypeOK'
    BY <1>1, <1>10, BoundAssumption DEF ExtendByOwner, MayEdit, Intervene, RestTypeOK, sites
  <2>3. expires' \in Nat
    BY <1>1, <1>10, SlotType DEF ExtendByOwner
  <2>4. UserTypeOK'
    BY <1>1, <1>10, <2>3 DEF ExtendByOwner, UserTypeOK
  <2>5. UNCHANGED <<order, expected, request>>
    BY <1>10 DEF ExtendByOwner
  <2> QED
    BY <1>2, <2>1, <2>2, <2>4, <2>5, OtherStepType
<1>11. ASSUME NEW on \in BOOLEAN, SetEnabled(on)
       PROVE  TypeInv'
  <2>1. WalletTypeOK'
    BY <1>1, <1>11 DEF SetEnabled, WalletTypeOK, wallet
  <2>2. RestTypeOK'
    BY <1>1, <1>11, BoundAssumption DEF SetEnabled, Intervene, RestTypeOK, sites
  <2>3. UserTypeOK'
    BY <1>1, <1>11, Zenon DEF SetEnabled, UserTypeOK
  <2>4. UNCHANGED <<order, expected, request>>
    BY <1>11 DEF SetEnabled
  <2> QED
    BY <1>2, <2>1, <2>2, <2>3, <2>4, OtherStepType
<1>12. ASSUME NEW s \in Sites, SiteStep(s)
       PROVE  TypeInv'
  <2>1. PICK n \in Nat, T \in SUBSET Nat : /\ sent' = [sent EXCEPT ![s] = n]
                                          /\ issued' = [issued EXCEPT ![s] = T]
    <3>1. period \in Nat /\ sent[s] \in Nat /\ issued[s] \in SUBSET Nat /\ sent \in [Sites -> Nat]
      BY <1>1 DEF UserTypeOK, RestTypeOK
    <3>2. CASE Acknowledge(s)
      <4>1. sent' = [sent EXCEPT ![s] = sent[s]] /\ issued' = [issued EXCEPT ![s] = {sent[s]} \ {0}]
        BY <3>1, <3>2 DEF Acknowledge
      <4> QED
        BY <3>1, <4>1
    <3>3. CASE SendSnapshot(s, TRUE)
      <4>1. /\ sent' = [sent EXCEPT ![s] = period]
            /\ issued' = [issued EXCEPT ![s] = issued[s] \union {period}]
        BY <3>3 DEF SendSnapshot
      <4> QED
        BY <3>1, <4>1
    <3>4. CASE SendSnapshot(s, FALSE)
      <4>1. /\ sent' = [sent EXCEPT ![s] = 0]
            /\ issued' = [issued EXCEPT ![s] = issued[s] \union {}]
        BY <3>4 DEF SendSnapshot
      <4> QED
        BY <3>1, <4>1
    <3> QED
      BY <1>12, <3>2, <3>3, <3>4 DEF SiteStep
  <2>2. UNCHANGED <<order, expected, request, wallet, revoked, user, now, bounds>>
    BY <1>12 DEF SiteStep, Acknowledge, SendSnapshot
  <2>3. WalletTypeOK' /\ UserTypeOK'
    BY <1>1, <2>2 DEF WalletTypeOK, UserTypeOK, wallet, user
  <2>4. RestTypeOK'
    BY <1>1, <2>1, <2>2 DEF RestTypeOK, bounds
  <2> QED
    BY <1>2, <2>2, <2>3, <2>4, OtherStepType
<1>13. CASE Tick
  <2>1. WalletTypeOK' /\ UserTypeOK'
    BY <1>1, <1>13 DEF Tick, WalletTypeOK, UserTypeOK, wallet, user
  <2>2. RestTypeOK'
    BY <1>1, <1>13 DEF Tick, RestTypeOK, sites, bounds
  <2>3. UNCHANGED <<order, expected, request>>
    BY <1>13 DEF Tick
  <2> QED
    BY <1>2, <2>1, <2>2, <2>3, OtherStepType
<1> QED
  BY <1>3, <1>4, <1>5, <1>6, <1>7, <1>8, <1>9, <1>10, <1>11, <1>12, <1>13 DEF LeavesOrders

(* A new order has its plan.                                                *)
LEMMA CreateTypeStep ==
  ASSUME TypeInv, NEW o \in Orders, NEW p \in Plans, CreateOrder(o, p)
  PROVE  TypeInv'
<1>1. TypeOK /\ OrderTypeOK /\ WalletTypeOK /\ UserTypeOK /\ RestTypeOK
  BY TypeParts DEF TypeInv
<1>2. /\ order' \in [Orders -> Order]
      /\ order'[o].plan = p
      /\ \A q \in Orders \ {o} : order'[q] = order[q]
  BY <1>1, CreateRow DEF TypeOK
<1>3. OrderTypeOK' /\ WalletTypeOK'
  BY <1>1, <1>2 DEF CreateOrder, OrderTypeOK, WalletTypeOK, wallet
<1>4. UserTypeOK' /\ RestTypeOK'
  BY <1>1 DEF CreateOrder, UserTypeOK, RestTypeOK, user, sites, bounds
<1>5. PlanKnown'
  BY <1>2 DEF TypeInv, PlanKnown
<1>6. TypeOK'
  BY <1>3, <1>4 DEF TypeOK, OrderTypeOK, WalletTypeOK, UserTypeOK, RestTypeOK
<1> QED
  BY <1>5, <1>6 DEF TypeInv

LEMMA StepShape ==
  ASSUME Next
  PROVE  \/ \E o \in Orders, p \in Plans : CreateOrder(o, p)
         \/ \E o \in Orders : MovesOrder(o)
         \/ LeavesOrders
  BY Zenon DEF Next, Member, Owner, Process, AdvanceQuotaPeriods, MovesOrder, LeavesOrders

LEMMA TypeInit == Init => TypeInv
<1> SUFFICES ASSUME Init PROVE TypeInv
  OBVIOUS
<1>1. Blank \in Order /\ Blank.state = "new" /\ NoEntitlement \in Entitlement
  BY DEF Blank, Order, OrderStates, PlanIds, NoEntitlement, Entitlement, OrderIds
<1>2. OrderTypeOK /\ PlanKnown
  BY <1>1 DEF Init, OrderTypeOK, PlanKnown, RequestStates
<1>3. WalletTypeOK /\ RestTypeOK
  BY BoundAssumption DEF Init, WalletTypeOK, RestTypeOK
<1>4. UserTypeOK
  BY <1>1, EmptySeq DEF Init, UserTypeOK
<1> QED
  BY <1>2, <1>3, <1>4, TypeParts DEF TypeInv

LEMMA TypeStep == TypeInv /\ [Next]_vars => TypeInv'
<1> SUFFICES ASSUME TypeInv, [Next]_vars PROVE TypeInv'
  OBVIOUS
<1>1. CASE Next
  BY <1>1, StepShape, CreateTypeStep, OrderTypeStep, OtherTypeStep
<1>2. CASE UNCHANGED vars
  BY <1>2 DEF vars, wallet, user, sites, bounds, TypeInv, TypeOK, PlanKnown
<1> QED
  BY <1>1, <1>2

(* Every row, the wallet and the member's document keep their shape, and    *)
(* the wallet stays within what postMoney allows, whatever interleaves.     *)
THEOREM TypeCorrect == Spec => []TypeOK
<1>1. TypeInv => TypeOK
  BY DEF TypeInv
<1> QED
  BY <1>1, TypeInit, TypeStep, PTL DEF Spec
-----------------------------------------------------------------------------
(* One order at a time.                                                     *)

(* How an order moves: the state it leaves, the state it enters.            *)
LEMMA HowItMoves ==
  ASSUME TypeInv, NEW o \in Orders, MovesOrder(o)
  PROVE  \E st \in OrderStates :
           /\ Moves(o, st)
           /\ \/ /\ order[o].state \in {"pending", "provisioning", "refunding"}
                 /\ st # "refunding"
                 /\ st = "provisioning" => enabled
              \/ /\ order[o].state = "completed"
                 /\ Active \ {o} = {}
                 /\ st \in {"refunding", "refunded"}
           /\ enabled' = enabled
<1>1. order \in [Orders -> Order] /\ now \in Nat
  BY DEF TypeInv, TypeOK
<1>2. {"provisioning", "cancelled", "expired", "failed", "completed", "refunding", "refunded"} \subseteq OrderStates
  BY DEF OrderStates
<1>3. CASE Confirm(o)
  BY <1>1, <1>2, <1>3, ConfirmMoves DEF Confirm
<1>4. CASE CancelPending(o)
  BY <1>1, <1>2, <1>4, BecomeMoves DEF CancelPending, user
<1>5. CASE ExpireOrder(o)
  BY <1>1, <1>2, <1>5, BecomeMoves DEF ExpireOrder, user
<1>6. CASE CancelProvisioning(o)
  BY <1>1, <1>2, <1>6, BecomeMoves DEF CancelProvisioning, GiveUp
<1>7. CASE FailProvisioning(o)
  BY <1>1, <1>2, <1>7, BecomeMoves DEF FailProvisioning, GiveUp
<1>8. CASE FulfilPurchase(o)
  BY <1>1, <1>2, <1>8, BecomeMoves DEF FulfilPurchase
<1>9. CASE FulfilRenewal(o)
  BY <1>1, <1>2, <1>9, BecomeMoves DEF FulfilRenewal
<1>10. CASE FulfilRefund(o)
  BY <1>1, <1>2, <1>10, BecomeMoves DEF FulfilRefund
<1>11. CASE RefundQueued(o)
  <2>1. PriceOf(o) \in Nat
    BY <1>11, PriceType DEF RefundQueued, Refundable
  <2> QED
    BY <1>1, <1>2, <1>11, <2>1, RefundMoves DEF RefundQueued, Refundable
<1>12. ASSUME NEW a \in 0..Limit, RefundCurrent(o, a)
       PROVE  Moves(o, "refunding") /\ order[o].state = "completed" /\ Active \ {o} = {} /\ enabled' = enabled
  <2>1. a \in Nat
    BY BoundAssumption
  <2> QED
    BY <1>1, <1>2, <1>12, <2>1, RefundMoves DEF RefundCurrent, Refundable
<1> QED
  BY <1>2, <1>3, <1>4, <1>5, <1>6, <1>7, <1>8, <1>9, <1>10, <1>11, <1>12 DEF MovesOrder

(* Steps that leave the orders leave their table.                           *)
LEMMA OrdersLeft ==
  ASSUME LeavesOrders
  PROVE  /\ order' = order
         /\ Active # {} => enabled' = enabled
<1>1. CASE \E c \in Credits : AdjustBalance(c) \/ RedeemCode(c) \/ RevokeCode(c)
  BY <1>1, Zenon DEF AdjustBalance, RedeemCode, RevokeCode, user
<1>2. CASE \E o \in Orders : RequestRefund(o)
  BY <1>2 DEF RequestRefund, user
<1>3. CASE \E o \in Orders : CloseRequest(o, "cancelled") \/ CloseRequest(o, "rejected")
  BY <1>3 DEF CloseRequest, user
<1>4. CASE StopRunOut \/ RestorePreviousPlan \/ PeriodEnds \/ StartPeriod
  BY <1>4 DEF StopRunOut, RestorePreviousPlan, PeriodEnds, StartPeriod
<1>5. CASE (\E p \in Plans : AssignPlan(p)) \/ ExtendByOwner(1) \/ ResetByOwner
  BY <1>5 DEF AssignPlan, ExtendByOwner, ResetByOwner
<1>6. CASE \E on \in BOOLEAN : SetEnabled(on)
  BY <1>6 DEF SetEnabled
<1>7. CASE \E s \in Sites : SiteStep(s)
  BY <1>7 DEF SiteStep, Acknowledge, SendSnapshot, user
<1>8. CASE Tick
  BY <1>8 DEF Tick, user
<1> QED
  BY <1>1, <1>2, <1>3, <1>4, <1>5, <1>6, <1>7, <1>8 DEF LeavesOrders

Served == OneActiveOrder /\ EnabledWhileProvisioning

LEMMA ServedStep == TypeInv /\ Served /\ [Next]_vars => Served'
<1> SUFFICES ASSUME TypeInv, Served, [Next]_vars PROVE Served'
  OBVIOUS
<1> USE DEF Served, OneActiveOrder, EnabledWhileProvisioning
<1>1. ASSUME NEW o \in Orders, NEW p \in Plans, CreateOrder(o, p)
      PROVE  Served'
  <2>1. order'[o].state = "pending" /\ \A q \in Orders \ {o} : order'[q] = order[q]
    BY <1>1, CreateRow DEF TypeInv, TypeOK
  <2>2. Active = {} /\ enabled' = enabled
    BY <1>1 DEF CreateOrder, user
  <2> QED
    BY <2>1, <2>2 DEF Active
<1>2. ASSUME NEW o \in Orders, MovesOrder(o)
      PROVE  Served'
  <2>1. PICK st \in OrderStates :
           /\ Moves(o, st)
           /\ \/ /\ order[o].state \in {"pending", "provisioning", "refunding"}
                 /\ st # "refunding"
                 /\ st = "provisioning" => enabled
              \/ /\ order[o].state = "completed"
                 /\ Active \ {o} = {}
                 /\ st \in {"refunding", "refunded"}
           /\ enabled' = enabled
    BY <1>2, HowItMoves
  <2>2. order'[o].state = st /\ \A q \in Orders \ {o} : order'[q] = order[q]
    BY <2>1 DEF Moves
  <2>3. OneActiveOrder'
    BY <2>1, <2>2 DEF Active
  <2>4. EnabledWhileProvisioning'
    BY <2>1, <2>2
  <2> QED
    BY <2>3, <2>4
<1>3. CASE LeavesOrders
  BY <1>3, OrdersLeft DEF Active
<1>4. CASE UNCHANGED vars
  BY <1>4 DEF vars, user, Active
<1> QED
  BY <1>1, <1>2, <1>3, <1>4, StepShape

LEMMA ServedInit == Init => Served
  BY DEF Init, Blank, Served, OneActiveOrder, EnabledWhileProvisioning, Active

(* However the handlers and the worker interleave, a member has one order   *)
(* between creation and outcome.                                            *)
THEOREM OneOrderAtATime == Spec => []OneActiveOrder
<1>1. Served => OneActiveOrder
  BY DEF Served
<1> QED
  BY <1>1, TypeInit, TypeStep, ServedInit, ServedStep, PTL DEF Spec

(* The branch of fulfilOrder for a disabled member is never taken.          *)
THEOREM NoDisabledProvisioning == Spec => []EnabledWhileProvisioning
<1>1. Served => EnabledWhileProvisioning
  BY DEF Served
<1> QED
  BY <1>1, TypeInit, TypeStep, ServedInit, ServedStep, PTL DEF Spec
-----------------------------------------------------------------------------
(* Stopped while switching.                                                 *)

(* Steps that leave the orders start no service while one is switched.      *)
LEMMA ResetLeft ==
  ASSUME LeavesOrders
  PROVE  pendingReset' = pendingReset \/ pendingReset' = TRUE \/ Switching = {}
<1>1. CASE \E c \in Credits : AdjustBalance(c) \/ RedeemCode(c) \/ RevokeCode(c)
  BY <1>1, Zenon DEF AdjustBalance, RedeemCode, RevokeCode, user
<1>2. CASE \E o \in Orders : RequestRefund(o)
  BY <1>2 DEF RequestRefund, user
<1>3. CASE \E o \in Orders : CloseRequest(o, "cancelled") \/ CloseRequest(o, "rejected")
  BY <1>3 DEF CloseRequest, user
<1>4. CASE StopRunOut \/ RestorePreviousPlan \/ PeriodEnds \/ StartPeriod
  BY <1>4 DEF StopRunOut, RestorePreviousPlan, PeriodEnds, StartPeriod
<1>5. CASE (\E p \in Plans : AssignPlan(p)) \/ ExtendByOwner(1) \/ ResetByOwner
  BY <1>5 DEF AssignPlan, ExtendByOwner, ResetByOwner
<1>6. CASE \E on \in BOOLEAN : SetEnabled(on)
  BY <1>6 DEF SetEnabled
<1>7. CASE \E s \in Sites : SiteStep(s)
  BY <1>7 DEF SiteStep, Acknowledge, SendSnapshot, user
<1>8. CASE Tick
  BY <1>8 DEF Tick, user
<1> QED
  BY <1>1, <1>2, <1>3, <1>4, <1>5, <1>6, <1>7, <1>8 DEF LeavesOrders

LEMMA StoppedStep ==
  TypeInv /\ Served /\ StoppedWhileSwitching /\ [Next]_vars => StoppedWhileSwitching'
<1> SUFFICES ASSUME TypeInv, Served, StoppedWhileSwitching, [Next]_vars
             PROVE  StoppedWhileSwitching'
  OBVIOUS
<1>1. ASSUME NEW o \in Orders, NEW p \in Plans, CreateOrder(o, p)
      PROVE  StoppedWhileSwitching'
  <2>1. order'[o].state = "pending" /\ \A q \in Orders \ {o} : order'[q] = order[q]
    BY <1>1, CreateRow DEF TypeInv, TypeOK
  <2>2. pendingReset' = pendingReset
    BY <1>1 DEF CreateOrder, user
  <2> QED
    BY <2>1, <2>2 DEF StoppedWhileSwitching, Switching
<1>2. ASSUME NEW o \in Orders, MovesOrder(o)
      PROVE  StoppedWhileSwitching'
  <2>1. \A q \in Orders \ {o} : order'[q] = order[q] /\ order'[o].action = order[o].action
    BY <1>2, HowItMoves DEF Moves
  <2>2. \A q \in Orders \ {o} : order[o].state \in {"pending", "provisioning", "refunding"}
                                 => order[q].state \notin {"pending", "provisioning", "refunding"}
    BY DEF Served, OneActiveOrder, Active
  <2>3. order \in [Orders -> Order] /\ now \in Nat
    BY DEF TypeInv, TypeOK
  <2>4. {"cancelled", "expired", "failed", "completed", "refunded"} \subseteq OrderStates
    BY DEF OrderStates
  <2>5. CASE Confirm(o)
    BY <2>1, <2>2, <2>3, <2>5, ConfirmMoves DEF Confirm, Moves, StoppedWhileSwitching, Switching
  <2>6. CASE CancelPending(o) \/ ExpireOrder(o)
    <3>1. order'[o].state \in {"cancelled", "expired"}
      BY <2>3, <2>4, <2>6, BecomeMoves DEF CancelPending, ExpireOrder, Moves
    <3>2. pendingReset' = pendingReset
      BY <2>6 DEF CancelPending, ExpireOrder, user
    <3> QED
      BY <2>1, <3>1, <3>2 DEF StoppedWhileSwitching, Switching
  <2>7. CASE \/ CancelProvisioning(o) \/ FailProvisioning(o)
             \/ FulfilPurchase(o) \/ FulfilRenewal(o) \/ FulfilRefund(o)
    <3>1. order[o].state \in {"provisioning", "refunding"}
      BY <2>7 DEF CancelProvisioning, FailProvisioning, GiveUp, FulfilPurchase, FulfilRenewal, FulfilRefund
    <3>2. PICK st \in {"cancelled", "failed", "completed", "refunded"} : Become(o, st)
      BY <2>7 DEF CancelProvisioning, FailProvisioning, GiveUp, FulfilPurchase, FulfilRenewal, FulfilRefund
    <3>3. order'[o].state = st
      BY <2>3, <2>4, <3>2, BecomeMoves DEF Moves
    <3> QED
      BY <2>1, <2>2, <3>1, <3>3 DEF StoppedWhileSwitching, Switching
  <2>8. CASE RefundQueued(o)
    <3>1. PriceOf(o) \in Nat
      BY <2>8, PriceType DEF RefundQueued, Refundable
    <3>2. order'[o].state = "refunded" /\ pendingReset' = pendingReset
      BY <2>3, <2>4, <2>8, <3>1, RefundMoves DEF RefundQueued, Moves
    <3> QED
      BY <2>1, <3>2 DEF StoppedWhileSwitching, Switching
  <2>9. CASE \E a \in 0..Limit : RefundCurrent(o, a)
    <3>1. pendingReset' = TRUE
      BY <2>9 DEF RefundCurrent
    <3> QED
      BY <3>1 DEF StoppedWhileSwitching
  <2> QED
    BY <1>2, <2>5, <2>6, <2>7, <2>8, <2>9 DEF MovesOrder
<1>3. CASE LeavesOrders
  <2>1. Switching' = Switching /\ order' = order
    BY <1>3, OrdersLeft DEF Switching
  <2>2. CASE pendingReset' = pendingReset
    BY <2>1, <2>2, Zenon DEF StoppedWhileSwitching
  <2>3. CASE pendingReset' = TRUE
    BY <2>3 DEF StoppedWhileSwitching
  <2>4. CASE Switching = {}
    BY <2>1, <2>4 DEF StoppedWhileSwitching
  <2> QED
    BY <1>3, <2>2, <2>3, <2>4, ResetLeft
<1>4. CASE UNCHANGED vars
  BY <1>4 DEF vars, user, StoppedWhileSwitching, Switching
<1> QED
  BY <1>1, <1>2, <1>3, <1>4, StepShape

(* From confirmation to the switch, and from approval to the refund, the    *)
(* member stays stopped.                                                    *)
THEOREM MemberStopped == Spec => []StoppedWhileSwitching
<1>1. Init => StoppedWhileSwitching
  BY DEF Init, Blank, StoppedWhileSwitching, Switching
<1> QED
  BY <1>1, TypeInit, TypeStep, ServedInit, ServedStep, StoppedStep, PTL DEF Spec
-----------------------------------------------------------------------------
(* Refund requests.                                                         *)

LEMMA RequestStep == TypeInv /\ RequestFollowsOrder /\ [Next]_vars => RequestFollowsOrder'
<1> SUFFICES ASSUME TypeInv, RequestFollowsOrder, [Next]_vars PROVE RequestFollowsOrder'
  OBVIOUS
<1>0. request \in [Orders -> RequestStates]
  BY DEF TypeInv, TypeOK
<1>1. ASSUME NEW o \in Orders, NEW p \in Plans, CreateOrder(o, p)
      PROVE  RequestFollowsOrder'
  <2>1. order'[o].state = "pending" /\ \A q \in Orders \ {o} : order'[q] = order[q]
    BY <1>1, CreateRow DEF TypeInv, TypeOK
  <2>2. order[o].state = "new" /\ request' = request
    BY <1>1 DEF CreateOrder
  <2> QED
    BY <2>1, <2>2 DEF RequestFollowsOrder
<1>2. ASSUME NEW o \in Orders, MovesOrder(o)
      PROVE  RequestFollowsOrder'
  <2>1. order[o].state # "new" /\ \E st : Moves(o, st)
    BY <1>2, HowItMoves
  <2>2. \A q \in Orders \ {o} : order'[q] = order[q]
    BY <2>1 DEF Moves
  <2>3. CASE RefundQueued(o) \/ \E a \in 0..Limit : RefundCurrent(o, a)
    <3>1. Approve(o)
      BY <2>3 DEF RefundQueued, RefundCurrent
    <3>2. order'[o].state \in {"refunding", "refunded"}
      BY <1>2, <2>3, HowItMoves DEF RefundQueued, RefundCurrent, Refundable, Moves
    <3>3. request'[o] # "requested" /\ \A q \in Orders \ {o} : request'[q] = request[q]
      BY <1>0, <3>1 DEF Approve
    <3> QED
      BY <2>2, <3>2, <3>3 DEF RequestFollowsOrder
  <2>4. CASE FulfilRefund(o)
    <3>1. request' = request /\ order[o].state = "refunding" /\ order'[o].state = "refunded"
      <4>1. order \in [Orders -> Order] /\ "refunded" \in OrderStates
        BY DEF TypeInv, TypeOK, OrderStates
      <4> QED
        BY <2>4, <4>1, BecomeMoves DEF FulfilRefund, Moves
    <3> QED
      BY <2>2, <3>1 DEF RequestFollowsOrder
  <2>5. CASE \/ Confirm(o) \/ CancelPending(o) \/ CancelProvisioning(o) \/ ExpireOrder(o)
             \/ FailProvisioning(o) \/ FulfilPurchase(o) \/ FulfilRenewal(o)
    <3>1. request' = request /\ order[o].state \in {"pending", "provisioning"}
      BY <2>5 DEF Confirm, CancelPending, CancelProvisioning, ExpireOrder, FailProvisioning,
                  GiveUp, FulfilPurchase, FulfilRenewal
    <3> QED
      BY <2>2, <3>1 DEF RequestFollowsOrder
  <2> QED
    BY <1>2, <2>3, <2>4, <2>5 DEF MovesOrder
<1>3. CASE LeavesOrders
  <2>1. order' = order
    BY <1>3, OrdersLeft
  <2>2. \/ request' = request
        \/ \E o \in Orders : /\ order[o].state = "completed"
                             /\ \E v \in {"requested", "cancelled", "rejected"} :
                                  request' = [request EXCEPT ![o] = v]
    <3>1. CASE \E c \in Credits : AdjustBalance(c) \/ RedeemCode(c) \/ RevokeCode(c)
      BY <3>1, Zenon DEF AdjustBalance, RedeemCode, RevokeCode
    <3>2. CASE \E o \in Orders : RequestRefund(o) \/ CloseRequest(o, "cancelled") \/ CloseRequest(o, "rejected")
      BY <3>2 DEF RequestRefund, CloseRequest
    <3>3. CASE StopRunOut \/ RestorePreviousPlan \/ PeriodEnds \/ StartPeriod
      BY <3>3 DEF StopRunOut, RestorePreviousPlan, PeriodEnds, StartPeriod
    <3>4. CASE (\E p \in Plans : AssignPlan(p)) \/ ExtendByOwner(1) \/ ResetByOwner
      BY <3>4 DEF AssignPlan, ExtendByOwner, ResetByOwner
    <3>5. CASE \E on \in BOOLEAN : SetEnabled(on)
      BY <3>5 DEF SetEnabled
    <3>6. CASE \E s \in Sites : SiteStep(s)
      BY <3>6 DEF SiteStep, Acknowledge, SendSnapshot
    <3>7. CASE Tick
      BY <3>7 DEF Tick
    <3> QED
      BY <1>3, <3>1, <3>2, <3>3, <3>4, <3>5, <3>6, <3>7 DEF LeavesOrders
  <2> QED
    BY <1>0, <2>1, <2>2 DEF RequestFollowsOrder
<1>4. CASE UNCHANGED vars
  BY <1>4 DEF vars, RequestFollowsOrder
<1> QED
  BY <1>1, <1>2, <1>3, <1>4, StepShape

(* A refund request is open only while its order can still be refunded, and *)
(* approved only with its refund.                                           *)
THEOREM RequestsAreAnswered == Spec => []RequestFollowsOrder
<1>1. Init => RequestFollowsOrder
  BY DEF Init, RequestFollowsOrder
<1> QED
  BY <1>1, TypeInit, TypeStep, RequestStep, PTL DEF Spec
-----------------------------------------------------------------------------
(* Quota of one period.                                                     *)

(* Between two periods there is a moment at which no site holds quota.      *)
LEMMA PeriodKept ==
  ASSUME Next
  PROVE  \/ period' = period /\ UNCHANGED sites
         \/ Settled /\ UNCHANGED sites
         \/ period' = period /\ \E s \in Sites : SiteStep(s)
<1>1. CASE Member
  BY <1>1, Zenon DEF Member, CreateOrder, Confirm, CancelPending, CancelProvisioning, GiveUp, RequestRefund,
                     CloseRequest, RedeemCode, user
<1>2. CASE Owner
  BY <1>2, Zenon DEF Owner, AdjustBalance, RevokeCode, CloseRequest, RefundCurrent, RefundQueued,
                     AssignPlan, ExtendByOwner, ResetByOwner, SetEnabled, user
<1>3. CASE \E o \in Orders : Process(o)
  BY <1>3, Zenon DEF Process, ExpireOrder, FailProvisioning, GiveUp, FulfilPurchase, FulfilRenewal,
                     FulfilRefund, MayFulfil, user
<1>4. CASE AdvanceQuotaPeriods
  BY <1>4, Zenon DEF AdvanceQuotaPeriods, StopRunOut, RestorePreviousPlan, PeriodEnds, StartPeriod
<1>5. CASE \E s \in Sites : SiteStep(s)
  BY <1>5, Zenon DEF SiteStep, Acknowledge, SendSnapshot, user
<1>6. CASE Tick
  BY <1>6, Zenon DEF Tick, user
<1> QED
  BY <1>1, <1>2, <1>3, <1>4, <1>5, <1>6 DEF Next

LEMMA QuotaStep == TypeInv /\ QuotaOfOnePeriod /\ [Next]_vars => QuotaOfOnePeriod'
<1> SUFFICES ASSUME TypeInv, QuotaOfOnePeriod, [Next]_vars PROVE QuotaOfOnePeriod'
  OBVIOUS
<1> USE DEF QuotaOfOnePeriod
<1>0. sent \in [Sites -> Nat] /\ issued \in [Sites -> SUBSET Nat]
  BY DEF TypeInv, TypeOK
<1>1. CASE period' = period /\ UNCHANGED sites
  BY <1>1 DEF sites
<1>2. CASE Settled /\ UNCHANGED sites
  BY <1>2 DEF sites, Settled
<1>3. ASSUME period' = period, NEW s \in Sites, SiteStep(s)
      PROVE  QuotaOfOnePeriod'
  <2>1. CASE Acknowledge(s)
    BY <1>0, <1>3, <2>1 DEF Acknowledge
  <2>2. CASE SendSnapshot(s, TRUE)
    <3>1. /\ sent' = [sent EXCEPT ![s] = period]
          /\ issued' = [issued EXCEPT ![s] = issued[s] \union {period}]
      BY <2>2 DEF SendSnapshot
    <3> QED
      BY <1>0, <1>3, <3>1
  <2>3. CASE SendSnapshot(s, FALSE)
    <3>1. /\ sent' = [sent EXCEPT ![s] = 0]
          /\ issued' = [issued EXCEPT ![s] = issued[s] \union {}]
      BY <2>3 DEF SendSnapshot
    <3> QED
      BY <1>0, <1>3, <3>1
  <2> QED
    BY <1>3, <2>1, <2>2, <2>3 DEF SiteStep
<1>4. CASE UNCHANGED vars
  BY <1>4 DEF vars, user, sites
<1> QED
  BY <1>1, <1>2, <1>3, <1>4, PeriodKept

(* No site ever holds quota of a period that is not the current one: no     *)
(* switch, restoration or reset overtakes a site's final report.            *)
THEOREM NoStaleQuota == Spec => []QuotaOfOnePeriod
<1>1. Init => QuotaOfOnePeriod
  BY DEF Init, QuotaOfOnePeriod
<1> QED
  BY <1>1, TypeInit, TypeStep, QuotaStep, PTL DEF Spec
-----------------------------------------------------------------------------
(* Money.                                                                   *)

(* What a posting does.                                                     *)
LEMMA PostMoves ==
  ASSUME TypeOK, NEW amount \in Nat, NEW event, NEW da \in Int, NEW dh \in Int,
         amount = 0 => da = 0 /\ dh = 0,
         PostUnlessFree(amount, event, da, dh)
  PROVE  /\ available' = available + da
         /\ held' = held + dh
         /\ posted' = posted \union (IF amount > 0 THEN {event} ELSE {})
         /\ available + held <= Limit => available' + held' <= Limit
<1>1. available \in Int /\ held \in Int /\ Limit \in Int
  BY BoundAssumption DEF TypeOK
<1>2. CASE amount > 0
  BY <1>1, <1>2 DEF PostUnlessFree, Post
<1>3. CASE amount = 0
  BY <1>1, <1>3 DEF PostUnlessFree, wallet
<1> QED
  BY <1>2, <1>3

(* What the four movements of an order do to the wallet.                    *)
LEMMA MoneyMoves ==
  ASSUME TypeInv, NEW o \in Orders, order[o].state # "new"
  PROVE  /\ Hold(o) => held' = held + PriceOf(o) /\ available' = available - PriceOf(o)
         /\ Release(o) => held' = held - PriceOf(o) /\ available' = available + PriceOf(o)
         /\ Capture(o) => held' = held - PriceOf(o) /\ available' = available
         /\ \A a \in Nat : Return(o, a) => held' = held /\ available' = available + a
         /\ \A a \in Nat : Hold(o) \/ Release(o) \/ Capture(o) \/ Return(o, a)
              => (available + held <= Limit => available' + held' <= Limit)
<1>1. TypeOK /\ PriceOf(o) \in Nat /\ available \in Int /\ held \in Int
  BY PriceType, BoundAssumption DEF TypeInv, TypeOK
<1> DEFINE c == PriceOf(o)
<1>2. c \in Nat /\ -c \in Int /\ (c = 0 => -c = 0)
  BY <1>1
<1> HIDE DEF c
<1>3. Hold(o) => /\ held' = held + c /\ available' = available + (-c)
                 /\ (available + held <= Limit => available' + held' <= Limit)
  BY <1>1, <1>2, PostMoves DEF Hold, c
<1>4. Release(o) => /\ held' = held + (-c) /\ available' = available + c
                    /\ (available + held <= Limit => available' + held' <= Limit)
  BY <1>1, <1>2, PostMoves DEF Release, c
<1>5. Capture(o) => /\ held' = held + (-c) /\ available' = available + 0
                    /\ (available + held <= Limit => available' + held' <= Limit)
  BY <1>1, <1>2, PostMoves DEF Capture, c
<1>6. \A a \in Nat : Return(o, a) => /\ held' = held + 0 /\ available' = available + a
                                     /\ (available + held <= Limit => available' + held' <= Limit)
  BY <1>1, PostMoves DEF Return
<1> QED
  BY <1>1, <1>2, <1>3, <1>4, <1>5, <1>6 DEF c

(* The steps of an order as its money sees them.                            *)
IsDropped(o) == /\ order[o].state = "pending"
                /\ Moves(o, "cancelled") \/ Moves(o, "expired")
                /\ UNCHANGED wallet
IsFrozen(o) == order[o].state = "pending" /\ Moves(o, "provisioning") /\ Hold(o)
IsReleased(o) == /\ order[o].state = "provisioning"
                 /\ Moves(o, "cancelled") \/ Moves(o, "failed")
                 /\ Release(o)
IsCaptured(o) == order[o].state = "provisioning" /\ Moves(o, "completed") /\ Capture(o)
IsApproved(o) == /\ order[o].state = "completed" /\ Moves(o, "refunding")
                 /\ order'[o].refund \in 0..PriceOf(o)
                 /\ UNCHANGED wallet
IsPaidBack(o) == \/ /\ order[o].state = "completed" /\ Moves(o, "refunded")
                    /\ order'[o].refund = PriceOf(o)
                    /\ Return(o, PriceOf(o))
                 \/ /\ order[o].state = "refunding" /\ Moves(o, "refunded")
                    /\ order'[o].refund = order[o].refund
                    /\ Return(o, order[o].refund)

LEMMA HowMoneyMoves ==
  ASSUME TypeInv, NEW o \in Orders, MovesOrder(o)
  PROVE  \/ IsDropped(o) \/ IsFrozen(o) \/ IsReleased(o)
         \/ IsCaptured(o) \/ IsApproved(o) \/ IsPaidBack(o)
<1>1. order \in [Orders -> Order] /\ now \in Nat
  BY DEF TypeInv, TypeOK
<1>2. {"provisioning", "cancelled", "expired", "failed", "completed", "refunding", "refunded"} \subseteq OrderStates
  BY DEF OrderStates
<1>3. CASE Confirm(o)
  BY <1>1, <1>2, <1>3, ConfirmMoves DEF Confirm, IsFrozen
<1>4. CASE CancelPending(o)
  BY <1>1, <1>2, <1>4, BecomeMoves DEF CancelPending, IsDropped
<1>5. CASE ExpireOrder(o)
  BY <1>1, <1>2, <1>5, BecomeMoves DEF ExpireOrder, IsDropped
<1>6. CASE CancelProvisioning(o)
  BY <1>1, <1>2, <1>6, BecomeMoves DEF CancelProvisioning, GiveUp, IsReleased
<1>7. CASE FailProvisioning(o)
  BY <1>1, <1>2, <1>7, BecomeMoves DEF FailProvisioning, GiveUp, IsReleased
<1>8. CASE FulfilPurchase(o)
  BY <1>1, <1>2, <1>8, BecomeMoves DEF FulfilPurchase, IsCaptured
<1>9. CASE FulfilRenewal(o)
  BY <1>1, <1>2, <1>9, BecomeMoves DEF FulfilRenewal, IsCaptured
<1>10. CASE FulfilRefund(o)
  BY <1>1, <1>2, <1>10, BecomeMoves DEF FulfilRefund, IsPaidBack
<1>11. CASE RefundQueued(o)
  <2>1. PriceOf(o) \in Nat
    BY <1>11, PriceType DEF RefundQueued, Refundable
  <2> QED
    BY <1>1, <1>2, <1>11, <2>1, RefundMoves DEF RefundQueued, Refundable, IsPaidBack
<1>12. ASSUME NEW a \in 0..Limit, RefundCurrent(o, a)
       PROVE  IsApproved(o)
  <2>1. a \in Nat
    BY BoundAssumption
  <2> QED
    BY <1>1, <1>2, <1>12, <2>1, RefundMoves DEF RefundCurrent, Refundable, IsApproved
<1> QED
  BY <1>3, <1>4, <1>5, <1>6, <1>7, <1>8, <1>9, <1>10, <1>11, <1>12 DEF MovesOrder

(* Steps that leave the orders: only credits touch the wallet.              *)
IsCredit(c) == Post(<<"credit", c>>, Value[c], 0)

LEMMA MoneyLeft ==
  ASSUME LeavesOrders
  PROVE  UNCHANGED wallet \/ \E c \in Credits : IsCredit(c)
<1>1. ASSUME NEW c \in Credits, AdjustBalance(c) \/ RedeemCode(c)
      PROVE  IsCredit(c)
  BY <1>1 DEF AdjustBalance, RedeemCode, IsCredit
<1>2. CASE \E c \in Credits : RevokeCode(c)
  BY <1>2 DEF RevokeCode
<1>3. CASE \E o \in Orders : RequestRefund(o) \/ CloseRequest(o, "cancelled") \/ CloseRequest(o, "rejected")
  BY <1>3 DEF RequestRefund, CloseRequest
<1>4. CASE StopRunOut \/ RestorePreviousPlan \/ PeriodEnds \/ StartPeriod
  BY <1>4 DEF StopRunOut, RestorePreviousPlan, PeriodEnds, StartPeriod
<1>5. CASE (\E p \in Plans : AssignPlan(p)) \/ ExtendByOwner(1) \/ ResetByOwner
  BY <1>5 DEF AssignPlan, ExtendByOwner, ResetByOwner
<1>6. CASE \E on \in BOOLEAN : SetEnabled(on)
  BY <1>6 DEF SetEnabled
<1>7. CASE \E s \in Sites : SiteStep(s)
  BY <1>7 DEF SiteStep, Acknowledge, SendSnapshot
<1>8. CASE Tick
  BY <1>8 DEF Tick
<1> QED
  BY <1>1, <1>2, <1>3, <1>4, <1>5, <1>6, <1>7, <1>8 DEF LeavesOrders

(* An approved refund is at most the price; the wallet is within its limit. *)
RefundWithinPrice == \A o \in Orders : order[o].state = "refunding" => order[o].refund \in 0..PriceOf(o)
WithinTotal == available + held <= Limit
MoneyInv == HeldMatchesOrder /\ RefundWithinPrice /\ WithinTotal

LEMMA MoneyStep == TypeInv /\ Served /\ MoneyInv /\ [Next]_vars => MoneyInv'
<1> SUFFICES ASSUME TypeInv, Served, MoneyInv, [Next]_vars PROVE MoneyInv'
  OBVIOUS
<1>0. available \in Nat /\ held \in Nat /\ order \in [Orders -> Order]
  BY BoundAssumption DEF TypeInv, TypeOK
<1>1. ASSUME NEW o \in Orders, NEW p \in Plans, CreateOrder(o, p)
      PROVE  MoneyInv'
  <2>1. order'[o].state = "pending" /\ \A q \in Orders \ {o} : order'[q] = order[q]
    BY <1>1, CreateRow DEF TypeInv, TypeOK
  <2>2. order[o].state = "new" /\ available' = available /\ held' = held
    BY <1>1 DEF CreateOrder, wallet
  <2> QED
    BY <2>1, <2>2 DEF MoneyInv, HeldMatchesOrder, RefundWithinPrice, WithinTotal, PriceOf
<1>2. ASSUME NEW o \in Orders, MovesOrder(o)
      PROVE  MoneyInv'
  <2>1. order[o].state # "new" /\ \E st : Moves(o, st)
    BY <1>2, HowItMoves
  <2>2. /\ order'[o].plan = order[o].plan
        /\ \A q \in Orders \ {o} : order'[q] = order[q]
    BY <2>1 DEF Moves
  <2>3. \A q \in Orders : PriceOf(q)' = PriceOf(q)
    BY <2>2 DEF PriceOf
  <2>4. PriceOf(o) \in Nat /\ order[o].refund \in Nat
    BY <1>0, <2>1, PriceType DEF Order
  <2>5. \A q \in Orders \ {o} : order[o].state \in {"pending", "provisioning", "refunding"}
                                 => order[q].state \notin {"pending", "provisioning", "refunding"}
    BY DEF Served, OneActiveOrder, Active
  <2>6. CASE IsDropped(o)
    BY <2>2, <2>3, <2>6 DEF IsDropped, Moves, wallet, MoneyInv, HeldMatchesOrder, RefundWithinPrice, WithinTotal
  <2>7. CASE IsFrozen(o)
    <3>1. held = 0
      BY <2>5, <2>7 DEF IsFrozen, MoneyInv, HeldMatchesOrder
    <3>2. held' = PriceOf(o) /\ WithinTotal'
      BY <1>0, <2>1, <2>4, <2>7, <3>1, MoneyMoves DEF IsFrozen, MoneyInv, WithinTotal
    <3>3. order'[o].state = "provisioning"
      BY <2>7 DEF IsFrozen, Moves
    <3>4. HeldMatchesOrder'
      BY <2>2, <2>3, <2>5, <2>7, <3>2, <3>3 DEF IsFrozen, HeldMatchesOrder
    <3>5. RefundWithinPrice'
      BY <2>2, <2>3, <3>3 DEF MoneyInv, RefundWithinPrice
    <3> QED
      BY <3>2, <3>4, <3>5 DEF MoneyInv
  <2>8. CASE IsReleased(o) \/ IsCaptured(o)
    <3>1. held = PriceOf(o)
      BY <2>8 DEF IsReleased, IsCaptured, MoneyInv, HeldMatchesOrder
    <3>2. held' = 0 /\ WithinTotal'
      BY <1>0, <2>1, <2>4, <2>8, <3>1, MoneyMoves DEF IsReleased, IsCaptured, MoneyInv, WithinTotal
    <3>3. order'[o].state \in {"cancelled", "failed", "completed"}
      BY <2>8 DEF IsReleased, IsCaptured, Moves
    <3>4. HeldMatchesOrder'
      BY <2>2, <2>5, <2>8, <3>2, <3>3 DEF IsReleased, IsCaptured, HeldMatchesOrder
    <3>5. RefundWithinPrice'
      BY <2>2, <2>3, <3>3 DEF MoneyInv, RefundWithinPrice
    <3> QED
      BY <3>2, <3>4, <3>5 DEF MoneyInv
  <2>9. CASE IsApproved(o)
    BY <2>2, <2>3, <2>9 DEF IsApproved, Moves, wallet, MoneyInv, HeldMatchesOrder, RefundWithinPrice, WithinTotal
  <2>10. CASE IsPaidBack(o)
    <3>1. held' = held /\ WithinTotal'
      BY <1>0, <2>1, <2>4, <2>10, MoneyMoves DEF IsPaidBack, MoneyInv, WithinTotal
    <3>2. order'[o].state = "refunded" /\ order[o].state \in {"completed", "refunding"}
      BY <2>10 DEF IsPaidBack, Moves
    <3> QED
      BY <2>2, <2>3, <3>1, <3>2 DEF MoneyInv, HeldMatchesOrder, RefundWithinPrice
  <2> QED
    BY <1>2, <2>6, <2>7, <2>8, <2>9, <2>10, HowMoneyMoves
<1>3. CASE LeavesOrders
  <2>1. order' = order /\ held' = held /\ WithinTotal'
    <3>1. CASE UNCHANGED wallet
      BY <1>3, <3>1, OrdersLeft DEF wallet, MoneyInv, WithinTotal
    <3>2. ASSUME NEW c \in Credits, IsCredit(c)
          PROVE  order' = order /\ held' = held /\ WithinTotal'
      BY <1>0, <1>3, <3>2, OrdersLeft, ValueAssumption DEF IsCredit, Post, WithinTotal
    <3> QED
      BY <1>3, <3>1, <3>2, MoneyLeft
  <2> QED
    BY <2>1 DEF MoneyInv, HeldMatchesOrder, RefundWithinPrice, PriceOf
<1>4. CASE UNCHANGED vars
  BY <1>4 DEF vars, wallet, MoneyInv, HeldMatchesOrder, RefundWithinPrice, WithinTotal, PriceOf
<1> QED
  BY <1>1, <1>2, <1>3, <1>4, StepShape

LEMMA MoneyInit == Init => MoneyInv
  BY BoundAssumption DEF Init, Blank, MoneyInv, HeldMatchesOrder, RefundWithinPrice, WithinTotal

(* The frozen balance is at every moment the price of the order that is     *)
(* being provisioned, and nothing when none is.                             *)
THEOREM FrozenIsOwed == Spec => []HeldMatchesOrder
<1>1. MoneyInv => HeldMatchesOrder
  BY DEF MoneyInv
<1> QED
  BY <1>1, TypeInit, TypeStep, ServedInit, ServedStep, MoneyInit, MoneyStep, PTL DEF Spec
-----------------------------------------------------------------------------
(* The ledger.                                                              *)

LEMMA KeyPosted ==
  ASSUME NEW k \in {"hold", "release", "capture", "refund"}, NEW o \in Orders, NEW amount \in Nat,
         posted' = posted \union (IF amount > 0 THEN {<<k, o>>} ELSE {})
  PROVE  /\ KeysOf(o)' = KeysOf(o) \union (IF amount > 0 THEN {k} ELSE {})
         /\ \A q \in Orders \ {o} : KeysOf(q)' = KeysOf(q)
  BY DEF KeysOf

LEMMA KeysMove ==
  ASSUME TypeInv, NEW o \in Orders, order[o].state # "new"
  PROVE  /\ Hold(o) => /\ KeysOf(o)' = KeysOf(o) \union (IF PriceOf(o) > 0 THEN {"hold"} ELSE {})
                       /\ \A q \in Orders \ {o} : KeysOf(q)' = KeysOf(q)
         /\ Release(o) => /\ KeysOf(o)' = KeysOf(o) \union (IF PriceOf(o) > 0 THEN {"release"} ELSE {})
                          /\ \A q \in Orders \ {o} : KeysOf(q)' = KeysOf(q)
         /\ Capture(o) => /\ KeysOf(o)' = KeysOf(o) \union (IF PriceOf(o) > 0 THEN {"capture"} ELSE {})
                          /\ \A q \in Orders \ {o} : KeysOf(q)' = KeysOf(q)
         /\ \A a \in Nat : Return(o, a) =>
              /\ KeysOf(o)' = KeysOf(o) \union (IF a > 0 THEN {"refund"} ELSE {})
              /\ \A q \in Orders \ {o} : KeysOf(q)' = KeysOf(q)
<1>1. PriceOf(o) \in Nat
  BY PriceType
<1>2. ASSUME NEW k, NEW a \in Nat, NEW da, NEW dh, PostUnlessFree(a, <<k, o>>, da, dh)
      PROVE  posted' = posted \union (IF a > 0 THEN {<<k, o>>} ELSE {})
  <2>1. CASE a > 0
    BY <1>2, <2>1 DEF PostUnlessFree, Post
  <2>2. CASE ~(a > 0)
    BY <1>2, <2>2 DEF PostUnlessFree, wallet
  <2> QED
    BY <2>1, <2>2
<1>4. ASSUME Hold(o)
      PROVE  /\ KeysOf(o)' = KeysOf(o) \union (IF PriceOf(o) > 0 THEN {"hold"} ELSE {})
             /\ \A q \in Orders \ {o} : KeysOf(q)' = KeysOf(q)
  BY <1>1, <1>2, <1>4, KeyPosted DEF Hold
<1>5. ASSUME Release(o)
      PROVE  /\ KeysOf(o)' = KeysOf(o) \union (IF PriceOf(o) > 0 THEN {"release"} ELSE {})
             /\ \A q \in Orders \ {o} : KeysOf(q)' = KeysOf(q)
  BY <1>1, <1>2, <1>5, KeyPosted DEF Release
<1>6. ASSUME Capture(o)
      PROVE  /\ KeysOf(o)' = KeysOf(o) \union (IF PriceOf(o) > 0 THEN {"capture"} ELSE {})
             /\ \A q \in Orders \ {o} : KeysOf(q)' = KeysOf(q)
  BY <1>1, <1>2, <1>6, KeyPosted DEF Capture
<1>7. ASSUME NEW a \in Nat, Return(o, a)
      PROVE  /\ KeysOf(o)' = KeysOf(o) \union (IF a > 0 THEN {"refund"} ELSE {})
             /\ \A q \in Orders \ {o} : KeysOf(q)' = KeysOf(q)
  BY <1>2, <1>7, KeyPosted DEF Return
<1> QED
  BY <1>4, <1>5, <1>6, <1>7

LEMMA LedgerStep == TypeInv /\ LedgerMatchesOrder /\ [Next]_vars => LedgerMatchesOrder'
<1> SUFFICES ASSUME TypeInv, LedgerMatchesOrder, [Next]_vars PROVE LedgerMatchesOrder'
  OBVIOUS
<1>0. order \in [Orders -> Order]
  BY DEF TypeInv, TypeOK
<1>1. ASSUME NEW o \in Orders, NEW p \in Plans, CreateOrder(o, p)
      PROVE  LedgerMatchesOrder'
  <2>1. order'[o].state = "pending" /\ \A q \in Orders \ {o} : order'[q] = order[q]
    BY <1>1, CreateRow DEF TypeInv, TypeOK
  <2>2. order[o].state = "new" /\ \A q \in Orders : KeysOf(q)' = KeysOf(q)
    BY <1>1 DEF CreateOrder, wallet, KeysOf
  <2>3. \A q \in Orders \ {o} : LedgerOf(q)'
    BY <2>1, <2>2 DEF LedgerMatchesOrder, LedgerOf, PriceOf
  <2>4. LedgerOf(o)'
    BY <2>1, <2>2 DEF LedgerMatchesOrder, LedgerOf
  <2> QED
    BY <2>3, <2>4 DEF LedgerMatchesOrder
<1>2. ASSUME NEW o \in Orders, MovesOrder(o)
      PROVE  LedgerMatchesOrder'
  <2>1. order[o].state # "new" /\ \E st : Moves(o, st)
    BY <1>2, HowItMoves
  <2>2. /\ order'[o].plan = order[o].plan
        /\ \A q \in Orders \ {o} : order'[q] = order[q]
    BY <2>1 DEF Moves
  <2>3. \A q \in Orders : PriceOf(q)' = PriceOf(q)
    BY <2>2 DEF PriceOf
  <2>4. PriceOf(o) \in Nat /\ order[o].refund \in Nat
    BY <1>0, <2>1, PriceType DEF Order
  <2>5. \A q \in Orders \ {o} : KeysOf(q)' = KeysOf(q)
    <3>1. UNCHANGED wallet => \A q \in Orders : KeysOf(q)' = KeysOf(q)
      BY DEF wallet, KeysOf
    <3> QED
      BY <1>2, <2>1, <2>4, <3>1, HowMoneyMoves, KeysMove
         DEF IsDropped, IsFrozen, IsReleased, IsCaptured, IsApproved, IsPaidBack
  <2>6. \A q \in Orders \ {o} : LedgerOf(q)'
    BY <2>2, <2>3, <2>5 DEF LedgerMatchesOrder, LedgerOf
  <2>7. LedgerOf(o)
    BY DEF LedgerMatchesOrder
  <2>8. LedgerOf(o)'
    <3>1. CASE IsDropped(o)
      <4>1. KeysOf(o)' = KeysOf(o)
        BY <3>1 DEF IsDropped, wallet, KeysOf
      <4> QED
        BY <2>7, <3>1, <4>1 DEF IsDropped, Moves, LedgerOf
    <3>2. CASE IsFrozen(o)
      <4>1. KeysOf(o)' = KeysOf(o) \union (IF PriceOf(o) > 0 THEN {"hold"} ELSE {})
        BY <2>1, <3>2, KeysMove DEF IsFrozen
      <4> QED
        BY <2>3, <2>7, <3>2, <4>1 DEF IsFrozen, Moves, LedgerOf
    <3>3. CASE IsReleased(o)
      <4>1. KeysOf(o)' = KeysOf(o) \union (IF PriceOf(o) > 0 THEN {"release"} ELSE {})
        BY <2>1, <3>3, KeysMove DEF IsReleased
      <4>2. KeysOf(o) = (IF PriceOf(o) > 0 THEN {"hold"} ELSE {})
        BY <2>7, <3>3 DEF IsReleased, LedgerOf
      <4>3. KeysOf(o)' \in {{}, {"hold", "release"}}
        <5>1. CASE PriceOf(o) > 0
          BY <4>1, <4>2, <5>1
        <5>2. CASE ~(PriceOf(o) > 0)
          BY <4>1, <4>2, <5>2
        <5> QED
          BY <5>1, <5>2
      <4> QED
        BY <3>3, <4>3 DEF IsReleased, Moves, LedgerOf
    <3>4. CASE IsCaptured(o)
      <4>1. KeysOf(o)' = KeysOf(o) \union (IF PriceOf(o) > 0 THEN {"capture"} ELSE {})
        BY <2>1, <3>4, KeysMove DEF IsCaptured
      <4>2. KeysOf(o) = (IF PriceOf(o) > 0 THEN {"hold"} ELSE {})
        BY <2>7, <3>4 DEF IsCaptured, LedgerOf
      <4> QED
        BY <2>3, <3>4, <4>1, <4>2 DEF IsCaptured, Moves, LedgerOf
    <3>5. CASE IsApproved(o)
      <4>1. KeysOf(o)' = KeysOf(o)
        BY <3>5 DEF IsApproved, wallet, KeysOf
      <4> QED
        BY <2>3, <2>7, <3>5, <4>1 DEF IsApproved, Moves, LedgerOf
    <3>6. CASE IsPaidBack(o)
      <4>1. /\ order[o].state \in {"completed", "refunding"}
            /\ order'[o].state = "refunded"
            /\ KeysOf(o)' = KeysOf(o) \union (IF order'[o].refund > 0 THEN {"refund"} ELSE {})
        BY <2>1, <2>4, <3>6, KeysMove DEF IsPaidBack, Moves
      <4>2. KeysOf(o) = (IF PriceOf(o) > 0 THEN {"hold", "capture"} ELSE {})
        BY <2>7, <4>1 DEF LedgerOf
      <4> QED
        BY <2>3, <4>1, <4>2 DEF LedgerOf
    <3> QED
      BY <1>2, <3>1, <3>2, <3>3, <3>4, <3>5, <3>6, HowMoneyMoves
  <2> QED
    BY <2>6, <2>8 DEF LedgerMatchesOrder
<1>3. CASE LeavesOrders
  <2>1. order' = order
    BY <1>3, OrdersLeft
  <2>2. \A q \in Orders : KeysOf(q)' = KeysOf(q)
    <3>1. CASE UNCHANGED wallet
      BY <3>1 DEF wallet, KeysOf
    <3>2. ASSUME NEW c \in Credits, IsCredit(c)
          PROVE  \A q \in Orders : KeysOf(q)' = KeysOf(q)
      BY <3>2 DEF IsCredit, Post, KeysOf
    <3> QED
      BY <1>3, <3>1, <3>2, MoneyLeft
  <2> QED
    BY <2>1, <2>2 DEF LedgerMatchesOrder, LedgerOf, PriceOf
<1>4. CASE UNCHANGED vars
  BY <1>4 DEF vars, wallet, LedgerMatchesOrder, LedgerOf, KeysOf, PriceOf
<1> QED
  BY <1>1, <1>2, <1>3, <1>4, StepShape

(* The event keys posted for an order are those of its state: it is frozen  *)
(* at most once, then released or captured, and refunded after a capture.   *)
THEOREM LedgerIsExact == Spec => []LedgerMatchesOrder
<1>1. Init => LedgerMatchesOrder
  BY DEF Init, Blank, LedgerMatchesOrder, LedgerOf, KeysOf
<1> QED
  BY <1>1, TypeInit, TypeStep, LedgerStep, PTL DEF Spec
-----------------------------------------------------------------------------
(* Commerce implements Wallet.                                              *)

Phase == [o \in Orders |-> MoneyOf(o)]
Amount == [o \in Orders |-> IF MoneyOf(o) \in {"held", "spent"} THEN PriceOf(o) ELSE 0]

(* The phase of an order's money is read off its state.                     *)
LEMMA PhaseOf ==
  ASSUME NEW o \in Orders
  PROVE  /\ order[o].state \in {"new", "pending"} => MoneyOf(o) = "open"
         /\ order[o].state = "provisioning" => MoneyOf(o) = "held"
         /\ order[o].state \in {"completed", "refunding"} => MoneyOf(o) = "spent"
         /\ order[o].state \in {"cancelled", "expired", "failed", "refunded"} => MoneyOf(o) = "closed"
  BY DEF MoneyOf

(* When an order moves, its phase and amount may change and no other's.     *)
LEMMA PhaseMoves ==
  ASSUME NEW o \in Orders, NEW st, Moves(o, st)
  PROVE  /\ Phase' = [Phase EXCEPT ![o] = MoneyOf(o)']
         /\ Amount' = [Amount EXCEPT ![o] = IF MoneyOf(o)' \in {"held", "spent"} THEN PriceOf(o) ELSE 0]
<1>1. \A q \in Orders \ {o} : MoneyOf(q)' = MoneyOf(q) /\ PriceOf(q)' = PriceOf(q)
  BY DEF Moves, MoneyOf, PriceOf
<1>2. PriceOf(o)' = PriceOf(o)
  BY DEF Moves, PriceOf
<1>3. Phase' = [Phase EXCEPT ![o] = MoneyOf(o)']
  BY <1>1 DEF Phase
<1>4. CASE MoneyOf(o)' \in {"held", "spent"}
  <2>1. Amount' = [Amount EXCEPT ![o] = PriceOf(o)]
    BY <1>1, <1>2, <1>4 DEF Amount
  <2> QED
    BY <1>3, <1>4, <2>1
<1>5. CASE MoneyOf(o)' \notin {"held", "spent"}
  <2>1. Amount' = [Amount EXCEPT ![o] = 0]
    BY <1>1, <1>2, <1>5 DEF Amount
  <2> QED
    BY <1>3, <1>5, <2>1
<1> QED
  BY <1>4, <1>5

LEMMA PromiseStep ==
  TypeInv /\ TypeInv' /\ MoneyInv /\ MoneyInv' /\ [Next]_vars => [Promise!WalletNext]_(Promise!walletVars)
<1> SUFFICES ASSUME TypeInv, TypeInv', MoneyInv, MoneyInv', [Next]_vars
             PROVE  [Promise!WalletNext]_(Promise!walletVars)
  OBVIOUS
<1>0. /\ available \in 0..Limit /\ held \in 0..Limit /\ Limit \in Nat
      /\ available' \in 0..Limit /\ held' \in 0..Limit
      /\ available' + held' <= Limit
  BY BoundAssumption DEF TypeInv, TypeOK, MoneyInv, WithinTotal
<1>1. ASSUME NEW o \in Orders, NEW p \in Plans, CreateOrder(o, p)
      PROVE  UNCHANGED Promise!walletVars
  <2>1. /\ order[o].state = "new" /\ order'[o].state = "pending"
        /\ \A q \in Orders \ {o} : order'[q] = order[q]
        /\ UNCHANGED wallet
    BY <1>1, CreateRow DEF TypeInv, TypeOK, CreateOrder
  <2>2. \A q \in Orders : MoneyOf(q)' = MoneyOf(q)
    BY <2>1 DEF MoneyOf
  <2>3. \A q \in Orders \ {o} : PriceOf(q)' = PriceOf(q)
    BY <2>1 DEF PriceOf
  <2>4. MoneyOf(o) = "open"
    BY <2>1, PhaseOf
  <2>5. Phase' = Phase /\ Amount' = Amount
    BY <2>2, <2>3, <2>4 DEF Phase, Amount
  <2> QED
    BY <2>1, <2>5 DEF Promise!walletVars, Phase, Amount, wallet
<1>2. ASSUME NEW o \in Orders, MovesOrder(o)
      PROVE  [Promise!WalletNext]_(Promise!walletVars)
  <2>1. order[o].state # "new" /\ PriceOf(o) \in Nat /\ \E st : Moves(o, st)
    BY <1>2, HowItMoves, PriceType
  <2>2. Phase[o] = MoneyOf(o) /\ Amount[o] = IF MoneyOf(o) \in {"held", "spent"} THEN PriceOf(o) ELSE 0
    BY DEF Phase, Amount
  <2>3. CASE IsDropped(o)
    <3>1. MoneyOf(o) = "open" /\ MoneyOf(o)' = "closed"
      BY <2>3 DEF IsDropped, Moves, MoneyOf
    <3>2. Phase' = [Phase EXCEPT ![o] = "closed"] /\ Amount' = Amount
      BY <2>1, <2>2, <3>1, PhaseMoves DEF Amount
    <3>3. Promise!Drop(o)
      BY <2>2, <2>3, <3>1, <3>2 DEF Promise!Drop, IsDropped, wallet, Phase, Amount
    <3> QED
      BY <3>3 DEF Promise!WalletNext
  <2>4. CASE IsFrozen(o)
    <3>1. MoneyOf(o) = "open" /\ MoneyOf(o)' = "held"
      BY <2>4 DEF IsFrozen, Moves, MoneyOf
    <3>2. Phase' = [Phase EXCEPT ![o] = "held"] /\ Amount' = [Amount EXCEPT ![o] = PriceOf(o)]
      BY <2>1, <3>1, PhaseMoves
    <3>3. available' = available + (-PriceOf(o)) /\ held' = held + PriceOf(o) /\ PriceOf(o) \in 0..Limit
      <4>1. available' = available - PriceOf(o) /\ held' = held + PriceOf(o)
        BY <2>1, <2>4, MoneyMoves DEF IsFrozen
      <4> QED
        BY <1>0, <2>1, <4>1
    <3>4. Promise!Freeze(o, PriceOf(o))
      BY <1>0, <2>2, <3>1, <3>2, <3>3 DEF Promise!Freeze, Promise!Move, Phase, Amount
    <3> QED
      BY <3>3, <3>4 DEF Promise!WalletNext
  <2>5. CASE IsReleased(o)
    <3>1. MoneyOf(o) = "held" /\ MoneyOf(o)' = "closed"
      BY <2>5 DEF IsReleased, Moves, MoneyOf
    <3>2. Phase' = [Phase EXCEPT ![o] = "closed"] /\ Amount' = [Amount EXCEPT ![o] = 0]
      BY <2>1, <3>1, PhaseMoves
    <3>3. available' = available + Amount[o] /\ held' = held + (-Amount[o])
      BY <1>0, <2>1, <2>2, <2>5, <3>1, MoneyMoves DEF IsReleased
    <3>4. Promise!Unfreeze(o)
      BY <1>0, <2>2, <3>1, <3>2, <3>3 DEF Promise!Unfreeze, Promise!Move, Phase, Amount
    <3> QED
      BY <3>4 DEF Promise!WalletNext
  <2>6. CASE IsCaptured(o)
    <3>1. MoneyOf(o) = "held" /\ MoneyOf(o)' = "spent"
      BY <2>6 DEF IsCaptured, Moves, MoneyOf
    <3>2. Phase' = [Phase EXCEPT ![o] = "spent"] /\ Amount' = Amount
      BY <2>1, <2>2, <3>1, PhaseMoves DEF Amount
    <3>3. available' = available + 0 /\ held' = held + (-Amount[o])
      <4>1. available' = available /\ held' = held - PriceOf(o) /\ Amount[o] = PriceOf(o)
        BY <2>1, <2>2, <2>6, <3>1, MoneyMoves DEF IsCaptured
      <4> QED
        BY <1>0, <2>1, <4>1
    <3>4. Promise!Spend(o)
      BY <1>0, <2>2, <3>1, <3>2, <3>3 DEF Promise!Spend, Promise!Move, Phase, Amount
    <3> QED
      BY <3>4 DEF Promise!WalletNext
  <2>7. CASE IsApproved(o)
    <3>1. MoneyOf(o) = "spent" /\ MoneyOf(o)' = "spent"
      BY <2>7 DEF IsApproved, Moves, MoneyOf
    <3>2. Phase' = Phase /\ Amount' = Amount
      BY <2>1, <2>2, <3>1, PhaseMoves DEF Phase, Amount
    <3> QED
      BY <2>7, <3>2 DEF Promise!walletVars, IsApproved, wallet, Phase, Amount
  <2>8. CASE IsPaidBack(o)
    <3>1. MoneyOf(o) = "spent" /\ MoneyOf(o)' = "closed"
      BY <2>8 DEF IsPaidBack, Moves, MoneyOf
    <3>2. Phase' = [Phase EXCEPT ![o] = "closed"] /\ Amount' = [Amount EXCEPT ![o] = 0]
      BY <2>1, <3>1, PhaseMoves
    <3>3. PICK r \in 0..PriceOf(o) : Return(o, r)
      BY <2>1, <2>8 DEF IsPaidBack, MoneyInv, RefundWithinPrice
    <3>4. available' = available + r /\ held' = held + 0 /\ r \in 0..Limit /\ r \in 0..Amount[o]
      <4>1. available' = available + r /\ held' = held /\ Amount[o] = PriceOf(o)
        BY <2>1, <2>2, <3>1, <3>3, MoneyMoves
      <4> QED
        BY <1>0, <2>1, <4>1
    <3>5. Promise!GiveBack(o, r)
      BY <1>0, <2>2, <3>1, <3>2, <3>4 DEF Promise!GiveBack, Promise!Move, Phase, Amount
    <3> QED
      BY <3>4, <3>5 DEF Promise!WalletNext
  <2> QED
    BY <1>2, <2>3, <2>4, <2>5, <2>6, <2>7, <2>8, HowMoneyMoves
<1>3. CASE LeavesOrders
  <2>1. order' = order
    BY <1>3, OrdersLeft
  <2>2. Phase' = Phase /\ Amount' = Amount
    BY <2>1 DEF Phase, Amount, MoneyOf, PriceOf
  <2>3. CASE UNCHANGED wallet
    BY <2>2, <2>3 DEF Promise!walletVars, wallet, Phase, Amount
  <2>4. ASSUME NEW c \in Credits, IsCredit(c)
        PROVE  Promise!WalletNext
    <3>1. Value[c] \in -Limit..Limit /\ available' = available + Value[c] /\ held' = held + 0
      BY <1>0, <2>4, ValueAssumption DEF IsCredit, Post
    <3>2. Promise!Adjust(Value[c])
      BY <1>0, <2>2, <3>1 DEF Promise!Adjust, Promise!Move, Phase, Amount
    <3> QED
      BY <3>1, <3>2 DEF Promise!WalletNext
  <2> QED
    BY <1>3, <2>3, <2>4, MoneyLeft
<1>4. CASE UNCHANGED vars
  BY <1>4 DEF vars, wallet, Promise!walletVars, MoneyOf, PriceOf
<1> QED
  BY <1>1, <1>2, <1>3, <1>4, StepShape

LEMMA PromiseInit == Init => Promise!WalletInit
<1> SUFFICES ASSUME Init PROVE Promise!WalletInit
  OBVIOUS
<1>1. \A o \in Orders : MoneyOf(o) = "open"
  BY DEF Init, Blank, MoneyOf
<1> QED
  BY <1>1 DEF Init, Promise!WalletInit

(* Every step of the shop is, for the money, a step of Wallet or none: an   *)
(* order's money is frozen once, then given back, or spent and refunded at  *)
(* most once and at most in full.                                           *)
THEOREM KeepsWalletPromise == Spec => WalletPromise
<1>1. Promise!WalletInit /\ [][Promise!WalletNext]_(Promise!walletVars) => WalletPromise
  BY DEF WalletPromise, Promise!WalletSpec
<1> QED
  BY <1>1, TypeInit, TypeStep, ServedInit, ServedStep, MoneyInit, MoneyStep,
     PromiseInit, PromiseStep, PTL DEF Spec
-----------------------------------------------------------------------------
(* One place in the chain for each order.                                   *)

(* Of the entitlement e and the queue q: no order has two places in them.   *)
OneEach(e, q) ==
  /\ \A o \in Orders : \A i, j \in DOMAIN q : Serves(q[i].ent, o) /\ Serves(q[j].ent, o) => i = j
  /\ \A o \in Orders : Serves(e, o) => \A i \in DOMAIN q : ~Serves(q[i].ent, o)
PlacedIn(e, q, o) == Serves(e, o) \/ \E i \in DOMAIN q : Serves(q[i].ent, o)

(* An order that had no place gets the first; what was there may be paused. *)
LEMMA NewFirst ==
  ASSUME NEW e, NEW f, NEW q \in Seq(PlanSlot), NEW t, NEW n, OneEach(e, q), t.ent = e,
         ~PlacedIn(e, q, n), \A o \in Orders : Serves(f, o) => o = n
  PROVE  /\ OneEach(f, q) /\ OneEach(f, Append(q, t))
         /\ \A o \in Orders : PlacedIn(f, q, o) => PlacedIn(e, q, o) \/ o = n
         /\ \A o \in Orders : PlacedIn(f, Append(q, t), o) => PlacedIn(e, q, o) \/ o = n
<1> DEFINE r == Append(q, t)
<1>1. /\ DOMAIN q = 1..Len(q) /\ Len(q) \in Nat /\ DOMAIN r = 1..Len(q) + 1
      /\ r[Len(q) + 1] = t /\ \A i \in 1..Len(q) : r[i] = q[i]
  BY LenProperties DEF r
<1> HIDE DEF r
<1>2. OneEach(f, q) /\ OneEach(f, r)
  BY <1>1 DEF OneEach, PlacedIn
<1>3. \A o \in Orders : PlacedIn(f, q, o) => PlacedIn(e, q, o) \/ o = n
  BY DEF PlacedIn
<1>4. \A o \in Orders : PlacedIn(f, r, o) => PlacedIn(e, q, o) \/ o = n
  BY <1>1 DEF PlacedIn
<1> QED
  BY <1>2, <1>3, <1>4 DEF r

(* The entitlement serves no more than it did, but for a new order.         *)
LEMMA Renewed ==
  ASSUME NEW e, NEW f, NEW q, NEW n, OneEach(e, q), n \in Orders => ~PlacedIn(e, q, n),
         \A o \in Orders : Serves(f, o) => Serves(e, o) \/ o = n
  PROVE  OneEach(f, q) /\ \A o \in Orders : PlacedIn(f, q, o) => PlacedIn(e, q, o) \/ o = n
  BY DEF OneEach, PlacedIn

(* The last of the queue comes back.                                        *)
LEMMA LastRestored ==
  ASSUME NEW e, NEW q \in Seq(PlanSlot), OneEach(e, q), q # <<>>
  PROVE  /\ OneEach(q[Len(q)].ent, SubSeq(q, 1, Len(q) - 1))
         /\ \A o \in Orders : PlacedIn(q[Len(q)].ent, SubSeq(q, 1, Len(q) - 1), o) => PlacedIn(e, q, o)
<1> DEFINE r == SubSeq(q, 1, Len(q) - 1)
           n == Len(q)
<1>1. /\ DOMAIN q = 1..n /\ n \in Nat /\ n > 0
  BY LenProperties, EmptySeq
<1>2. DOMAIN r = 1..n - 1 /\ \A i \in 1..n - 1 : r[i] = q[i]
  <2>1. \A i \in 1..n - 1 : q[i] \in PlanSlot
    BY <1>1, ElementOfSeq
  <2> QED
    BY <1>1, <2>1, SubSeqProperties, LenProperties
<1> HIDE DEF r, n
<1>3. OneEach(q[n].ent, r) /\ \A o \in Orders : PlacedIn(q[n].ent, r, o) => PlacedIn(e, q, o)
  BY <1>1, <1>2 DEF OneEach, PlacedIn
<1> QED
  BY <1>3 DEF r, n

(* A slot leaves the queue.                                                 *)
LEMMA RemovedAt ==
  ASSUME NEW q \in Seq(PlanSlot), NEW k \in DOMAIN q
  PROVE  /\ DOMAIN RemoveAt(q, k) = 1..Len(q) - 1
         /\ \A i \in 1..Len(q) - 1 : RemoveAt(q, k)[i] = q[IF i < k THEN i ELSE i + 1]
<1> DEFINE a == SubSeq(q, 1, k - 1)
           b == SubSeq(q, k + 1, Len(q))
           r == a \o b
           n == Len(q)
<1>1. /\ DOMAIN q = 1..n /\ n \in Nat /\ k \in 1..n /\ \A i \in 1..n : q[i] \in PlanSlot
  BY LenProperties, ElementOfSeq
<1>2. a \in Seq(PlanSlot) /\ Len(a) = k - 1 /\ \A i \in 1..k - 1 : a[i] = q[i]
  BY <1>1, SubSeqProperties
<1>3. b \in Seq(PlanSlot) /\ Len(b) = n - k /\ \A i \in 1..n - k : b[i] = q[k + i]
  BY <1>1, SubSeqProperties
<1>4. RemoveAt(q, k) = r
  BY DEF RemoveAt
<1> HIDE DEF a, b, n
<1>5. /\ r \in Seq(PlanSlot) /\ Len(r) = Len(a) + Len(b)
      /\ \A i \in 1..Len(a) + Len(b) : r[i] = IF i <= Len(a) THEN a[i] ELSE b[i - Len(a)]
  BY <1>2, <1>3, ConcatProperties
<1>6. DOMAIN r = 1..n - 1
  <2>1. Len(r) = n - 1
    BY <1>1, <1>2, <1>3, <1>5
  <2> QED
    BY <1>5, <2>1, LenProperties
<1> HIDE DEF r
<1>7. \A i \in 1..n - 1 : r[i] = q[IF i < k THEN i ELSE i + 1]
  <2> SUFFICES ASSUME NEW i \in 1..n - 1 PROVE r[i] = q[IF i < k THEN i ELSE i + 1]
    OBVIOUS
  <2>1. CASE i < k
    BY <1>1, <1>2, <1>3, <1>5, <2>1
  <2>2. CASE ~(i < k)
    <3>1. /\ i - (k - 1) \in 1..n - k /\ k + (i - (k - 1)) = i + 1
          /\ ~(i <= k - 1) /\ i \in 1..(k - 1) + (n - k)
      BY <1>1, <2>2
    <3>2. r[i] = b[i - (k - 1)] /\ b[i - (k - 1)] = q[i + 1]
      BY <1>2, <1>3, <1>5, <3>1
    <3> QED
      BY <2>2, <3>2
  <2> QED
    BY <2>1, <2>2
<1> QED
  BY <1>4, <1>6, <1>7 DEF n

LEMMA SlotRemoved ==
  ASSUME NEW e, NEW q \in Seq(PlanSlot), NEW k \in DOMAIN q, OneEach(e, q)
  PROVE  /\ OneEach(e, RemoveAt(q, k))
         /\ \A o \in Orders : PlacedIn(e, RemoveAt(q, k), o) => PlacedIn(e, q, o)
<1> DEFINE r == RemoveAt(q, k)
           n == Len(q)
           From(i) == IF i < k THEN i ELSE i + 1
<1>1. /\ DOMAIN q = 1..n /\ n \in Nat /\ k \in 1..n
  BY LenProperties
<1>2. DOMAIN r = 1..n - 1 /\ \A i \in 1..n - 1 : r[i] = q[From(i)]
  BY RemovedAt
<1> HIDE DEF r, n
<1>3. \A i \in 1..n - 1 : From(i) \in 1..n
  BY <1>1
<1>4. \A i, j \in 1..n - 1 : From(i) = From(j) => i = j
  BY <1>1
<1> HIDE DEF From
<1>5. OneEach(e, r) /\ \A o \in Orders : PlacedIn(e, r, o) => PlacedIn(e, q, o)
  BY <1>1, <1>2, <1>3, <1>4 DEF OneEach, PlacedIn
<1> QED
  BY <1>5 DEF r

(* A slot serves no more than it did.                                       *)
LEMMA SlotThinned ==
  ASSUME NEW e, NEW q, NEW k \in DOMAIN q, NEW t, OneEach(e, q),
         \A o \in Orders : Serves(t.ent, o) => Serves(q[k].ent, o)
  PROVE  /\ OneEach(e, [q EXCEPT ![k] = t])
         /\ \A o \in Orders : PlacedIn(e, [q EXCEPT ![k] = t], o) => PlacedIn(e, q, o)
<1> DEFINE r == [q EXCEPT ![k] = t]
<1>1. DOMAIN r = DOMAIN q /\ \A i \in DOMAIN q : r[i] = IF i = k THEN t ELSE q[i]
  OBVIOUS
<1> HIDE DEF r
<1>2. OneEach(e, r) /\ \A o \in Orders : PlacedIn(e, r, o) => PlacedIn(e, q, o)
  BY <1>1 DEF OneEach, PlacedIn
<1> QED
  BY <1>2 DEF r

(* What serves, or served until its refund, was paid for.                   *)
PaidStates == {"completed", "refunding", "refunded"}
ChainInv ==
  /\ OneEach(ent, queue)
  /\ \A o \in Orders : PlacedIn(ent, queue, o) => order[o].state \in PaidStates

LEMMA PaidStays ==
  ASSUME TypeInv, Next, NEW q \in Orders, order[q].state \in PaidStates
  PROVE  order'[q].state \in PaidStates
<1> USE DEF PaidStates
<1>1. ASSUME NEW o \in Orders, NEW p \in Plans, CreateOrder(o, p)
      PROVE  order'[q].state \in PaidStates
  <2>1. order[o].state = "new" /\ \A r \in Orders \ {o} : order'[r] = order[r]
    BY <1>1, CreateRow DEF CreateOrder, TypeInv, TypeOK
  <2> QED
    BY <2>1
<1>2. ASSUME NEW o \in Orders, MovesOrder(o)
      PROVE  order'[q].state \in PaidStates
  <2>1. PICK st \in OrderStates : Moves(o, st)
    BY <1>2, HowItMoves
  <2>2. order[o].state \in {"pending", "provisioning"} \/ order'[o].state \in PaidStates
    <3>1. order \in [Orders -> Order]
      BY DEF TypeInv, TypeOK
    <3>2. CASE Confirm(o) \/ CancelPending(o) \/ ExpireOrder(o)
      BY <3>2 DEF Confirm, CancelPending, ExpireOrder
    <3>3. CASE CancelProvisioning(o) \/ FailProvisioning(o)
      BY <3>3 DEF CancelProvisioning, FailProvisioning, GiveUp
    <3>4. CASE FulfilPurchase(o) \/ FulfilRenewal(o)
      BY <3>4 DEF FulfilPurchase, FulfilRenewal
    <3>5. CASE FulfilRefund(o)
      BY <3>1, <3>5, BecomeMoves DEF FulfilRefund, Moves, OrderStates
    <3>6. CASE RefundQueued(o)
      BY <3>1, <3>6 DEF RefundQueued
    <3>7. ASSUME NEW a \in 0..Limit, RefundCurrent(o, a) PROVE order'[o].state \in PaidStates
      BY <3>1, <3>7 DEF RefundCurrent
    <3> QED
      BY <1>2, <3>2, <3>3, <3>4, <3>5, <3>6, <3>7 DEF MovesOrder
  <2> QED
    BY <2>1, <2>2 DEF Moves
<1>3. CASE LeavesOrders
  BY <1>3, OrdersLeft
<1> QED
  BY <1>1, <1>2, <1>3, StepShape

(* An order in a state before payment has no place.                         *)
LEMMA ChainStep == TypeInv /\ ChainInv /\ [Next]_vars => ChainInv'
<1> SUFFICES ASSUME TypeInv, ChainInv, [Next]_vars PROVE ChainInv'
  OBVIOUS
<1>0. /\ queue \in Seq(PlanSlot) /\ order \in [Orders -> Order] /\ ent \in Entitlement
      /\ NoOrder \notin Orders
  BY NamesAssumption DEF TypeInv, TypeOK
<1>1. ASSUME Next, UNCHANGED <<ent, queue>> PROVE ChainInv'
  <2>1. \A o \in Orders : PlacedIn(ent, queue, o) => order'[o].state \in PaidStates
    BY <1>1, PaidStays DEF ChainInv
  <2> QED
    BY <1>1, <2>1 DEF ChainInv, OneEach, PlacedIn
<1>2. ASSUME Next, NEW n \in Orders \union {NoOrder}, OneEach(ent', queue'),
             n \in Orders => order'[n].state \in PaidStates,
             \A o \in Orders : PlacedIn(ent', queue', o) => PlacedIn(ent, queue, o) \/ o = n
      PROVE  ChainInv'
  <2>1. \A o \in Orders : PlacedIn(ent, queue, o) => order'[o].state \in PaidStates
    BY <1>2, PaidStays DEF ChainInv
  <2>2. \A o \in Orders : PlacedIn(ent', queue', o) => order'[o].state \in PaidStates
    BY <1>2, <2>1
  <2>3. OneEach(ent, queue)' = OneEach(ent', queue')
        /\ \A o \in Orders : PlacedIn(ent, queue, o)' = PlacedIn(ent', queue', o)
    BY DEF OneEach, PlacedIn
  <2> QED
    BY <1>2, <2>2, <2>3 DEF ChainInv
<1>3. PICK e, q : e = ent /\ q = queue
  OBVIOUS
<1>4. /\ q \in Seq(PlanSlot) /\ OneEach(e, q) /\ e \in Entitlement
      /\ \A o \in Orders : PlacedIn(e, q, o) => order[o].state \in PaidStates
  BY <1>0, <1>3 DEF ChainInv
<1>5. ASSUME NEW o \in Orders, FulfilPurchase(o) PROVE ChainInv'
  <2>1. /\ order[o].state = "provisioning" /\ queue' = Paused
        /\ ent' = [plan |-> order[o].plan, order |-> o, renewal |-> NoOrder]
    BY <1>5 DEF FulfilPurchase
  <2>2. order'[o].state = "completed"
    BY <1>0, <1>5, BecomeMoves DEF FulfilPurchase, Moves, OrderStates
  <2>3. PICK f : f = ent'
    OBVIOUS
  <2>4. ~PlacedIn(e, q, o) /\ \A x \in Orders : Serves(f, x) => x = o
    BY <1>0, <1>4, <2>1, <2>3 DEF PaidStates, Serves
  <2>5. PICK t : t = [ent |-> ent, expires |-> expires, paused |-> now, period |-> period]
    OBVIOUS
  <2>6. queue' = q \/ queue' = Append(q, t)
    BY <1>3, <2>1, <2>5 DEF Paused
  <2>7. /\ OneEach(f, q) /\ OneEach(f, Append(q, t))
        /\ \A x \in Orders : PlacedIn(f, q, x) => PlacedIn(e, q, x) \/ x = o
        /\ \A x \in Orders : PlacedIn(f, Append(q, t), x) => PlacedIn(e, q, x) \/ x = o
    BY <1>3, <1>4, <2>4, <2>5, NewFirst
  <2>8. Next
    BY <1>5 DEF Next, Process
  <2> QED
    BY <1>2, <1>3, <2>2, <2>3, <2>6, <2>7, <2>8 DEF PaidStates
<1>6. ASSUME NEW o \in Orders, FulfilRenewal(o) PROVE ChainInv'
  <2>1. /\ order[o].state = "provisioning" /\ queue' = queue /\ ent' = [ent EXCEPT !.renewal = o]
    BY <1>6 DEF FulfilRenewal
  <2>2. order'[o].state = "completed"
    BY <1>0, <1>6, BecomeMoves DEF FulfilRenewal, Moves, OrderStates
  <2>3. PICK f : f = ent'
    OBVIOUS
  <2>4. f.order = e.order /\ f.renewal = o
    BY <1>3, <1>4, <2>1, <2>3 DEF Entitlement
  <2>5. ~PlacedIn(e, q, o) /\ \A x \in Orders : Serves(f, x) => Serves(e, x) \/ x = o
    BY <1>4, <2>1, <2>4 DEF PaidStates, Serves
  <2>6. OneEach(f, q) /\ \A x \in Orders : PlacedIn(f, q, x) => PlacedIn(e, q, x) \/ x = o
    BY <1>4, <2>5, Renewed
  <2>7. Next
    BY <1>6 DEF Next, Process
  <2> QED
    BY <1>2, <1>3, <2>1, <2>2, <2>3, <2>6, <2>7 DEF PaidStates
<1>7. ASSUME Next, queue' = queue, \A x \in Orders : Serves(ent', x) => Serves(ent, x)
      PROVE  ChainInv'
  <2>1. PICK f : f = ent'
    OBVIOUS
  <2>2. PICK n : n = NoOrder
    OBVIOUS
  <2>3. (n \in Orders => ~PlacedIn(e, q, n)) /\ \A x \in Orders : Serves(f, x) => Serves(e, x) \/ x = n
    BY <1>0, <1>3, <1>7, <2>1, <2>2
  <2>4. OneEach(f, q) /\ \A x \in Orders : PlacedIn(f, q, x) => PlacedIn(e, q, x) \/ x = n
    BY <1>4, <2>3, Renewed
  <2> QED
    BY <1>0, <1>2, <1>3, <1>7, <2>1, <2>2, <2>4
<1>8. ASSUME NEW o \in Orders, FulfilRefund(o) PROVE ChainInv'
  <2>1. queue' = queue /\ (ent' = ent \/ ent' = [ent EXCEPT !.renewal = NoOrder])
    BY <1>8 DEF FulfilRefund
  <2>2. \A x \in Orders : Serves(ent', x) => Serves(ent, x)
    BY <1>0, <2>1 DEF Serves, Entitlement
  <2> QED
    BY <1>7, <1>8, <2>1, <2>2 DEF Next, Process
<1>9. ASSUME NEW p \in Plans, AssignPlan(p) PROVE ChainInv'
  <2>1. queue' = queue /\ ent' = [plan |-> p, order |-> NoOrder, renewal |-> NoOrder]
    BY <1>9 DEF AssignPlan
  <2>2. \A x \in Orders : Serves(ent', x) => Serves(ent, x)
    BY <1>0, <2>1 DEF Serves
  <2> QED
    BY <1>7, <1>9, <2>1, <2>2 DEF Next, Owner
<1>10. CASE RestorePreviousPlan
  <2>1. /\ queue # <<>> /\ ent' = queue[Len(queue)].ent /\ queue' = SubSeq(queue, 1, Len(queue) - 1)
    BY <1>10 DEF RestorePreviousPlan, RunOut
  <2>2. /\ OneEach(q[Len(q)].ent, SubSeq(q, 1, Len(q) - 1))
        /\ \A x \in Orders : PlacedIn(q[Len(q)].ent, SubSeq(q, 1, Len(q) - 1), x) => PlacedIn(e, q, x)
    BY <1>3, <1>4, <2>1, LastRestored
  <2> QED
    BY <1>0, <1>2, <1>3, <1>10, <2>1, <2>2 DEF Next, AdvanceQuotaPeriods
<1>11. ASSUME NEW o \in Orders, RefundQueued(o) PROVE ChainInv'
  <2> DEFINE i == CHOOSE i \in QueuedAt(o) : \A j \in QueuedAt(o) : i <= j
             slot == queue[i]
             thin == [slot.ent EXCEPT !.renewal = NoOrder]
             t == [slot EXCEPT !.expires = order[o].before, !.ent = thin]
  <2>1. ent' = ent /\ (queue' = [queue EXCEPT ![i] = t] \/ queue' = RemoveAt(queue, i))
    BY <1>11 DEF RefundQueued, WithoutOrder
  <2>2. i \in DOMAIN queue
    <3>1. QueuedAt(o) \subseteq DOMAIN queue /\ DOMAIN queue \subseteq Nat /\ QueuedAt(o) # {}
      BY <1>0, <1>11, LenProperties DEF QueuedAt, RefundQueued
    <3> QED
      BY <3>1, FirstExists
  <2> HIDE DEF i
  <2>3. slot \in PlanSlot /\ slot.ent \in Entitlement
    <3>1. DOMAIN queue = 1..Len(queue)
      BY <1>0, LenProperties
    <3>2. slot \in PlanSlot
      BY <1>0, <2>2, <3>1, ElementOfSeq
    <3> QED
      BY <3>2 DEF PlanSlot
  <2>4. \A x \in Orders : Serves(thin, x) => Serves(slot.ent, x)
    BY <1>0, <2>3 DEF Serves, Entitlement
  <2> HIDE DEF thin
  <2>5. t.ent = thin
    BY <2>3 DEF PlanSlot
  <2> HIDE DEF t
  <2>6. PICK k, u : k = i /\ u = t
    OBVIOUS
  <2>7. k \in DOMAIN q /\ \A x \in Orders : Serves(u.ent, x) => Serves(q[k].ent, x)
    BY <1>3, <2>2, <2>4, <2>5, <2>6
  <2>8. /\ OneEach(e, [q EXCEPT ![k] = u]) /\ OneEach(e, RemoveAt(q, k))
        /\ \A x \in Orders : PlacedIn(e, [q EXCEPT ![k] = u], x) => PlacedIn(e, q, x)
        /\ \A x \in Orders : PlacedIn(e, RemoveAt(q, k), x) => PlacedIn(e, q, x)
    BY <1>4, <2>7, SlotRemoved, SlotThinned
  <2>9. ent' = e /\ (queue' = [q EXCEPT ![k] = u] \/ queue' = RemoveAt(q, k))
    BY <1>3, <2>1, <2>6
  <2>10. Next
    BY <1>11 DEF Next, Owner
  <2>11. /\ OneEach(ent', queue')
         /\ \A x \in Orders : PlacedIn(ent', queue', x) => PlacedIn(ent, queue, x)
    <3>1. CASE queue' = [q EXCEPT ![k] = u]
      BY <1>3, <2>8, <2>9, <3>1
    <3>2. CASE queue' = RemoveAt(q, k)
      BY <1>3, <2>8, <2>9, <3>2
    <3> QED
      BY <2>9, <3>1, <3>2
  <2>12. NoOrder \in Orders \union {NoOrder} /\ (NoOrder \in Orders => order'[NoOrder].state \in PaidStates)
    BY <1>0
  <2> QED
    BY <1>2, <2>10, <2>11, <2>12
<1>12. CASE Next
  <2>1. CASE Member
    <3>1. UNCHANGED <<ent, queue>>
      BY <2>1, Zenon DEF Member, CreateOrder, Confirm, CancelPending, CancelProvisioning, GiveUp,
                         RequestRefund, CloseRequest, RedeemCode, user
    <3> QED
      BY <1>1, <1>12, <3>1
  <2>2. CASE Owner
    <3>1. \/ \E o \in Orders : RefundQueued(o)
          \/ \E p \in Plans : AssignPlan(p)
          \/ UNCHANGED <<ent, queue>>
      BY <2>2, Zenon DEF Owner, AdjustBalance, RevokeCode, CloseRequest, RefundCurrent,
                         ExtendByOwner, ResetByOwner, SetEnabled, user
    <3> QED
      BY <1>1, <1>9, <1>11, <1>12, <3>1
  <2>3. ASSUME NEW o \in Orders, Process(o) PROVE ChainInv'
    <3>1. \/ FulfilPurchase(o) \/ FulfilRenewal(o) \/ FulfilRefund(o)
          \/ UNCHANGED <<ent, queue>>
      BY <2>3, Zenon DEF Process, ExpireOrder, FailProvisioning, GiveUp, user
    <3> QED
      BY <1>1, <1>5, <1>6, <1>8, <1>12, <3>1
  <2>4. CASE AdvanceQuotaPeriods
    <3>1. RestorePreviousPlan \/ UNCHANGED <<ent, queue>>
      BY <2>4, Zenon DEF AdvanceQuotaPeriods, StopRunOut, PeriodEnds, StartPeriod
    <3> QED
      BY <1>1, <1>10, <1>12, <3>1
  <2>5. CASE (\E s \in Sites : SiteStep(s)) \/ Tick
    <3>1. UNCHANGED <<ent, queue>>
      BY <2>5, Zenon DEF SiteStep, Acknowledge, SendSnapshot, Tick, user
    <3> QED
      BY <1>1, <1>12, <3>1
  <2> QED
    BY <1>12, <2>1, <2>2, <2>3, <2>4, <2>5 DEF Next
<1>13. CASE UNCHANGED vars
  BY <1>13 DEF vars, user, ChainInv, OneEach, PlacedIn
<1> QED
  BY <1>12, <1>13

LEMMA ChainInit == Init => ChainInv
  BY NamesAssumption DEF Init, ChainInv, OneEach, PlacedIn, Serves, NoEntitlement

(* A purchase or renewal has one place in the chain, in force or paused, and *)
(* only what was paid for has one: assignPlan, pauseCurrentPlan, refunds and *)
(* restorePreviousPlan neither copy a place nor keep one for an order that   *)
(* failed.                                                                   *)
THEOREM OnePlaceEach == Spec => []EachOrderServesOnce
<1>1. TypeInv /\ ChainInv => EachOrderServesOnce
  <2> SUFFICES ASSUME TypeInv, ChainInv, NEW o \in Orders
               PROVE  /\ Cardinality(QueuedAt(o)) + (IF IsCurrent(o) THEN 1 ELSE 0) <= 1
                      /\ Located(o) => order[o].state \in PaidStates
    BY DEF EachOrderServesOnce, PaidStates
  <2>1. \A i, j \in QueuedAt(o) : i = j
    BY DEF ChainInv, OneEach, QueuedAt
  <2>2. QueuedAt(o) = {} \/ \E i : QueuedAt(o) = {i}
    BY <2>1
  <2>3. Cardinality(QueuedAt(o)) = 0 \/ (Cardinality(QueuedAt(o)) = 1 /\ QueuedAt(o) # {})
    <3>1. ASSUME NEW i, QueuedAt(o) = {i} PROVE Cardinality(QueuedAt(o)) = 1
      BY <3>1, FS_Singleton
    <3>2. CASE QueuedAt(o) = {}
      <4>1. Cardinality({}) = 0
        BY FS_EmptySet
      <4>2. Cardinality(QueuedAt(o)) = Cardinality({})
        BY <3>2, Zenon
      <4> QED
        BY <4>1, <4>2, Zenon
    <3>3. CASE \E i : QueuedAt(o) = {i}
      <4>1. PICK i : QueuedAt(o) = {i}
        BY <3>3
      <4>2. Cardinality(QueuedAt(o)) = 1
        BY <3>1, <4>1
      <4>3. i \in QueuedAt(o)
        BY <4>1
      <4> QED
        BY <4>2, <4>3
    <3> QED
      BY <2>2, <3>2, <3>3
  <2>4. IsCurrent(o) => QueuedAt(o) = {}
    BY DEF ChainInv, OneEach, QueuedAt, IsCurrent
  <2>5. Cardinality({}) = 0
    BY FS_EmptySet
  <2>6. Located(o) => PlacedIn(ent, queue, o)
    BY DEF Located, PlacedIn, IsCurrent, QueuedAt
  <2> QED
    BY <2>3, <2>4, <2>5, <2>6 DEF ChainInv
<1> QED
  BY <1>1, TypeInit, TypeStep, ChainInit, ChainStep, PTL DEF Spec
-----------------------------------------------------------------------------
(* What the chain is made of, and what it is worth.                         *)

(* The entitlement in force has a plan unless there is none, and so has each *)
(* that is paused; a renewal was ordered for the plan it extends.           *)
PlansKnown ==
  /\ ent = NoEntitlement \/ ent.plan \in Plans
  /\ \A i \in DOMAIN queue : queue[i].ent.plan \in Plans
RenewalsKnown ==
  \A o \in Orders : order[o].action = "renew" =>
    /\ order[o].state = "pending" => expected[o][1].plan = order[o].plan
    /\ order[o].state = "provisioning" => ent.plan = order[o].plan
KnownInv == PlansKnown /\ RenewalsKnown

(* The steps that change the chain.                                         *)
LEMMA ChainShape ==
  ASSUME Next
  PROVE  \/ \E o \in Orders : FulfilPurchase(o) \/ FulfilRenewal(o)
         \/ \E o \in Orders : FulfilRefund(o) \/ RefundQueued(o)
         \/ RestorePreviousPlan
         \/ (\E p \in Plans : AssignPlan(p)) \/ ExtendByOwner(1)
         \/ UNCHANGED <<ent, expires, queue>> /\ (now' = now \/ now' = now + 1)
<1>1. CASE Member
  <2>1. UNCHANGED <<ent, expires, queue, now>>
    BY <1>1, Zenon DEF Member, CreateOrder, Confirm, CancelPending, CancelProvisioning, GiveUp,
                       RequestRefund, CloseRequest, RedeemCode, user
  <2> QED
    BY <2>1
<1>2. CASE Owner
  <2>1. \/ \E o \in Orders : RefundQueued(o)
        \/ \E p \in Plans : AssignPlan(p)
        \/ ExtendByOwner(1)
        \/ UNCHANGED <<ent, expires, queue, now>>
    BY <1>2, Zenon DEF Owner, AdjustBalance, RevokeCode, CloseRequest, RefundCurrent,
                       ResetByOwner, SetEnabled, user
  <2> QED
    BY <2>1
<1>3. ASSUME NEW o \in Orders, Process(o)
      PROVE  \/ FulfilPurchase(o) \/ FulfilRenewal(o) \/ FulfilRefund(o)
             \/ UNCHANGED <<ent, expires, queue, now>>
  BY <1>3, Zenon DEF Process, ExpireOrder, FailProvisioning, GiveUp, user
<1>4. CASE AdvanceQuotaPeriods
  <2>1. RestorePreviousPlan \/ UNCHANGED <<ent, expires, queue, now>>
    BY <1>4, Zenon DEF AdvanceQuotaPeriods, StopRunOut, PeriodEnds, StartPeriod
  <2> QED
    BY <2>1
<1>5. CASE \E s \in Sites : SiteStep(s)
  <2>1. UNCHANGED <<ent, expires, queue, now>>
    BY <1>5, Zenon DEF SiteStep, Acknowledge, SendSnapshot, user
  <2> QED
    BY <2>1
<1>6. CASE Tick
  BY <1>6 DEF Tick, user
<1> QED
  BY <1>1, <1>2, <1>3, <1>4, <1>5, <1>6 DEF Next

(* Where an order can move to.                                              *)
LEMMA AfterMove ==
  ASSUME TypeInv, NEW o \in Orders, MovesOrder(o)
  PROVE  \/ Confirm(o) /\ order'[o].state = "provisioning"
         \/ (FulfilPurchase(o) \/ FulfilRenewal(o)) /\ order'[o].state = "completed"
         \/ order'[o].state \in {"cancelled", "expired", "failed", "refunding", "refunded"}
<1>1. order \in [Orders -> Order] /\ now \in Nat
  BY DEF TypeInv, TypeOK
<1>2. {"provisioning", "cancelled", "expired", "failed", "completed", "refunding", "refunded"} \subseteq OrderStates
  BY DEF OrderStates
<1>3. CASE Confirm(o)
  BY <1>1, <1>3, ConfirmMoves DEF Moves
<1>4. CASE CancelPending(o) \/ ExpireOrder(o) \/ CancelProvisioning(o) \/ FailProvisioning(o)
  <2>1. PICK st \in {"cancelled", "expired", "failed"} : Become(o, st)
    BY <1>4 DEF CancelPending, ExpireOrder, CancelProvisioning, FailProvisioning, GiveUp
  <2> QED
    BY <1>1, <1>2, <2>1, BecomeMoves DEF Moves
<1>5. CASE FulfilPurchase(o) \/ FulfilRenewal(o)
  BY <1>1, <1>2, <1>5, BecomeMoves DEF FulfilPurchase, FulfilRenewal, Moves
<1>6. CASE FulfilRefund(o)
  BY <1>1, <1>2, <1>6, BecomeMoves DEF FulfilRefund, Moves
<1>7. CASE RefundQueued(o)
  BY <1>1, <1>7 DEF RefundQueued
<1>8. CASE \E a \in 0..Limit : RefundCurrent(o, a)
  BY <1>1, <1>8 DEF RefundCurrent
<1> QED
  BY <1>3, <1>4, <1>5, <1>6, <1>7, <1>8 DEF MovesOrder

(* Steps that leave the orders leave what they expect, and leave the        *)
(* entitlement while one is switched.                                       *)
LEMMA ExpectedLeft ==
  ASSUME LeavesOrders
  PROVE  expected' = expected /\ (ent' = ent \/ Switching = {})
<1>1. CASE \E c \in Credits : AdjustBalance(c) \/ RedeemCode(c) \/ RevokeCode(c)
  BY <1>1, Zenon DEF AdjustBalance, RedeemCode, RevokeCode, user
<1>2. CASE \E o \in Orders : RequestRefund(o)
  BY <1>2 DEF RequestRefund, user
<1>3. CASE \E o \in Orders : CloseRequest(o, "cancelled") \/ CloseRequest(o, "rejected")
  BY <1>3 DEF CloseRequest, user
<1>4. CASE StopRunOut \/ RestorePreviousPlan \/ PeriodEnds \/ StartPeriod
  BY <1>4 DEF StopRunOut, RestorePreviousPlan, PeriodEnds, StartPeriod
<1>5. ASSUME NEW p \in Plans, AssignPlan(p) PROVE expected' = expected /\ Switching = {}
  BY <1>5 DEF AssignPlan, MayEdit, Active, Switching
<1>6. CASE ExtendByOwner(1) \/ ResetByOwner
  BY <1>6 DEF ExtendByOwner, ResetByOwner
<1>7. CASE \E on \in BOOLEAN : SetEnabled(on)
  BY <1>7 DEF SetEnabled
<1>8. CASE \E s \in Sites : SiteStep(s)
  BY <1>8 DEF SiteStep, Acknowledge, SendSnapshot, user
<1>9. CASE Tick
  BY <1>9 DEF Tick, user
<1> QED
  BY <1>1, <1>2, <1>3, <1>4, <1>5, <1>6, <1>7, <1>8, <1>9 DEF LeavesOrders

(* A renewal is confirmed for the member as he was when it was ordered.     *)
LEMMA RenewalsStep ==
  TypeInv /\ Served /\ RenewalsKnown /\ Next => RenewalsKnown'
<1> SUFFICES ASSUME TypeInv, Served, RenewalsKnown, Next PROVE RenewalsKnown'
  OBVIOUS
<1>0. order \in [Orders -> Order] /\ DOMAIN expected = Orders /\ now \in Nat /\ expires \in Nat
  BY DEF TypeInv, TypeOK
<1>1. ASSUME NEW o \in Orders, NEW p \in Plans, CreateOrder(o, p) PROVE RenewalsKnown'
  <2>1. \A q \in Orders \ {o} : order'[q] = order[q] /\ order[q].state \notin {"pending", "provisioning"}
    BY <1>0, <1>1, CreateRow DEF CreateOrder, Active
  <2>2. order'[o].state = "pending" /\ order'[o].plan = p
    BY <1>0, <1>1, CreateRow
  <2>3. order'[o].action = "renew" => ent.plan = p
    BY <1>0, <1>1 DEF CreateOrder
  <2>4. expected'[o] = Version /\ Version[1] = ent
    BY <1>0, <1>1 DEF CreateOrder, Version
  <2> QED
    BY <2>1, <2>2, <2>3, <2>4 DEF RenewalsKnown
<1>2. ASSUME NEW o \in Orders, MovesOrder(o) PROVE RenewalsKnown'
  <2>1. PICK st \in OrderStates :
          /\ Moves(o, st)
          /\ \/ order[o].state \in {"pending", "provisioning", "refunding"}
             \/ order[o].state = "completed" /\ Active \ {o} = {}
    BY <1>2, HowItMoves
  <2>2. \A q \in Orders \ {o} : order'[q] = order[q] /\ order[q].state \notin {"pending", "provisioning"}
    BY <2>1 DEF Moves, Active, Served, OneActiveOrder
  <2>3. CASE Confirm(o) /\ order'[o].state = "provisioning"
    <3>1. expected[o] = Version /\ Version[1] = ent /\ ent' = ent /\ order[o].state = "pending"
      BY <2>3 DEF Confirm, Version
    <3>2. order'[o].plan = order[o].plan /\ order'[o].action = order[o].action
      BY <2>1 DEF Moves
    <3> QED
      BY <2>2, <2>3, <3>1, <3>2 DEF RenewalsKnown
  <2>4. CASE order'[o].state \notin {"pending", "provisioning"}
    BY <2>2, <2>4 DEF RenewalsKnown
  <2> QED
    BY <1>2, <2>3, <2>4, AfterMove
<1>3. CASE LeavesOrders
  <2>1. order' = order /\ expected' = expected /\ (ent' = ent \/ Switching = {})
    BY <1>3, OrdersLeft, ExpectedLeft
  <2>2. Switching = {} => \A o \in Orders : order[o].state # "provisioning"
    BY DEF Switching
  <2> QED
    BY <2>1, <2>2 DEF RenewalsKnown
<1> QED
  BY <1>1, <1>2, <1>3, StepShape

(* What happens to a queue whose plans are known.                           *)
QueueKnown(q) == \A i \in DOMAIN q : q[i].ent.plan \in Plans

LEMMA QueueStaysKnown ==
  ASSUME NEW q \in Seq(PlanSlot), QueueKnown(q)
  PROVE  /\ \A t : t.ent.plan \in Plans => QueueKnown(Append(q, t))
         /\ q # <<>> => q[Len(q)].ent.plan \in Plans /\ QueueKnown(SubSeq(q, 1, Len(q) - 1))
         /\ \A k \in DOMAIN q : QueueKnown(RemoveAt(q, k))
         /\ \A k \in DOMAIN q : \A t : t.ent.plan \in Plans => QueueKnown([q EXCEPT ![k] = t])
<1> DEFINE n == Len(q)
<1>1. DOMAIN q = 1..n /\ n \in Nat /\ \A i \in 1..n : q[i] \in PlanSlot
  BY LenProperties, ElementOfSeq
<1>2. ASSUME NEW t, t.ent.plan \in Plans PROVE QueueKnown(Append(q, t))
  <2> DEFINE r == Append(q, t)
  <2>1. DOMAIN r = 1..n + 1 /\ r[n + 1] = t /\ \A i \in 1..n : r[i] = q[i]
    BY <1>1
  <2> HIDE DEF r
  <2>2. QueueKnown(r)
    BY <1>1, <1>2, <2>1 DEF QueueKnown
  <2> QED
    BY <2>2 DEF r
<1>3. ASSUME q # <<>> PROVE q[n].ent.plan \in Plans /\ QueueKnown(SubSeq(q, 1, n - 1))
  <2> DEFINE r == SubSeq(q, 1, n - 1)
  <2>1. n > 0
    BY <1>1, <1>3, EmptySeq
  <2>2. DOMAIN r = 1..n - 1 /\ \A i \in 1..n - 1 : r[i] = q[i]
    BY <1>1, <2>1, SubSeqProperties, LenProperties
  <2> HIDE DEF r, n
  <2>3. q[n].ent.plan \in Plans /\ QueueKnown(r)
    BY <1>1, <2>1, <2>2 DEF QueueKnown
  <2> QED
    BY <2>3 DEF r
<1>4. ASSUME NEW k \in DOMAIN q PROVE QueueKnown(RemoveAt(q, k))
  <2> DEFINE r == RemoveAt(q, k)
  <2>1. DOMAIN r = 1..n - 1 /\ \A i \in 1..n - 1 : r[i] = q[IF i < k THEN i ELSE i + 1]
    BY RemovedAt
  <2> HIDE DEF r, n
  <2>2. \A i \in 1..n - 1 : (IF i < k THEN i ELSE i + 1) \in 1..n
    BY <1>1, <1>4
  <2>3. QueueKnown(r)
    BY <1>1, <2>1, <2>2 DEF QueueKnown
  <2> QED
    BY <2>3 DEF r
<1>5. ASSUME NEW k \in DOMAIN q, NEW t, t.ent.plan \in Plans PROVE QueueKnown([q EXCEPT ![k] = t])
  <2>1. \A i \in DOMAIN q : [q EXCEPT ![k] = t][i] = IF i = k THEN t ELSE q[i]
    OBVIOUS
  <2> QED
    BY <1>5, <2>1 DEF QueueKnown
<1> QED
  BY <1>2, <1>3, <1>4, <1>5 DEF n

(* How a refund changes the queue: a slot leaves it, or keeps its plan.     *)
LEMMA HowRefundThins ==
  ASSUME TypeInv, NEW o \in Orders, RefundQueued(o)
  PROVE  \E k \in DOMAIN queue :
           \/ queue' = RemoveAt(queue, k)
           \/ \E t : queue' = [queue EXCEPT ![k] = t] /\ t.ent.plan = queue[k].ent.plan
<1> DEFINE i == CHOOSE i \in QueuedAt(o) : \A j \in QueuedAt(o) : i <= j
           slot == queue[i]
           thin == [slot.ent EXCEPT !.renewal = NoOrder]
           t == [slot EXCEPT !.expires = order[o].before, !.ent = thin]
<1>0. queue \in Seq(PlanSlot)
  BY DEF TypeInv, TypeOK
<1>1. queue' = [queue EXCEPT ![i] = t] \/ queue' = RemoveAt(queue, i)
  BY DEF RefundQueued, WithoutOrder
<1>2. i \in DOMAIN queue
  <2>1. QueuedAt(o) \subseteq DOMAIN queue /\ DOMAIN queue \subseteq Nat /\ QueuedAt(o) # {}
    BY <1>0, LenProperties DEF QueuedAt, RefundQueued
  <2> QED
    BY <2>1, FirstExists
<1> HIDE DEF i
<1>3. slot \in PlanSlot /\ slot.ent \in Entitlement
  <2>1. DOMAIN queue = 1..Len(queue)
    BY <1>0, LenProperties
  <2>2. slot \in PlanSlot
    BY <1>0, <1>2, <2>1, ElementOfSeq
  <2> QED
    BY <2>2 DEF PlanSlot
<1>4. thin.plan = slot.ent.plan
  BY <1>3 DEF Entitlement
<1> HIDE DEF thin
<1>5. t.ent = thin
  BY <1>3 DEF PlanSlot
<1> HIDE DEF t
<1> QED
  BY <1>1, <1>2, <1>4, <1>5

(* Every plan that serves or waits was assigned by an order or the owner.   *)
LEMMA PlansStep == TypeInv /\ KnownInv /\ Next => PlansKnown'
<1> SUFFICES ASSUME TypeInv, KnownInv, Next PROVE PlansKnown'
  OBVIOUS
<1>0. queue \in Seq(PlanSlot) /\ ent \in Entitlement /\ QueueKnown(queue) /\ NoPlan \notin Plans
  BY NamesAssumption DEF TypeInv, TypeOK, KnownInv, PlansKnown, QueueKnown
<1>a. ASSUME ent' = NoEntitlement \/ ent'.plan \in Plans, QueueKnown(queue)' PROVE PlansKnown'
  BY <1>a DEF PlansKnown, QueueKnown
<1>b. PICK q : q = queue
  OBVIOUS
<1>c. /\ q \in Seq(PlanSlot) /\ QueueKnown(q)
      /\ \A r : queue' = r /\ QueueKnown(r) => QueueKnown(queue)'
  BY <1>0, <1>b DEF QueueKnown
<1>1. ASSUME NEW o \in Orders, FulfilPurchase(o) PROVE PlansKnown'
  <2>1. ent'.plan \in Plans
    BY <1>1 DEF FulfilPurchase, TypeInv, PlanKnown
  <2>2. PICK t : t = [ent |-> ent, expires |-> expires, paused |-> now, period |-> period]
    OBVIOUS
  <2>3. queue' = q \/ (queue' = Append(q, t) /\ ent # NoEntitlement)
    BY <1>1, <1>b, <2>2 DEF FulfilPurchase, Paused
  <2>4. ent # NoEntitlement => t.ent.plan \in Plans
    BY <2>2 DEF KnownInv, PlansKnown
  <2> QED
    BY <1>a, <1>c, <2>1, <2>3, <2>4, QueueStaysKnown
<1>2. ASSUME NEW o \in Orders, FulfilRenewal(o) PROVE PlansKnown'
  <2>1. ent'.plan = ent.plan /\ ent.plan = order[o].plan /\ order[o].plan \in Plans /\ queue' = q
    BY <1>0, <1>2, <1>b DEF FulfilRenewal, KnownInv, RenewalsKnown, TypeInv, PlanKnown, Entitlement
  <2> QED
    BY <1>a, <1>c, <2>1
<1>3. ASSUME NEW o \in Orders, FulfilRefund(o) PROVE PlansKnown'
  <2>1. queue' = q /\ (ent' = ent \/ ent' = [ent EXCEPT !.renewal = NoOrder])
    BY <1>3, <1>b DEF FulfilRefund
  <2>2. ent # NoEntitlement
    BY <1>3, NamesAssumption DEF FulfilRefund, IsCurrent, Serves, NoEntitlement
  <2>3. ent'.plan = ent.plan /\ ent.plan \in Plans
    BY <1>0, <2>1, <2>2 DEF Entitlement, KnownInv, PlansKnown
  <2> QED
    BY <1>a, <1>c, <2>1, <2>3
<1>4. ASSUME NEW o \in Orders, RefundQueued(o) PROVE PlansKnown'
  <2>1. ent' = ent
    BY <1>4 DEF RefundQueued
  <2>2. PICK k \in DOMAIN q : \/ queue' = RemoveAt(q, k)
                              \/ \E t : queue' = [q EXCEPT ![k] = t] /\ t.ent.plan = q[k].ent.plan
    BY <1>4, <1>b, HowRefundThins
  <2>3. q[k].ent.plan \in Plans
    BY <1>c DEF QueueKnown
  <2>4. QueueKnown(queue)'
    BY <1>c, <2>2, <2>3, QueueStaysKnown
  <2> QED
    BY <1>a, <2>1, <2>4 DEF KnownInv, PlansKnown
<1>5. CASE RestorePreviousPlan
  <2>1. q # <<>> /\ ent' = q[Len(q)].ent /\ queue' = SubSeq(q, 1, Len(q) - 1)
    BY <1>5, <1>b DEF RestorePreviousPlan, RunOut
  <2> QED
    BY <1>a, <1>c, <2>1, QueueStaysKnown
<1>6. ASSUME NEW p \in Plans, AssignPlan(p) PROVE PlansKnown'
  BY <1>6, <1>a, <1>b, <1>c DEF AssignPlan
<1>7. CASE ent' = ent /\ queue' = queue
  BY <1>7 DEF KnownInv, PlansKnown
<1>8. ExtendByOwner(1) => ent' = ent /\ queue' = queue
  BY DEF ExtendByOwner
<1> QED
  BY <1>1, <1>2, <1>3, <1>4, <1>5, <1>6, <1>7, <1>8, ChainShape

LEMMA KnownStep == TypeInv /\ Served /\ KnownInv /\ [Next]_vars => KnownInv'
<1>1. UNCHANGED vars /\ KnownInv => KnownInv'
  BY DEF vars, user, KnownInv, PlansKnown, RenewalsKnown
<1> QED
  BY <1>1, PlansStep, RenewalsStep DEF KnownInv

LEMMA KnownInit == Init => KnownInv
<1> SUFFICES ASSUME Init PROVE KnownInv
  OBVIOUS
<1>1. ent = NoEntitlement /\ DOMAIN queue = {}
  BY DEF Init
<1>2. \A o \in Orders : order[o].action = "purchase"
  BY DEF Init, Blank
<1> QED
  BY <1>1, <1>2 DEF KnownInv, PlansKnown, RenewalsKnown

(* An order that is completed gives its member the plan that was ordered:   *)
(* the version compared at confirmation, and the barrier on every edit      *)
(* until the order is done, hold a renewal to the plan it found.            *)
THEOREM RenewalKeepsPlan == Spec => RenewalExtendsItsPlan
<1> DEFINE Extends == \A o \in Orders : Ends(o, "completed") => ent'.plan = order[o].plan
<1>1. TypeInv /\ Served /\ KnownInv /\ [Next]_vars => [Extends]_vars
  <2> SUFFICES ASSUME TypeInv, Served, KnownInv, Next, NEW o \in Orders, Ends(o, "completed")
               PROVE  ent'.plan = order[o].plan
    BY DEF Extends
  <2>0. order \in [Orders -> Order] /\ now \in Nat /\ expires \in Nat /\ ent \in Entitlement
    BY DEF TypeInv, TypeOK
  <2>1. ASSUME NEW q \in Orders, NEW p \in Plans, CreateOrder(q, p) PROVE FALSE
    <3>1. order'[q].state = "pending" /\ \A x \in Orders \ {q} : order'[x] = order[x]
      BY <2>0, <2>1, CreateRow
    <3> QED
      BY <3>1 DEF Ends
  <2>2. ASSUME NEW q \in Orders, MovesOrder(q) PROVE ent'.plan = order[o].plan
    <3>1. PICK st \in OrderStates : Moves(q, st)
      BY <2>2, HowItMoves
    <3>2. q = o
      BY <3>1 DEF Moves, Ends
    <3>3. FulfilPurchase(o) \/ FulfilRenewal(o)
      BY <2>2, <3>2, AfterMove DEF Ends
    <3>4. CASE FulfilPurchase(o)
      BY <3>4 DEF FulfilPurchase
    <3>5. CASE FulfilRenewal(o)
      BY <2>0, <3>5 DEF FulfilRenewal, Entitlement, KnownInv, RenewalsKnown
    <3> QED
      BY <3>3, <3>4, <3>5
  <2>3. CASE LeavesOrders
    BY <2>3, OrdersLeft DEF Ends
  <2> QED
    BY <2>1, <2>2, <2>3, StepShape
<1>2. [][Extends]_vars => RenewalExtendsItsPlan
  BY PTL DEF RenewalExtendsItsPlan, Extends
<1> QED
  BY <1>1, <1>2, TypeInit, TypeStep, ServedInit, ServedStep, KnownInit, KnownStep, PTL DEF Spec
-----------------------------------------------------------------------------
(* Service time.                                                            *)

LEMMA LeftType == \A a, b \in Nat : Left(a, b) \in Nat
  BY DEF Left

(* A queue's time is the sum over its slots: of one more, and of the last.  *)
LEMMA TimeOneMore ==
  ASSUME NEW q \in Seq(PlanSlot), NEW r \in Seq(PlanSlot), Len(r) = Len(q) + 1,
         \A i \in 1..Len(q) : r[i] = q[i]
  PROVE  /\ TimeIn(q) \in Int
         /\ TimeIn(r) = Left(r[Len(r)].expires, r[Len(r)].paused) + TimeIn(q)
<1> DEFINE n == Len(q)
           f == [i \in DOMAIN q |-> Left(q[i].expires, q[i].paused)]
           g == [i \in DOMAIN r |-> Left(r[i].expires, r[i].paused)]
<1>1. n \in Nat /\ DOMAIN q = 1..n /\ DOMAIN r = 1..n + 1
  BY LenProperties
<1>2. \A i \in 1..n + 1 : g[i] = Left(r[i].expires, r[i].paused) /\ g[i] \in Int
  <2>1. \A i \in 1..n + 1 : r[i] \in PlanSlot
    BY <1>1, ElementOfSeq
  <2>2. \A t \in PlanSlot : Left(t.expires, t.paused) \in Int
    BY LeftType DEF PlanSlot
  <2> QED
    BY <1>1, <2>1, <2>2
<1>3. \A i \in 1..n : f[i] = g[i] /\ f[i] \in Int
  <2>1. \A i \in 1..n : q[i] \in PlanSlot
    BY <1>1, ElementOfSeq
  <2>2. \A t \in PlanSlot : Left(t.expires, t.paused) \in Int
    BY LeftType DEF PlanSlot
  <2> QED
    BY <1>1, <2>1, <2>2
<1>4. TimeIn(q) = SumFunctionOnSet(f, 1..n) /\ TimeIn(r) = SumFunctionOnSet(g, 1..n + 1)
  BY <1>1 DEF TimeIn, SumFunction
<1> HIDE DEF f, g, n
<1>5. IsFiniteSet(1..n) /\ IsFiniteSet(1..n + 1)
  BY <1>1, FS_Interval
<1>6. (1..n + 1) \ {n + 1} = 1..n /\ n + 1 \in 1..n + 1
  BY <1>1
<1>7. SumFunctionOnSet(g, 1..n + 1) = g[n + 1] + SumFunctionOnSet(g, (1..n + 1) \ {n + 1})
  BY <1>2, <1>5, <1>6, SumTakeOut
<1>8. SumFunctionOnSet(f, 1..n) = SumFunctionOnSet(g, 1..n)
  BY <1>3, <1>5, SumSame
<1>9. SumFunctionOnSet(f, 1..n) \in Int
  BY <1>3, <1>5, SumType
<1>10. g[n + 1] = Left(r[n + 1].expires, r[n + 1].paused)
  BY <1>2, <1>6
<1>11. Len(r) = n + 1
  BY DEF n
<1> QED
  BY <1>4, <1>6, <1>7, <1>8, <1>9, <1>10, <1>11

LEMMA TimeType == ASSUME NEW q \in Seq(PlanSlot) PROVE TimeIn(q) \in Int
<1> DEFINE f == [i \in DOMAIN q |-> Left(q[i].expires, q[i].paused)]
<1>1. DOMAIN q = 1..Len(q) /\ Len(q) \in Nat
  BY LenProperties
<1>2. \A i \in 1..Len(q) : q[i] \in PlanSlot
  BY <1>1, ElementOfSeq
<1>3. \A i \in 1..Len(q) : f[i] \in Int
  <2>1. \A t \in PlanSlot : Left(t.expires, t.paused) \in Int
    BY LeftType DEF PlanSlot
  <2> QED
    BY <1>1, <1>2, <2>1
<1>4. TimeIn(q) = SumFunctionOnSet(f, 1..Len(q))
  BY <1>1 DEF TimeIn, SumFunction
<1> HIDE DEF f
<1>5. IsFiniteSet(1..Len(q))
  BY <1>1, FS_Interval
<1> QED
  BY <1>3, <1>4, <1>5, SumType

LEMMA TimeWithOneMore ==
  ASSUME NEW q \in Seq(PlanSlot), NEW t \in PlanSlot
  PROVE  TimeIn(Append(q, t)) = Left(t.expires, t.paused) + TimeIn(q)
<1> DEFINE r == Append(q, t)
<1>1. /\ r \in Seq(PlanSlot) /\ Len(q) \in Nat /\ Len(r) = Len(q) + 1
      /\ r[Len(q) + 1] = t /\ \A i \in 1..Len(q) : r[i] = q[i]
  BY LenProperties, AppendProperties
<1> HIDE DEF r
<1>2. TimeIn(r) = Left(t.expires, t.paused) + TimeIn(q)
  BY <1>1, TimeOneMore
<1> QED
  BY <1>2 DEF r

LEMMA TimeOfLast ==
  ASSUME NEW q \in Seq(PlanSlot), q # <<>>
  PROVE  /\ q[Len(q)] \in PlanSlot
         /\ TimeIn(q) = Left(q[Len(q)].expires, q[Len(q)].paused) + TimeIn(SubSeq(q, 1, Len(q) - 1))
<1> DEFINE r == SubSeq(q, 1, Len(q) - 1)
           n == Len(q)
<1>1. n \in Nat /\ n > 0 /\ \A i \in 1..n : q[i] \in PlanSlot
  BY LenProperties, EmptySeq, ElementOfSeq
<1>2. r \in Seq(PlanSlot) /\ Len(r) = n - 1 /\ \A i \in 1..n - 1 : r[i] = q[i]
  <2> DEFINE m == n - 1
  <2>1. m \in Nat /\ \A i \in 1..m : q[i] \in PlanSlot
    BY <1>1
  <2> HIDE DEF m
  <2>2. /\ SubSeq(q, 1, m) \in Seq(PlanSlot) /\ Len(SubSeq(q, 1, m)) = m
        /\ \A i \in 1..m : SubSeq(q, 1, m)[i] = q[i]
    BY <2>1, SubSeqProperties
  <2> QED
    BY <2>2 DEF m
<1> HIDE DEF r
<1>3. Len(q) = Len(r) + 1 /\ \A i \in 1..Len(r) : q[i] = r[i]
  BY <1>1, <1>2
<1>4. TimeIn(q) = Left(q[Len(q)].expires, q[Len(q)].paused) + TimeIn(r)
  BY <1>2, <1>3, TimeOneMore
<1>5. q[Len(q)] \in PlanSlot
  BY <1>1
<1> QED
  BY <1>4, <1>5 DEF r


LEMMA PurchaseAddsDays ==
  ASSUME TypeInv, KnownInv, NEW o \in Orders, FulfilPurchase(o)
  PROVE  TimeLeft' = TimeLeft + Days[order[o].plan]
<1> DEFINE p == order[o].plan
           t == [ent |-> ent, expires |-> expires, paused |-> now, period |-> period]
<1>1. /\ queue \in Seq(PlanSlot) /\ ent \in Entitlement /\ expires \in Nat /\ now \in Nat
      /\ period \in Nat /\ NoPlan \notin Plans
  BY NamesAssumption DEF TypeInv, TypeOK
<1>2. p \in Plans /\ Days[p] \in Nat
  BY PriceAssumption DEF FulfilPurchase, TypeInv, PlanKnown
<1>3. ent'.plan = p /\ expires' = Until(p) /\ queue' = Paused /\ now' = now
  BY DEF FulfilPurchase
<1>4. ent' # NoEntitlement
  BY <1>1, <1>2, <1>3 DEF NoEntitlement
<1>5. TimeLeft' = Left(expires', now') + TimeIn(queue')
  BY <1>4 DEF TimeLeft, TimeIn
<1>6. Left(Until(p), now) = Days[p]
  BY <1>1, <1>2 DEF Until, Left
<1>7. t \in PlanSlot /\ t.expires = expires /\ t.paused = now
  BY <1>1 DEF PlanSlot
<1> HIDE DEF t
<1>8. TimeIn(Append(queue, t)) = Left(expires, now) + TimeIn(queue) /\ TimeIn(queue) \in Int
  BY <1>1, <1>7, TimeWithOneMore, TimeType
<1>9. Left(expires, now) \in Nat
  BY <1>1, LeftType
<1>10. TimeIn(Paused) = TimeLeft
  <2>1. CASE ent = NoEntitlement
    BY <1>8, <2>1 DEF Paused, TimeLeft
  <2>2. CASE ent # NoEntitlement /\ ~InForce
    <3>1. Left(expires, now) = 0
      BY <1>1, <2>2 DEF InForce, Left
    <3> QED
      BY <1>8, <2>2, <3>1 DEF Paused, TimeLeft
  <2>3. CASE ent # NoEntitlement /\ InForce
    <3>1. Paused = Append(queue, t)
      BY <2>3 DEF Paused, t
    <3> QED
      BY <1>8, <2>3, <3>1 DEF TimeLeft
  <2> QED
    BY <2>1, <2>2, <2>3
<1>11. TimeIn(Paused) \in Int
  <2>1. Paused \in Seq(PlanSlot)
    BY SlotType DEF TypeInv
  <2> QED
    BY <2>1, TimeType
<1>12. TimeLeft' = Days[p] + TimeIn(Paused)
  BY <1>3, <1>5, <1>6
<1> QED
  BY <1>2, <1>10, <1>11, <1>12

LEMMA RenewalAddsDays ==
  ASSUME TypeInv, KnownInv, NEW o \in Orders, FulfilRenewal(o)
  PROVE  TimeLeft' = TimeLeft + Days[order[o].plan]
<1> DEFINE d == Days[order[o].plan]
<1>1. /\ queue \in Seq(PlanSlot) /\ ent \in Entitlement /\ expires \in Nat /\ now \in Nat
      /\ NoPlan \notin Plans
  BY NamesAssumption DEF TypeInv, TypeOK
<1>2. order[o].plan \in Plans /\ d \in Nat
  BY PriceAssumption DEF FulfilRenewal, TypeInv, PlanKnown
<1>3. /\ ent.plan = order[o].plan /\ ent' = [ent EXCEPT !.renewal = o]
      /\ expires' = Later(now, expires) + d /\ queue' = queue /\ now' = now
  BY DEF FulfilRenewal, KnownInv, RenewalsKnown
<1>4. ent # NoEntitlement /\ ent' # NoEntitlement
  BY <1>1, <1>2, <1>3 DEF NoEntitlement, Entitlement
<1>5. TimeIn(queue) \in Int
  BY <1>1, TimeType
<1>6. TimeLeft = Left(expires, now) + TimeIn(queue) /\ TimeLeft' = Left(expires', now') + TimeIn(queue')
  BY <1>4 DEF TimeLeft, TimeIn
<1> HIDE DEF d
<1>7. Left(Later(now, expires) + d, now) = Left(expires, now) + d
  <2>1. CASE now >= expires
    BY <1>1, <1>2, <2>1 DEF Left, Later
  <2>2. CASE ~(now >= expires)
    BY <1>1, <1>2, <2>2 DEF Left, Later
  <2> QED
    BY <2>1, <2>2
<1>8. Left(expires, now) \in Nat
  BY <1>1, LeftType
<1>9. TimeLeft' = (Left(expires, now) + d) + TimeIn(queue)
  BY <1>3, <1>6, <1>7
<1>10. TimeLeft' = TimeLeft + d
  <2>1. PICK a, b : a = Left(expires, now) /\ b = TimeIn(queue)
    OBVIOUS
  <2>2. a \in Int /\ b \in Int /\ TimeLeft = a + b /\ TimeLeft' = (a + d) + b
    BY <1>5, <1>6, <1>8, <1>9, <2>1
  <2> QED
    BY <1>2, <2>2
<1> QED
  BY <1>10 DEF d

LEMMA RestoreKeepsTime ==
  ASSUME TypeInv, KnownInv, RestorePreviousPlan
  PROVE  TimeLeft' = TimeLeft
<1> DEFINE t == queue[Len(queue)]
<1>1. /\ queue \in Seq(PlanSlot) /\ expires \in Nat /\ now \in Nat /\ NoPlan \notin Plans
  BY NamesAssumption DEF TypeInv, TypeOK
<1>2. /\ queue # <<>> /\ expires > 0 /\ now >= expires /\ ent' = t.ent
      /\ expires' = ResumedUntil(t) /\ queue' = SubSeq(queue, 1, Len(queue) - 1) /\ now' = now
  BY DEF RestorePreviousPlan, RunOut
<1>3. t \in PlanSlot /\ TimeIn(queue) = Left(t.expires, t.paused) + TimeIn(queue')
  BY <1>1, <1>2, TimeOfLast
<1>4. t.ent.plan \in Plans
  BY <1>1, <1>2, QueueStaysKnown DEF KnownInv, PlansKnown, QueueKnown
<1>5. ent' # NoEntitlement
  BY <1>1, <1>2, <1>4 DEF NoEntitlement
<1>6. Left(expires, now) = 0
  BY <1>1, <1>2 DEF Left
<1>7. TimeLeft = 0 + TimeIn(queue) /\ TimeLeft' = Left(expires', now') + TimeIn(queue')
  BY <1>5, <1>6 DEF TimeLeft, TimeIn
<1>8. t.expires \in Nat /\ t.paused \in Nat
  BY <1>3 DEF PlanSlot
<1> HIDE DEF t
<1>9. Left(ResumedUntil(t), now) = Left(t.expires, t.paused)
  BY <1>1, <1>8 DEF ResumedUntil, Left, Later
<1>10. TimeIn(queue) \in Int
  BY <1>1, TimeType
<1> QED
  BY <1>2, <1>3, <1>7, <1>9, <1>10

LEMMA TimePasses ==
  ASSUME TypeInv, UNCHANGED <<ent, expires, queue>>
  PROVE  /\ now' = now => TimeLeft' = TimeLeft
         /\ now' = now + 1 => TimeLeft - TimeLeft' \in {0, 1}
<1>1. queue \in Seq(PlanSlot) /\ expires \in Nat /\ now \in Nat
  BY DEF TypeInv, TypeOK
<1>2. TimeIn(queue) \in Int
  BY <1>1, TimeType
<1>3. now' = now => TimeLeft' = TimeLeft
  BY DEF TimeLeft, TimeIn
<1>4. ASSUME now' = now + 1 PROVE TimeLeft - TimeLeft' \in {0, 1}
  <2>1. CASE ent = NoEntitlement
    BY <1>2, <2>1 DEF TimeLeft, TimeIn
  <2>2. CASE ent # NoEntitlement
    <3>1. TimeLeft = Left(expires, now) + TimeIn(queue) /\ TimeLeft' = Left(expires, now + 1) + TimeIn(queue)
      BY <1>4, <2>2 DEF TimeLeft, TimeIn
    <3>2. Left(expires, now) \in Int /\ Left(expires, now + 1) \in Int
          /\ Left(expires, now) - Left(expires, now + 1) \in {0, 1}
      BY <1>1 DEF Left
    <3> QED
      BY <1>2, <3>1, <3>2
  <2> QED
    BY <2>1, <2>2
<1> QED
  BY <1>3, <1>4

(* No day of service is lost or made but by the orders that buy and refund, *)
(* the clock and the owner: a paused plan keeps what it had left, and gets  *)
(* it back when it is restored.                                             *)
THEOREM TimeIsKept == Spec => ServiceTimeConserved
<1> DEFINE Keeps == \/ \E o \in Orders : /\ Ends(o, "completed")
                                         /\ TimeLeft' = TimeLeft + Days[order[o].plan]
                    \/ \E o \in Orders : Ends(o, "refunded")
                    \/ now' = now + 1 /\ TimeLeft - TimeLeft' \in {0, 1}
                    \/ MayEdit
                    \/ TimeLeft' = TimeLeft
<1>1. TypeInv /\ Served /\ KnownInv /\ [Next]_vars => [Keeps]_vars
  <2> SUFFICES ASSUME TypeInv, KnownInv, Next PROVE Keeps
    BY DEF Keeps
  <2>0. order \in [Orders -> Order] /\ {"completed", "refunded"} \subseteq OrderStates
    BY DEF TypeInv, TypeOK, OrderStates
  <2>1. ASSUME NEW o \in Orders, FulfilPurchase(o) \/ FulfilRenewal(o) PROVE Keeps
    <3>1. Ends(o, "completed")
      BY <2>0, <2>1, BecomeMoves DEF FulfilPurchase, FulfilRenewal, Moves, Ends
    <3> QED
      BY <2>1, <3>1, PurchaseAddsDays, RenewalAddsDays
  <2>2. ASSUME NEW o \in Orders, FulfilRefund(o) \/ RefundQueued(o) PROVE Keeps
    <3>1. CASE FulfilRefund(o)
      BY <2>0, <3>1, BecomeMoves DEF FulfilRefund, Moves, Ends
    <3>2. CASE RefundQueued(o)
      BY <2>0, <3>2 DEF RefundQueued, Refundable, Ends
    <3> QED
      BY <2>2, <3>1, <3>2
  <2>3. CASE RestorePreviousPlan
    BY <2>3, RestoreKeepsTime
  <2>4. CASE (\E p \in Plans : AssignPlan(p)) \/ ExtendByOwner(1)
    BY <2>4 DEF AssignPlan, ExtendByOwner
  <2>5. CASE UNCHANGED <<ent, expires, queue>> /\ (now' = now \/ now' = now + 1)
    BY <2>5, TimePasses
  <2> QED
    BY <2>1, <2>2, <2>3, <2>4, <2>5, ChainShape
<1>2. [][Keeps]_vars => ServiceTimeConserved
  BY PTL DEF ServiceTimeConserved, Keeps
<1> QED
  BY <1>1, <1>2, TypeInit, TypeStep, ServedInit, ServedStep, KnownInit, KnownStep, PTL DEF Spec
=============================================================================
