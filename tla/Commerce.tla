------------------------------ MODULE Commerce ------------------------------
(* Orders of one member paid from the wallet, the chain of entitlements    *)
(* they buy and the business sites that serve them.  Every handler, and    *)
(* every order the worker looks at, runs under App.mu and commits in one   *)
(* SQL transaction, so each is one step; the clock, the worker, the        *)
(* member, the owner and the sites interleave between them.                *)
(* Members share no state: the project models one.                         *)
EXTENDS Integers, Sequences, FiniteSetsExt, SequencesExt

CONSTANTS Orders,        \* order identities (serial "GYO")
          Plans,         \* offers on sale, each with its plan
          Credits,       \* operation ids of adjustments and ids of codes
          Sites,         \* business sites that can serve the member
          NoOrder,       \* the empty order id
          NoPlan,        \* no entitlement
          Price,         \* [Plans -> Nat], Offer.Price in cents
          Days,          \* [Plans -> Nat], Plan.ValidDays; 0: permanent
          PurchaseLimit, \* Offer.PurchaseLimit, 0: unlimited
          Value,         \* [Credits -> Int], what a credit moves
          Codes,         \* the credits that are redeem codes
          Limit,         \* moneyLimit
          OrderTTL,      \* 900 s: an order waits this long to be confirmed
          ProvisionTTL,  \* 1800 s: and this long to be provisioned
          Horizon,       \* bound on the clock
          MaxInterventions \* bound on owner's edits and period ends

ASSUME NamesAssumption == NoOrder \notin Orders /\ NoPlan \notin Plans
ASSUME PriceAssumption == Price \in [Plans -> Nat] /\ Days \in [Plans -> Nat]
ASSUME ValueAssumption == Value \in [Credits -> Int] /\ Codes \subseteq Credits
ASSUME BoundAssumption == /\ {PurchaseLimit, Limit, OrderTTL} \subseteq Nat
                          /\ {ProvisionTTL, Horizon} \subseteq Nat
                          /\ MaxInterventions \in Nat

VARIABLES order,     \* commerce_orders
          expected,  \* Order.Expected: userCommerceVersion when it was made
          request,   \* state of each order's latest refund request
          available, held, \* wallet_accounts
          posted,    \* event keys of money_transactions
          revoked,   \* redeem codes withdrawn before use
          ent,       \* User.Entitlement
          expires,   \* User.Expires; 0: never
          enabled,   \* User.Enabled
          queue,     \* User.PlanQueue: paused entitlements, last in first out
          period,    \* User.Meter.PeriodID
          pendingReset, \* User.Meter.PendingReset
          sent,      \* per site: period of the member's grant in SentGrants, 0: none
          issued,    \* per site: periods of quota the site may still spend
          now,       \* the clock
          periods,   \* quota periods started so far
          interventions

wallet == <<available, held, posted>>
user == <<ent, expires, enabled, queue, period, pendingReset>>
sites == <<sent, issued>>
bounds == <<periods, interventions>>
vars == <<order, expected, request, wallet, revoked, user, sites, now, bounds>>
-----------------------------------------------------------------------------
OrderIds == Orders \union {NoOrder}
PlanIds == Plans \union {NoPlan}

Entitlement == [plan : PlanIds, order : OrderIds, renewal : OrderIds]
PlanSlot == [ent : Entitlement, expires : Nat, paused : Nat, period : Nat]

OrderStates == {"new", "pending", "provisioning", "completed", "cancelled",
                "expired", "failed", "refunding", "refunded"}

(* deadline is Expires while pending and Started + 1800 while provisioning; *)
(* before (BeforeExpiry) is read for renewals only; refund is RefundAmount. *)
Order == [state : OrderStates, plan : PlanIds,
          action : {"purchase", "renew"}, before : Nat, deadline : Nat,
          refund : Nat]

NoEntitlement == [plan |-> NoPlan, order |-> NoOrder, renewal |-> NoOrder]
Blank == [state |-> "new", plan |-> NoPlan, action |-> "purchase",
          before |-> 0, deadline |-> 0, refund |-> 0]

RequestStates == {"none", "requested", "cancelled", "rejected", "approved"}
Events == {"hold", "release", "capture", "refund"} \X Orders
            \union {"credit"} \X Credits

(* One type invariant: every row, the wallet and the member's document     *)
(* keep their shape.                                                       *)
TypeOK == /\ order \in [Orders -> Order]
          /\ DOMAIN expected = Orders
          /\ request \in [Orders -> RequestStates]
          /\ available \in 0..Limit /\ held \in 0..Limit
          /\ posted \subseteq Events
          /\ revoked \subseteq Codes
          /\ ent \in Entitlement
          /\ expires \in Nat
          /\ enabled \in BOOLEAN
          /\ queue \in Seq(PlanSlot)
          /\ period \in Nat
          /\ pendingReset \in BOOLEAN
          /\ sent \in [Sites -> Nat]
          /\ issued \in [Sites -> SUBSET Nat]
          /\ now \in Nat
          /\ periods \in Nat
          /\ interventions \in 0..MaxInterventions

Init == /\ order = [o \in Orders |-> Blank]
        /\ expected = [o \in Orders |-> <<>>]
        /\ request = [o \in Orders |-> "none"]
        /\ available = 0 /\ held = 0
        /\ posted = {} /\ revoked = {}
        /\ ent = NoEntitlement
        /\ expires = 0
        /\ enabled = TRUE
        /\ queue = <<>>
        /\ period = 1
        /\ pendingReset = FALSE
        /\ sent = [s \in Sites |-> 0]
        /\ issued = [s \in Sites |-> {}]
        /\ now = 1
        /\ periods = 1
        /\ interventions = 0
-----------------------------------------------------------------------------
(* Money.                                                                  *)

(* Fault: the conditional update forgets its lower bound.                  *)
PostUnchecked(event, da, dh) == /\ event \notin posted
                                /\ available + held + da + dh <= Limit
                                /\ available' = available + da
                                /\ held' = held + dh
                                /\ posted' = posted \union {event}

(* postMoney: the wallet moves and its ledger row is written together, or  *)
(* the whole transaction fails: a balance out of bounds, or an event key   *)
(* that was posted before.                                                 *)
Post(event, da, dh) == /\ event \notin posted
                       /\ available + da \in 0..Limit
                       /\ held + dh \in 0..Limit
                       /\ available + held + da + dh <= Limit
                       /\ available' = available + da
                       /\ held' = held + dh
                       /\ posted' = posted \union {event}

(* Free orders, and refunds of nothing, post nothing.                      *)
PostUnlessFree(amount, event, da, dh) ==
  IF amount > 0 THEN Post(event, da, dh) ELSE UNCHANGED wallet

PriceOf(o) == Price[order[o].plan]

(* Faults: a release that only credits; a refund that posts even nothing.   *)
ReleaseAvailable(o) == PostUnlessFree(PriceOf(o), <<"release", o>>, PriceOf(o), 0)
ReturnEvenNothing(o, amount) == Post(<<"refund", o>>, amount, 0)

Hold(o) == PostUnlessFree(PriceOf(o), <<"hold", o>>, -PriceOf(o), PriceOf(o))
Release(o) == PostUnlessFree(PriceOf(o), <<"release", o>>, PriceOf(o), -PriceOf(o))
Capture(o) == PostUnlessFree(PriceOf(o), <<"capture", o>>, 0, -PriceOf(o))
Return(o, amount) == PostUnlessFree(amount, <<"refund", o>>, amount, 0)

(* adjustBalance: one posting per operation id.                            *)
AdjustBalance(c) == /\ c \in Credits \ Codes
                    /\ Post(<<"credit", c>>, Value[c], 0)
                    /\ UNCHANGED <<order, expected, request, revoked, user, sites, now, bounds>>

(* redeemCode: the conditional update of the code's row, then the posting. *)
RedeemCode(c) == /\ c \in Codes \ revoked
                 /\ Post(<<"credit", c>>, Value[c], 0)
                 /\ UNCHANGED <<order, expected, request, revoked, user, sites, now, bounds>>

RevokeCode(c) == /\ c \in Codes \ revoked
                 /\ <<"credit", c>> \notin posted
                 /\ revoked' = revoked \union {c}
                 /\ UNCHANGED <<order, expected, request, wallet, user, sites, now, bounds>>
-----------------------------------------------------------------------------
(* The member's entitlement chain.                                         *)

Later(a, b) == IF a >= b THEN a ELSE b
InForce == expires = 0 \/ expires > now

(* userCommerceVersion                                                     *)
Version == <<ent, expires, enabled, period, queue>>

(* orderEntitlementPosition                                                *)
Serves(e, o) == o \in {e.order, e.renewal}
IsCurrent(o) == Serves(ent, o)
QueuedAt(o) == {i \in DOMAIN queue : Serves(queue[i].ent, o)}
Located(o) == IsCurrent(o) \/ QueuedAt(o) # {}

(* pauseCurrentPlan: an entitlement still in force is kept for later.      *)
Paused == IF ent = NoEntitlement \/ ~InForce THEN queue
          ELSE Append(queue, [ent |-> ent, expires |-> expires,
                              paused |-> now, period |-> period])

(* assignPlan: when the plan p, bought at this moment, runs out.           *)
Until(p) == IF Days[p] > 0 THEN now + Days[p] ELSE 0

(* Fault: the absolute expiry of the paused plan is taken back as it was.  *)
ResumedUntilAbsolute(t) == t.expires

(* restorePreviousPlan: when the slot t, resumed at this moment, runs out. *)
ResumedUntil(t) == IF t.expires = 0 THEN 0
                   ELSE now + Later(t.expires - t.paused, 0)

(* commercePendingExcept, commerceBarrier                                  *)
Active == {o \in Orders : order[o].state \in {"pending", "provisioning", "refunding"}}
Switching == {o \in Orders : order[o].state \in {"provisioning", "refunding"}}

(* countOfferPurchases                                                     *)
Bought(p, exclude) ==
  {o \in Orders \ {exclude} : /\ order[o].plan = p
                              /\ order[o].state \in {"pending", "provisioning",
                                                     "completed", "refunding"}}
WithinLimit(p, exclude) ==
  PurchaseLimit > 0 => Cardinality(Bought(p, exclude)) < PurchaseLimit

(* No site can spend the member's quota any more.                          *)
Settled == \A s \in Sites : sent[s] = 0 /\ issued[s] = {}

Become(o, state) == order' = [order EXCEPT ![o] = [@ EXCEPT !.state = state,
                                                            !.deadline = 0]]
-----------------------------------------------------------------------------
(* Orders: what the member and the owner do.                               *)

(* createOrder: buying again the plan in force is a renewal.               *)
CreateOrder(o, p) ==
  LET renewing == ent.plan = p /\ InForce
  IN  /\ order[o].state = "new"
      /\ now + OrderTTL + ProvisionTTL <= Horizon
      /\ WithinLimit(p, NoOrder)
      /\ ~pendingReset
      /\ Active = {}
      /\ renewing => expires # 0 /\ Days[p] # 0
      /\ order' = [order EXCEPT ![o] =
                     [state |-> "pending", plan |-> p,
                      action |-> IF renewing THEN "renew" ELSE "purchase",
                      before |-> IF renewing THEN expires ELSE 0,
                      deadline |-> now + OrderTTL, refund |-> 0]]
      /\ expected' = [expected EXCEPT ![o] = Version]
      /\ UNCHANGED <<request, wallet, revoked, user, sites, now, bounds>>

(* Fault: the member's version is not compared.                            *)
ConfirmUnseen(o) ==
  /\ order[o].state = "pending"
  /\ now < order[o].deadline
  /\ enabled
  /\ ~pendingReset
  /\ Hold(o)
  /\ order' = [order EXCEPT ![o] = [@ EXCEPT !.state = "provisioning",
                                             !.deadline = now + ProvisionTTL]]
  /\ expected' = [expected EXCEPT ![o] = <<>>]
  /\ pendingReset' = (order[o].action = "purchase")
  /\ UNCHANGED <<request, revoked, ent, expires, enabled, queue, period, sites, now, bounds>>

(* orderAction "confirm": the price is frozen; a purchase also stops the   *)
(* member's service until the switch is made.                              *)
Confirm(o) ==
  /\ order[o].state = "pending"
  /\ now < order[o].deadline
  /\ WithinLimit(order[o].plan, o)
  /\ enabled
  /\ expected[o] = Version
  /\ ~pendingReset
  /\ Hold(o)
  /\ order' = [order EXCEPT ![o] = [@ EXCEPT !.state = "provisioning",
                                             !.deadline = now + ProvisionTTL]]
  /\ expected' = [expected EXCEPT ![o] = <<>>]
  /\ pendingReset' = (order[o].action = "purchase")
  /\ UNCHANGED <<request, revoked, ent, expires, enabled, queue, period, sites, now, bounds>>

(* orderAction "cancel"                                                    *)
CancelPending(o) ==
  /\ order[o].state = "pending"
  /\ Become(o, "cancelled")
  /\ expected' = [expected EXCEPT ![o] = <<>>]
  /\ UNCHANGED <<request, wallet, revoked, user, sites, now, bounds>>

(* The end of a provisioning order that bought nothing: cancelled or       *)
(* failed.  The money comes back and the service resumes.                  *)
GiveUp(o, state) ==
  /\ order[o].state = "provisioning"
  /\ Release(o)
  /\ Become(o, state)
  /\ pendingReset' = (pendingReset /\ order[o].action = "renew")
  /\ UNCHANGED <<expected, request, revoked, ent, expires, enabled, queue, period, sites, now, bounds>>

(* Fault: cancelling forgets the frozen money.                             *)
CancelKeepsHold(o) ==
  /\ order[o].state = "provisioning"
  /\ Become(o, "cancelled")
  /\ pendingReset' = (pendingReset /\ order[o].action = "renew")
  /\ UNCHANGED <<expected, request, wallet, revoked, ent, expires, enabled, queue, period, sites, now, bounds>>

CancelProvisioning(o) == GiveUp(o, "cancelled")

(* orderAction "request_refund", "cancel_refund", "reject_refund"          *)
RequestRefund(o) ==
  /\ order[o].state = "completed"
  /\ Located(o)
  /\ request[o] # "requested"
  /\ request' = [request EXCEPT ![o] = "requested"]
  /\ UNCHANGED <<order, expected, wallet, revoked, user, sites, now, bounds>>

CloseRequest(o, verdict) ==
  /\ order[o].state = "completed"
  /\ request[o] = "requested"
  /\ request' = [request EXCEPT ![o] = verdict]
  /\ UNCHANGED <<order, expected, wallet, revoked, user, sites, now, bounds>>

(* A refund answers the open request, if there is one.                     *)
Approve(o) == request' = [request EXCEPT ![o] =
                            IF request[o] = "requested" THEN "approved" ELSE request[o]]

Refundable(o) == /\ order[o].state = "completed"
                 /\ Active \ {o} = {}

(* orderAction "refund" of what serves the member now: the service stops   *)
(* and the worker finishes.  The amount depends on the quota or the time   *)
(* used (refundableOrderAmount): any part of the price.                    *)
RefundCurrent(o, amount) ==
  /\ Refundable(o)
  /\ IsCurrent(o)
  /\ amount \in 0..PriceOf(o)
  /\ order' = [order EXCEPT ![o] = [@ EXCEPT !.state = "refunding", !.refund = amount]]
  /\ Approve(o)
  /\ pendingReset' = TRUE
  /\ UNCHANGED <<expected, wallet, revoked, ent, expires, enabled, queue, period, sites, now, bounds>>

(* orderAction "refund" of a paused entitlement: in full, and at once.     *)
(* A renewal leaves its slot with the expiry it had found.                 *)
WithoutOrder(o) ==
  LET i == CHOOSE i \in QueuedAt(o) : \A j \in QueuedAt(o) : i <= j
      slot == queue[i]
  IN  IF order[o].action = "renew" /\ slot.ent.renewal = o
      THEN [queue EXCEPT ![i] = [slot EXCEPT !.expires = order[o].before,
                                             !.ent = [slot.ent EXCEPT !.renewal = NoOrder]]]
      ELSE RemoveAt(queue, i)

RefundQueued(o) ==
  /\ Refundable(o)
  /\ ~IsCurrent(o)
  /\ QueuedAt(o) # {}
  /\ queue' = WithoutOrder(o)
  /\ Return(o, PriceOf(o))
  /\ order' = [order EXCEPT ![o] = [@ EXCEPT !.state = "refunded", !.refund = PriceOf(o)]]
  /\ Approve(o)
  /\ UNCHANGED <<expected, revoked, ent, expires, enabled, period, pendingReset, sites, now, bounds>>
-----------------------------------------------------------------------------
(* Orders: what the worker does (commerceWork).                            *)

ExpireOrder(o) ==
  /\ order[o].state = "pending"
  /\ order[o].deadline <= now
  /\ Become(o, "expired")
  /\ expected' = [expected EXCEPT ![o] = <<>>]
  /\ UNCHANGED <<request, wallet, revoked, user, sites, now, bounds>>

(* Faults: the switch does not wait for the sites; refunds have a deadline. *)
MayFulfilAtOnce(o) == /\ order[o].state \in {"provisioning", "refunding"}
                      /\ order[o].state = "provisioning" => now < order[o].deadline
                      /\ order[o].state = "refunding" => Settled
MayFulfilInTime(o) == /\ order[o].state \in {"provisioning", "refunding"}
                      /\ now < order[o].deadline
                      /\ order[o].action = "purchase" => Settled

(* The switch of a purchase, and every refund, wait until the sites have   *)
(* settled the old grants; a renewal does not.                             *)
MayFulfil(o) == /\ order[o].state \in {"provisioning", "refunding"}
                /\ order[o].state = "provisioning" => now < order[o].deadline
                /\ order[o].action = "purchase" \/ order[o].state = "refunding" => Settled

(* Fault: an order that waits for an offline site is never given up.       *)
FailWithoutTimeout(o) == MayFulfil(o) /\ GiveUp(o, "failed")

(* failProvisioning: 30 minutes have passed, or the sites no longer accept *)
(* the plan (validateEntitlementSites, an outcome the model leaves open).  *)
FailProvisioning(o) == /\ now >= order[o].deadline \/ MayFulfil(o)
                       /\ GiveUp(o, "failed")

(* fulfilOrder, purchase: the entitlement in force is paused, the new plan *)
(* starts with a quota period of its own, and the frozen money is spent.   *)
FulfilPurchase(o) ==
  /\ order[o].state = "provisioning" /\ order[o].action = "purchase"
  /\ MayFulfil(o)
  /\ enabled
  /\ queue' = Paused
  /\ ent' = [plan |-> order[o].plan, order |-> o, renewal |-> NoOrder]
  /\ expires' = Until(order[o].plan)
  /\ periods' = periods + 1
  /\ period' = periods'
  /\ pendingReset' = FALSE
  /\ Capture(o)
  /\ Become(o, "completed")
  /\ UNCHANGED <<expected, request, revoked, enabled, sites, now, interventions>>

(* fulfilOrder, renewal: only the expiry moves.                            *)
FulfilRenewal(o) ==
  /\ order[o].state = "provisioning" /\ order[o].action = "renew"
  /\ MayFulfil(o)
  /\ enabled
  /\ expires' = Later(now, expires) + Days[order[o].plan]
  /\ ent' = [ent EXCEPT !.renewal = o]
  /\ Capture(o)
  /\ Become(o, "completed")
  /\ UNCHANGED <<expected, request, revoked, enabled, queue, period, pendingReset, sites, now, bounds>>

(* fulfilOrder, refund: a renewal gives back the expiry it had found, a    *)
(* purchase ends now.                                                      *)
FulfilRefund(o) ==
  /\ order[o].state = "refunding"
  /\ MayFulfil(o)
  /\ IsCurrent(o)
  /\ IF order[o].action = "renew"
     THEN expires' = order[o].before /\ ent' = [ent EXCEPT !.renewal = NoOrder]
     ELSE expires' = now /\ ent' = ent
  /\ pendingReset' = FALSE
  /\ Return(o, order[o].refund)
  /\ Become(o, "refunded")
  /\ UNCHANGED <<expected, request, revoked, enabled, queue, period, sites, now, bounds>>
-----------------------------------------------------------------------------
(* Quota periods and paused plans (advanceQuotaPeriods), left alone while  *)
(* an order switches the entitlement.                                      *)

RunOut == queue # <<>> /\ expires > 0 /\ now >= expires

(* The plan has run out and another is paused: stop the member first.      *)
StopRunOut ==
  /\ Switching = {}
  /\ RunOut
  /\ ~pendingReset
  /\ pendingReset' = TRUE
  /\ UNCHANGED <<order, expected, request, wallet, revoked, ent, expires, enabled, queue, period, sites, now, bounds>>

(* Fault: the restored slot stays in the queue.                            *)
RestoreKeepsSlot ==
  LET slot == queue[Len(queue)]
  IN  /\ Switching = {} /\ RunOut /\ pendingReset /\ Settled
      /\ ent' = slot.ent
      /\ expires' = ResumedUntil(slot)
      /\ period' = slot.period
      /\ pendingReset' = FALSE
      /\ UNCHANGED <<order, expected, request, wallet, revoked, enabled, queue, sites, now, bounds>>

(* restorePreviousPlan                                                     *)
RestorePreviousPlan ==
  LET slot == queue[Len(queue)]
  IN  /\ Switching = {}
      /\ RunOut
      /\ pendingReset
      /\ Settled
      /\ queue' = SubSeq(queue, 1, Len(queue) - 1)
      /\ ent' = slot.ent
      /\ expires' = ResumedUntil(slot)
      /\ period' = slot.period
      /\ pendingReset' = FALSE
      /\ UNCHANGED <<order, expected, request, wallet, revoked, enabled, sites, now, bounds>>

Intervene == /\ interventions < MaxInterventions
             /\ interventions' = interventions + 1

(* The calendar ends the quota period (Meter.End): it may at any time.     *)
PeriodEnds ==
  /\ Switching = {}
  /\ ~RunOut
  /\ ~pendingReset
  /\ Intervene
  /\ pendingReset' = TRUE
  /\ UNCHANGED <<order, expected, request, wallet, revoked, ent, expires, enabled, queue, period, sites, now, periods>>

(* Faults: a reset that ignores the order being switched; one that never   *)
(* ends for a member whose plan has run out.                               *)
StartPeriodAnyway ==
  /\ ~RunOut /\ pendingReset /\ Settled
  /\ periods' = periods + 1
  /\ period' = periods'
  /\ pendingReset' = FALSE
  /\ UNCHANGED <<order, expected, request, wallet, revoked, ent, expires, enabled, queue, sites, now, interventions>>
StartPeriodInForce ==
  /\ Switching = {} /\ InForce /\ pendingReset /\ Settled
  /\ periods' = periods + 1
  /\ period' = periods'
  /\ pendingReset' = FALSE
  /\ UNCHANGED <<order, expected, request, wallet, revoked, ent, expires, enabled, queue, sites, now, interventions>>

(* The new period starts once the old one is settled everywhere.           *)
StartPeriod ==
  /\ Switching = {}
  /\ ~RunOut
  /\ pendingReset
  /\ Settled
  /\ periods' = periods + 1
  /\ period' = periods'
  /\ pendingReset' = FALSE
  /\ UNCHANGED <<order, expected, request, wallet, revoked, ent, expires, enabled, queue, sites, now, interventions>>
-----------------------------------------------------------------------------
(* The owner's edits (entitlementBatch), refused while an order is open or *)
(* a period is closing.                                                    *)

MayEdit == Active = {} /\ ~pendingReset /\ Intervene

AssignPlan(p) ==
  /\ MayEdit
  /\ ent' = [plan |-> p, order |-> NoOrder, renewal |-> NoOrder]
  /\ expires' = Until(p)
  /\ UNCHANGED <<order, expected, request, wallet, revoked, enabled, queue, period, pendingReset, sites, now, periods>>

ExtendByOwner(days) ==
  /\ MayEdit
  /\ expires' = Later(now, expires) + days
  /\ UNCHANGED <<order, expected, request, wallet, revoked, ent, enabled, queue, period, pendingReset, sites, now, periods>>

ResetByOwner ==
  /\ MayEdit
  /\ pendingReset' = TRUE
  /\ UNCHANGED <<order, expected, request, wallet, revoked, ent, expires, enabled, queue, period, sites, now, periods>>

(* changeUser: the account form, refused while an order is open.           *)
SetEnabled(on) ==
  /\ Active = {}
  /\ Intervene
  /\ enabled' = on
  /\ UNCHANGED <<order, expected, request, wallet, revoked, ent, expires, queue, period, pendingReset, sites, now, periods>>
-----------------------------------------------------------------------------
(* Business sites.                                                         *)

(* User.Active, as far as the model goes: the quota may also be used up.   *)
MemberActive == enabled /\ InForce /\ ~pendingReset

(* businessSnapshot, syncMount: the grant is written down as issued before *)
(* it is sent; a snapshot without the member asks the site to withdraw.    *)
SendSnapshot(s, with) ==
  /\ with => MemberActive
  /\ sent' = [sent EXCEPT ![s] = IF with THEN period ELSE 0]
  /\ issued' = [issued EXCEPT ![s] = @ \union (IF with THEN {period} ELSE {})]
  /\ UNCHANGED <<order, expected, request, wallet, revoked, user, now, bounds>>

(* The site reports the latest snapshot applied, with its final usage.     *)
Acknowledge(s) ==
  /\ issued' = [issued EXCEPT ![s] = {sent[s]} \ {0}]
  /\ UNCHANGED <<order, expected, request, wallet, revoked, user, sent, now, bounds>>

Tick == /\ now < Horizon
        /\ now' = now + 1
        /\ UNCHANGED <<order, expected, request, wallet, revoked, user, sites, bounds>>
-----------------------------------------------------------------------------
Member == \/ \E o \in Orders : \/ \E p \in Plans : CreateOrder(o, p)
                               \/ Confirm(o)
                               \/ CancelPending(o)
                               \/ CancelProvisioning(o)
                               \/ RequestRefund(o)
                               \/ CloseRequest(o, "cancelled")
          \/ \E c \in Credits : RedeemCode(c)

Owner == \/ \E c \in Credits : AdjustBalance(c) \/ RevokeCode(c)
         \/ \E o \in Orders : \/ CloseRequest(o, "rejected")
                              \/ \E a \in 0..Limit : RefundCurrent(o, a)
                              \/ RefundQueued(o)
         \/ \E p \in Plans : AssignPlan(p)
         \/ ExtendByOwner(1)
         \/ ResetByOwner
         \/ \E on \in BOOLEAN : SetEnabled(on)

Process(o) == \/ ExpireOrder(o)
              \/ FailProvisioning(o)
              \/ FulfilPurchase(o)
              \/ FulfilRenewal(o)
              \/ FulfilRefund(o)

AdvanceQuotaPeriods == StopRunOut \/ RestorePreviousPlan \/ PeriodEnds \/ StartPeriod

SiteStep(s) == Acknowledge(s) \/ \E with \in BOOLEAN : SendSnapshot(s, with)

Next == \/ Member
        \/ Owner
        \/ \E o \in Orders : Process(o)
        \/ AdvanceQuotaPeriods
        \/ \E s \in Sites : SiteStep(s)
        \/ Tick

Spec == Init /\ [][Next]_vars
-----------------------------------------------------------------------------
(* Safety.                                                                 *)

(* The partial unique index and the checks before it: a member never has   *)
(* two orders between creation and outcome, whoever races whom.            *)
OneActiveOrder == \A o, q \in Active : o = q

(* validateCommerce, "held balance does not match orders": the frozen      *)
(* balance is exactly the price of the order being provisioned.            *)
HeldMatchesOrder ==
  /\ \A o \in Orders : order[o].state = "provisioning" => held = PriceOf(o)
  /\ (\A o \in Orders : order[o].state # "provisioning") => held = 0

(* What postMoney wrote for an order is what its state says: frozen once,  *)
(* then given back or spent, never both, and refunded only after that.  So *)
(* no retry of the worker can meet its own event key.                      *)
KeysOf(o) == {k \in {"hold", "release", "capture", "refund"} : <<k, o>> \in posted}
LedgerOf(o) ==
  /\ order[o].state \in {"new", "pending", "expired"} => KeysOf(o) = {}
  /\ order[o].state \in {"cancelled", "failed"} => KeysOf(o) \in {{}, {"hold", "release"}}
  /\ order[o].state = "provisioning" =>
       KeysOf(o) = IF PriceOf(o) > 0 THEN {"hold"} ELSE {}
  /\ order[o].state \in {"completed", "refunding"} =>
       KeysOf(o) = IF PriceOf(o) > 0 THEN {"hold", "capture"} ELSE {}
  /\ order[o].state = "refunded" =>
       KeysOf(o) = (IF PriceOf(o) > 0 THEN {"hold", "capture"} ELSE {})
                     \union (IF order[o].refund > 0 THEN {"refund"} ELSE {})
LedgerMatchesOrder == \A o \in Orders : LedgerOf(o)

(* From confirmation to the switch, and from approval to the refund, the   *)
(* member is stopped: no site can be given new quota of the old plan.      *)
StoppedWhileSwitching ==
  \A o \in Switching : order[o].action = "purchase" \/ order[o].state = "refunding"
                         => pendingReset

(* No order is ever provisioned for a disabled member: the branch of       *)
(* fulfilOrder that would fail such an order (and is no action here) is    *)
(* dead, since every handler that disables a member refuses while an order *)
(* is open.                                                                *)
EnabledWhileProvisioning ==
  \A o \in Orders : order[o].state = "provisioning" => enabled

(* "Only an acknowledged revocation with final lifetime watermarks         *)
(* releases old grants": a site never holds quota of a period that is not  *)
(* the member's current one, through switches, restorations and resets.    *)
QuotaOfOnePeriod ==
  \A s \in Sites : ({sent[s]} \union issued[s]) \ {0} \subseteq {period}

(* A purchase has one place in the chain, and only what was paid for and   *)
(* not given up has one.                                                   *)
EachOrderServesOnce ==
  /\ \A o \in Orders : Cardinality(QueuedAt(o)) + (IF IsCurrent(o) THEN 1 ELSE 0) <= 1
  /\ \A o \in Orders : Located(o) => order[o].state \in {"completed", "refunding", "refunded"}

(* A refund request stays open only while it can be decided, and is        *)
(* approved only with its refund.                                          *)
RequestFollowsOrder ==
  \A o \in Orders : /\ request[o] = "requested" => order[o].state = "completed"
                    /\ request[o] = "approved" => order[o].state \in {"refunding", "refunded"}

(* A refunded purchase serves nothing: neither now nor from the queue.     *)
RefundedServesNothing ==
  \A o \in Orders : order[o].state = "refunded" /\ order[o].action = "purchase"
                      => QueuedAt(o) = {} /\ (IsCurrent(o) => ~InForce)
-----------------------------------------------------------------------------
(* What a step may never do.                                               *)

Left(until, since) == IF until > since THEN until - since ELSE 0
(* The days of service the member's plans still have, the paused included. *)
TimeIn(q) == SumFunction([i \in DOMAIN q |-> Left(q[i].expires, q[i].paused)])
TimeLeft == (IF ent = NoEntitlement THEN 0 ELSE Left(expires, now)) + TimeIn(queue)

Ends(o, state) == order[o].state # state /\ order'[o].state = state

(* Service time is bought by orders and used by the clock, and lost in no  *)
(* other way: pausing, restoring, resetting, cancelling and disabling keep *)
(* every day of every plan in the chain.                                   *)
ServiceTimeConserved ==
  [][\/ \E o \in Orders : /\ Ends(o, "completed")
                          /\ TimeLeft' = TimeLeft + Days[order[o].plan]
     \/ \E o \in Orders : Ends(o, "refunded")
     \/ now' = now + 1 /\ TimeLeft - TimeLeft' \in {0, 1}
     \/ MayEdit
     \/ TimeLeft' = TimeLeft]_vars

(* A renewal extends the plan it was ordered for, whatever ran out, was    *)
(* restored or was reassigned between the order and its confirmation.      *)
RenewalExtendsItsPlan ==
  [][\A o \in Orders : Ends(o, "completed") => ent'.plan = order[o].plan]_vars
-----------------------------------------------------------------------------
(* Liveness, with the worker ticking every five seconds and the clock.     *)

Fairness == /\ \A o \in Orders : WF_vars(Process(o))
            /\ WF_vars(StopRunOut \/ RestorePreviousPlan \/ StartPeriod)
            /\ WF_vars(Tick)

SiteFairness == \A s \in Sites : /\ WF_vars(SendSnapshot(s, FALSE) /\ ~MemberActive /\ sent[s] # 0)
                                 /\ WF_vars(Acknowledge(s))

FairSpec == Spec /\ Fairness

(* "After 30 minutes the wallet is unfrozen": what was frozen is given back *)
(* or spent, even when the sites stay offline for ever.                     *)
FrozenMoneyMoves ==
  \A o \in Orders : <<"hold", o>> \in posted ~>
                     {<<"release", o>>, <<"capture", o>>} \intersect posted # {}

(* With sites that come back, an approved refund is paid and a stopped     *)
(* member is served again, unless from some moment on the wallet has no    *)
(* room for the refund: postMoney refuses it then, the worker tries again  *)
(* for ever, and the member stays stopped.                                 *)
HasNoRoom(o) == available + held + order[o].refund > Limit
RefundIsPaid ==
  SiteFairness => \A o \in Orders :
    order[o].state = "refunding" ~> (order[o].state = "refunded" \/ []HasNoRoom(o))
ResetEnds ==
  SiteFairness =>
    (pendingReset ~> (\/ ~pendingReset
                      \/ [](\E o \in Orders : order[o].state = "refunding" /\ HasNoRoom(o))))
-----------------------------------------------------------------------------
(* Commerce keeps the promises of Wallet.                                  *)

MoneyOf(o) == CASE order[o].state \in {"new", "pending"} -> "open"
                [] order[o].state = "provisioning" -> "held"
                [] order[o].state \in {"completed", "refunding"} -> "spent"
                [] OTHER -> "closed"
Promise == INSTANCE Wallet WITH
  phase <- [o \in Orders |-> MoneyOf(o)],
  amount <- [o \in Orders |-> IF MoneyOf(o) \in {"held", "spent"} THEN PriceOf(o) ELSE 0]
(* Every step of an order and of the wallet is one Wallet allows.          *)
WalletPromise == Promise!WalletSpec
=============================================================================
