----------------------------- MODULE SiteGrants -----------------------------
(* One member's quota shared among business sites that pull their policy.  *)
(* A site reports what its cores measured and what it has applied; in the  *)
(* same request the panel charges the traffic, releases the quota an       *)
(* acknowledged policy no longer holds, and answers with a new policy.     *)
(* Reports and answers can be lost, a site can fail or die while it        *)
(* applies a policy, and traffic of a closed period can come late.  A      *)
(* revision is a digest of a policy's content, so it is the content here.  *)
(* Members share no state: one is modelled, with all rates at one.         *)
EXTENDS Integers, FiniteSets, Functions

CONSTANTS Sites,        \* business sites, enrolled
          FirstQuota,   \* the member's quota at first
          Quotas,       \* quotas the owner may give him; 0 is unlimited
          Ceilings,     \* ceilings of a site's grant; 0 is unlimited
          FirstGranted, \* sites with a grant before they first ask
          LastPeriod,   \* bound on quota periods
          MaxTraffic,   \* bound on the traffic of one site, and of the panel
          MaxUpsets     \* bound on the owner's changes and on applications
                        \* of a policy that fail, together

ASSUME GrantsAssumption ==
  /\ IsFiniteSet(Sites)
  /\ Quotas \union {FirstQuota} \subseteq Nat
  /\ Ceilings \subseteq Nat /\ FirstGranted \in Nat
  /\ LastPeriod \in Nat \ {0}
  /\ {MaxTraffic, MaxUpsets} \subseteq Nat

VARIABLES member,  \* the member's document at the panel
          closed,  \* quota_periods: the figure a closed period was billed
          site,    \* the panel's record of each site (BusinessSite)
          agent,   \* what each site keeps: its users, rows and agent state
          wire,    \* the request of a site, and its answer
          localUse, \* what the panel's own core measured, by period
          changes, failures

GrantsVars == <<member, closed, site, agent, wire, localUse, changes, failures>>
-----------------------------------------------------------------------------
Periods == 1..LastPeriod
NoQuota == -1                 \* not granted, not issued, no row in a report
Limits == Nat \union {NoQuota}

(* What a snapshot says of the member.  Withdrawn has no row for him.      *)
Policies == [quota : Limits, period : Periods \union {0}]
Withdrawn == [quota |-> NoQuota, period |-> 0]
Unapplied == [quota |-> NoQuota, period |-> -1]  \* revision ""
Revisions == Policies \union {Unapplied}

Rows == [Periods -> Nat]      \* measured traffic, by quota period
NoRows == [p \in Periods |-> 0]

(* used: the total of BusinessHeartbeat.Usage, NoQuota when the member is  *)
(* not in it.  rows: only those not acknowledged yet.                      *)
Reports == [applied : Revisions, used : Limits, rows : [Periods -> Limits]]
Answers == [policy : Policies, ack : [Periods -> Limits]]
Idle == <<>>

(* The type invariant of SiteGrants.                                       *)
GrantsTypeOK ==
  /\ member \in [quota : Nat, meter : Nat, base : Nat, period : Periods,
                 pending : BOOLEAN]
  /\ closed \in [Periods -> Limits]
  /\ site \in [Sites -> [grant : Limits, budget : Nat, enabled : BOOLEAN,
                         removed : BOOLEAN, issued : Limits,
                         unlimited : BOOLEAN, sent : Limits,
                         desired : Revisions, used : Limits, rows : Rows]]
  /\ agent \in [Sites -> [known : BOOLEAN, quota : Limits, lease : BOOLEAN,
                          period : Periods \union {0}, torn : BOOLEAN,
                          applied : Revisions, flow : Nat,
                          rows : Rows, acked : Rows]]
  /\ wire \in [Sites -> Reports \union Answers \union {Idle}]
  /\ localUse \in Rows
  /\ {changes, failures} \subseteq Nat

GrantsInit ==
  /\ member = [quota |-> FirstQuota, meter |-> 0, base |-> 0, period |-> 1,
               pending |-> FALSE]
  /\ closed = [p \in Periods |-> NoQuota]
  /\ \E granted \in SUBSET Sites, q \in Ceilings :
       /\ Cardinality(granted) = FirstGranted
       /\ site = [s \in Sites |->
            [grant |-> IF s \in granted THEN q ELSE NoQuota,
             budget |-> IF s \in granted THEN q ELSE 0, enabled |-> TRUE,
             removed |-> FALSE, issued |-> NoQuota, unlimited |-> FALSE,
             sent |-> NoQuota, desired |-> Unapplied, used |-> NoQuota,
             rows |-> NoRows]]
  /\ agent = [s \in Sites |->
       [known |-> FALSE, quota |-> NoQuota, lease |-> FALSE, period |-> 0,
        torn |-> FALSE, applied |-> Unapplied, flow |-> 0,
        rows |-> NoRows, acked |-> NoRows]]
  /\ wire = [s \in Sites |-> Idle]
  /\ localUse = NoRows
  /\ changes = 0 /\ failures = 0
-----------------------------------------------------------------------------
Reporting(s) == wire[s] # Idle /\ "applied" \in DOMAIN wire[s]
Answered(s) == wire[s] # Idle /\ "policy" \in DOMAIN wire[s]

Total(rows) == SumFunction(rows)
AtLeastZero(n) == IF n < 0 THEN 0 ELSE n

QuotaUsed(m) == m.meter - m.base
Active(m) == ~m.pending /\ (m.quota = 0 \/ QuotaUsed(m) < m.quota)

Used(v) == AtLeastZero(v.used)

(* siteRuntimeReservation: issued and not yet accounted for.               *)
Reserved(v) == IF v.unlimited THEN 0 ELSE AtLeastZero(v.issued - Used(v))
ReservedAt(S) == SumFunctionOnSet([t \in Sites |-> Reserved(site[t])], S)

(* Mutant: another site's reservation is not kept for it.                  *)
RemainingUnshared(m, s) == AtLeastZero(m.quota - QuotaUsed(m))

(* What member m, who has a quota, has left for site s.                    *)
Remaining(m, s) ==
  IF \E t \in Sites \ {s} : site[t].unlimited THEN 0
  ELSE AtLeastZero(AtLeastZero(m.quota - QuotaUsed(m)) - ReservedAt(Sites \ {s}))

(* The configured ceiling of v, the record of site s, capped by what the   *)
(* member has left: a ceiling on the traffic of all periods at that site.  *)
EffectiveQuota(m, s, v) ==
  LET left == Remaining(m, s)
      most == Used(v) + left
  IN IF v.grant = NoQuota \/ (v.grant > 0 /\ Used(v) >= v.grant) THEN NoQuota
     ELSE IF m.quota = 0 THEN v.grant
     ELSE IF left = 0 THEN NoQuota
     ELSE IF v.grant = 0 \/ v.grant > most THEN most ELSE v.grant

(* businessSnapshot: the policy to send, and the record that remembers it  *)
(* as sent and keeps the larger of the ceilings issued.                    *)
Snapshot(m, s, v) ==
  LET q == IF v.enabled /\ Active(m) THEN EffectiveQuota(m, s, v) ELSE NoQuota
      policy == IF q = NoQuota THEN Withdrawn
                ELSE [quota |-> q, period |-> m.period]
  IN [v EXCEPT !.desired = policy, !.sent = q,
               !.unlimited = @ \/ q = 0,
               !.issued = IF q > 0 /\ q > @ THEN q ELSE @]
-----------------------------------------------------------------------------
(* The panel's half of a synchronisation.                                  *)

Fresh(v, r, p) == IF r.rows[p] = NoQuota THEN 0 ELSE r.rows[p] - v.rows[p]
FreshIn(v, r, ps) == SumFunctionOnSet([p \in Periods |-> Fresh(v, r, p)], ps)

(* Mutant: any revision releases what was issued.                          *)
AcknowledgesAny(v, r) == r.applied # Unapplied

(* What a report brings of periods that are over.                          *)
Past == {p \in Periods : closed[p] # NoQuota}
Late(v, r) == FreshIn(v, r, Past)

(* The last revision is applied: what was issued before it is released.    *)
Acknowledges(v, r) == r.applied # Unapplied /\ r.applied = v.desired

(* verifyBusinessMeter and the checks of acceptBusinessUsage: watermarks   *)
(* only rise, the total is the sum of the rows, the member was assigned,   *)
(* and an acknowledgement brings the watermark of everybody it concerns.   *)
Accepted(v, r) ==
  /\ \A p \in Periods : Fresh(v, r, p) >= 0
  /\ r.used # NoQuota =>
       /\ r.used = Used(v) + FreshIn(v, r, Periods)
       /\ v.used # NoQuota \/ v.sent # NoQuota \/ v.issued # NoQuota
  /\ Acknowledges(v, r) /\ r.used = NoQuota =>
       /\ {v.issued, v.sent, v.used} = {NoQuota}
       /\ ~v.unlimited

Raised(limit, n) == IF limit > 0 THEN limit + n ELSE limit

(* The site's record after its report.  Traffic of a closed period raises  *)
(* its ceilings with its watermark, so that it takes nothing from them.    *)
Accounted(v, r, late) ==
  LET sent == Raised(v.sent, late)
      charged == [v EXCEPT !.used = IF r.used = NoQuota THEN @ ELSE r.used,
                           !.rows = [p \in Periods |-> @[p] + Fresh(v, r, p)],
                           !.grant = Raised(@, late), !.sent = sent,
                           !.issued = Raised(@, late)]
  IN IF Acknowledges(v, r)
     THEN [charged EXCEPT !.issued = sent, !.unlimited = sent = 0]
     ELSE charged

(* The member is charged; what belongs to a closed period is not used up   *)
(* in this one.                                                            *)
Charged(fresh, late) ==
  [member EXCEPT !.meter = @ + fresh, !.base = @ + late]

(* What the closed periods were billed, with what a report brings of them. *)
Rebilled(v, r) ==
  [p \in Periods |-> IF p \in Past THEN closed[p] + Fresh(v, r, p) ELSE closed[p]]

(* businessSync.  A request given up by the site is handled before its     *)
(* next one, or never.                                                     *)
AcceptReport(s) ==
  LET v == site[s]
      r == wire[s]
      late == Late(v, r)
      m == Charged(FreshIn(v, r, Periods), late)
      w == Snapshot(m, s, Accounted(v, r, late))
  IN /\ Reporting(s) /\ Accepted(v, r)
     /\ member' = m
     /\ closed' = Rebilled(v, r)
     /\ site' = [site EXCEPT ![s] = w]
     /\ wire' = [wire EXCEPT ![s] = [policy |-> w.desired, ack |-> r.rows]]
     /\ UNCHANGED <<agent, localUse, changes, failures>>

(* businessSync commits the traffic before it makes a policy: the panel    *)
(* stops between the two, or cannot make one.                              *)
LeaveUnanswered(s) ==
  LET v == site[s]
      r == wire[s]
      late == Late(v, r)
  IN /\ Reporting(s) /\ Accepted(v, r)
     /\ member' = Charged(FreshIn(v, r, Periods), late)
     /\ closed' = Rebilled(v, r)
     /\ site' = [site EXCEPT ![s] = Accounted(v, r, late)]
     /\ wire' = [wire EXCEPT ![s] = Idle]
     /\ UNCHANGED <<agent, localUse, changes, failures>>

RefuseReport(s) ==
  /\ Reporting(s) /\ ~Accepted(site[s], wire[s])
  /\ wire' = [wire EXCEPT ![s] = Idle]
  /\ UNCHANGED <<member, closed, site, agent, localUse, changes, failures>>
-----------------------------------------------------------------------------
(* The owner and the clock, at the panel.                                  *)

Change == changes + failures < MaxUpsets /\ changes' = changes + 1

SetGrant(s, q) ==
  /\ ~site[s].removed
  /\ q # NoQuota => ~member.pending
  /\ q # site[s].grant
  /\ site' = [site EXCEPT ![s].grant = q,
                         ![s].budget = AtLeastZero(q - Used(site[s]))]
  /\ Change
  /\ UNCHANGED <<member, closed, agent, wire, localUse, failures>>

(* A site is switched off, or its budget of the month is used up, and on.  *)
ToggleSite(s) ==
  /\ ~site[s].removed
  /\ site' = [site EXCEPT ![s].enabled = ~@]
  /\ Change
  /\ UNCHANGED <<member, closed, agent, wire, localUse, failures>>

RemoveSite(s) ==
  /\ ~site[s].removed
  /\ site' = [site EXCEPT ![s].removed = TRUE, ![s].enabled = FALSE,
                         ![s].grant = NoQuota]
  /\ Change
  /\ UNCHANGED <<member, closed, agent, wire, localUse, failures>>

SetQuota(q) ==
  /\ q # member.quota
  /\ member' = [member EXCEPT !.quota = q]
  /\ Change
  /\ UNCHANGED <<closed, site, agent, wire, localUse, failures>>

(* The period is over, or the owner resets it: the member stops everywhere.*)
StopMember ==
  /\ ~member.pending /\ member.period < LastPeriod
  /\ member' = [member EXCEPT !.pending = TRUE]
  /\ UNCHANGED <<closed, site, agent, wire, localUse, changes, failures>>

(* advanceQuotaPeriods, once no site holds anything issued to him.         *)
TurnPeriod ==
  /\ member.pending
  /\ \A s \in Sites : /\ site[s].issued = NoQuota /\ ~site[s].unlimited
                      /\ site[s].sent = NoQuota
  /\ closed' = [closed EXCEPT ![member.period] = QuotaUsed(member)]
  /\ member' = [member EXCEPT !.period = @ + 1, !.base = member.meter,
                             !.pending = FALSE]
  /\ site' = [s \in Sites |->
       LET v == site[s]
           budget == IF v.budget = 0 /\ v.grant > 0 THEN v.grant ELSE v.budget
       IN IF v.grant = NoQuota THEN v
          ELSE [v EXCEPT !.budget = budget,
                         !.grant = IF @ > 0 THEN Used(v) + budget ELSE @]]
  /\ UNCHANGED <<agent, wire, localUse, changes, failures>>

(* The panel's own core serves him from what the sites do not hold.        *)
LocalTraffic ==
  /\ Active(member)
  /\ member.quota > 0 =>
       /\ \A s \in Sites : ~site[s].unlimited
       /\ QuotaUsed(member) + ReservedAt(Sites) < member.quota
  /\ Total(localUse) < MaxTraffic
  /\ localUse' = [localUse EXCEPT ![member.period] = @ + 1]
  /\ member' = [member EXCEPT !.meter = @ + 1]
  /\ UNCHANGED <<closed, site, agent, wire, changes, failures>>
-----------------------------------------------------------------------------
(* A site.                                                                 *)

SiteTraffic(s) ==
  LET a == agent[s] IN
  /\ a.lease /\ a.quota # NoQuota
  /\ a.quota > 0 => Total(a.rows) + a.flow < a.quota
  /\ Total(a.rows) + a.flow < MaxTraffic
  /\ agent' = [agent EXCEPT ![s].flow = @ + 1]
  /\ UNCHANGED <<member, closed, site, wire, localUse, changes, failures>>

(* What a site may find when it collects its cores' counters: all, or      *)
(* nothing when the cores do not answer, which a site without a lease      *)
(* accepts.                                                                *)
Collected(a) ==
  (IF a.known THEN {[a EXCEPT !.rows[a.period] = @ + a.flow, !.flow = 0]} ELSE {a})
  \union (IF a.lease THEN {} ELSE {a})

(* The periodic sample, which may come while an answer is awaited.         *)
Sample(s) ==
  /\ agent[s].known /\ agent[s].flow > 0
  /\ \E a \in Collected(agent[s]) : agent' = [agent EXCEPT ![s] = a]
  /\ UNCHANGED <<member, closed, site, wire, localUse, changes, failures>>

(* pendingNodeUsage.                                                       *)
Pending(a) == [p \in Periods |->
                IF a.rows[p] > a.acked[p] THEN a.rows[p] ELSE NoQuota]

(* syncBusinessAgent: collect, and report what is not acknowledged.        *)
SendReport(s) ==
  /\ wire[s] = Idle
  /\ \E a \in Collected(agent[s]) :
       /\ agent' = [agent EXCEPT ![s] = a]
       /\ wire' = [wire EXCEPT ![s] =
            [applied |-> a.applied,
             used |-> IF a.known THEN Total(a.rows) ELSE NoQuota,
             rows |-> Pending(a)]]
  /\ UNCHANGED <<member, closed, site, localUse, changes, failures>>

(* The request or its answer is lost, or the site restarts.                *)
LoseMessage(s) ==
  /\ wire[s] # Idle
  /\ wire' = [wire EXCEPT ![s] = Idle]
  /\ UNCHANGED <<member, closed, site, agent, localUse, changes, failures>>

LeaseExpires(s) ==
  /\ agent[s].lease
  /\ agent' = [agent EXCEPT ![s].lease = FALSE]
  /\ UNCHANGED <<member, closed, site, wire, localUse, changes, failures>>

(* Mutant: what was measured since the report is taken for acknowledged.   *)
AckedAll(a, ack) == [a EXCEPT !.acked = a.rows]

(* ackBusinessUsage.                                                       *)
Acked(a, ack) == [a EXCEPT !.acked = [p \in Periods |->
                    IF ack[p] = NoQuota THEN @[p] ELSE ack[p]]]

(* replaceBusinessState: a member who is not in the policy is retired.     *)
Replaced(a, policy) ==
  IF policy.quota = NoQuota THEN [a EXCEPT !.quota = NoQuota]
  ELSE [a EXCEPT !.known = TRUE, !.quota = policy.quota, !.period = policy.period]

(* The previous policy, with the counters of the new one; a member whose   *)
(* period has turned, or who is new, stays withdrawn.                      *)
RolledBack(a, policy) ==
  IF policy.quota = NoQuota THEN a
  ELSE [a EXCEPT !.known = TRUE, !.period = policy.period,
                 !.quota = IF a.period = policy.period THEN @ ELSE NoQuota]

(* applyBusinessSnapshot, in each of its outcomes.                         *)
Answer(s) == wire[s].policy
Informed(s) == Acked(agent[s], wire[s].ack)

(* The revision is in force already: its lease is extended.                *)
KeepPolicy(s) ==
  /\ Answered(s) /\ agent[s].applied = Answer(s)
  /\ agent' = [agent EXCEPT ![s] = [Informed(s) EXCEPT !.lease = TRUE]]
  /\ wire' = [wire EXCEPT ![s] = Idle]
  /\ UNCHANGED <<member, closed, site, localUse, changes, failures>>

AdoptPolicy(s) ==
  /\ Answered(s) /\ agent[s].applied # Answer(s)
  /\ \E a \in Collected(Informed(s)) :
       agent' = [agent EXCEPT ![s] =
         [Replaced(a, Answer(s)) EXCEPT !.applied = Answer(s), !.lease = TRUE,
                                        !.torn = FALSE]]
  /\ wire' = [wire EXCEPT ![s] = Idle]
  /\ UNCHANGED <<member, closed, site, localUse, changes, failures>>

(* The acknowledgement is saved first.  A site that cannot collect, or that *)
(* finds the policy invalid, keeps its own.                                *)
RejectPolicy(s) ==
  /\ Answered(s) /\ agent[s].applied # Answer(s)
  /\ \E a \in Collected(Informed(s)) \union {Informed(s)} :
       agent' = [agent EXCEPT ![s] = a]
  /\ wire' = [wire EXCEPT ![s] = Idle]
  /\ UNCHANGED <<member, closed, site, localUse, changes, failures>>

(* The revision is saved last.  A site that fails before goes back to its  *)
(* previous policy; one that dies, or cannot go back, is left with the new *)
(* one under the old revision.                                             *)
FailPolicy(s) ==
  /\ Answered(s) /\ agent[s].applied # Answer(s)
  /\ changes + failures < MaxUpsets
  /\ failures' = failures + 1
  /\ \E a \in Collected(Informed(s)) :
       \/ agent' = [agent EXCEPT ![s] = RolledBack(a, Answer(s))]
       \/ \E lease \in BOOLEAN :
            agent' = [agent EXCEPT ![s] =
              [Replaced(a, Answer(s)) EXCEPT !.lease = lease, !.torn = TRUE]]
  /\ wire' = [wire EXCEPT ![s] = Idle]
  /\ UNCHANGED <<member, closed, site, localUse, changes>>
-----------------------------------------------------------------------------
GrantsNext ==
  \/ \E s \in Sites :
       \/ AcceptReport(s) \/ LeaveUnanswered(s) \/ RefuseReport(s)
       \/ \E q \in Ceilings \union {NoQuota} : SetGrant(s, q)
       \/ ToggleSite(s) \/ RemoveSite(s)
       \/ SiteTraffic(s) \/ Sample(s) \/ SendReport(s) \/ LoseMessage(s)
       \/ LeaseExpires(s) \/ KeepPolicy(s) \/ AdoptPolicy(s)
       \/ RejectPolicy(s) \/ FailPolicy(s)
  \/ \E q \in Quotas : SetQuota(q)
  \/ StopMember \/ TurnPeriod \/ LocalTraffic

GrantsSpec == GrantsInit /\ [][GrantsNext]_GrantsVars
-----------------------------------------------------------------------------
(* What a site may spend, now or once its answer arrives, is reserved at   *)
(* the panel (businessSnapshot keeps the largest ceiling issued until a    *)
(* report acknowledges the last policy).  A site that died between its     *)
(* policy and its revision is the exception: see README.                   *)
ReservationCoversSite ==
  LET Covered(s, q) == \/ q = NoQuota \/ site[s].unlimited
                       \/ q > 0 /\ q <= site[s].issued
  IN \A s \in DOMAIN site : /\ Covered(s, agent[s].quota) \/ agent[s].torn
                            /\ Answered(s) => Covered(s, wire[s].policy.quota)

(* A ceiling that is raised fits, with every other site's reservation, in  *)
(* what the member has left (effectiveBusinessSnapshotGrant).              *)
IssuedWithinQuota ==
  [][ \A s \in DOMAIN site :
        /\ member'.quota > 0 /\ ~site[s].unlimited
        /\ Reserved(site'[s]) > Reserved(site[s])
        => ReservedAt(Sites)' <= member'.quota - QuotaUsed(member') ]_GrantsVars

(* Every period is billed what was measured in it, at any site, exactly    *)
(* once, also when the report came after it was closed                     *)
(* (reconcileClosedBusinessUsage), and a site forgets no row the panel has *)
(* not taken (ackBusinessUsage).                                           *)
TrafficIsBilledOnce ==
  LET Measured(p) == localUse[p] + SumFunctionOnSet([s \in Sites |-> site[s].rows[p]], Sites)
  IN \A p \in DOMAIN closed :
       /\ closed[p] # NoQuota => closed[p] = Measured(p)
       /\ p = member.period => QuotaUsed(member) = Measured(p)
       /\ \A s \in Sites : /\ agent[s].acked[p] <= site[s].rows[p]
                           /\ site[s].rows[p] <= agent[s].rows[p]
=============================================================================
