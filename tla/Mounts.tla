-------------------------------- MODULE Mounts --------------------------------
(* A node pool of a child panel mounted at a main panel, for one member.   *)
(* The main panel pushes: under a lock of the mount it reserves a share of *)
(* the member's quota, takes it from its own core, and sends a numbered    *)
(* request; the child applies it, collects what its cores measured and     *)
(* answers with its counters, which settle what was reserved.  Requests    *)
(* and answers can be lost or late, and a proxy in between can deliver a   *)
(* request twice.  A core stops at the limit it was last given.            *)
(* Other sites of the member are in SiteGrants; rates are one, and what    *)
(* subscriptions show of the mount is left out.                            *)
EXTENDS Integers, FiniteSets, Functions

CONSTANTS PlanQuota,      \* the member's quota of a period
          LocalNodes,     \* whether the main panel has nodes for him too
          LastCycle,      \* bound on quota periods
          LastSequence,   \* bound on the requests of the main panel
          MaxEdits        \* bound on changes by the owners of both panels

ASSUME MountsAssumption ==
  /\ PlanQuota \in Nat \ {0} /\ LocalNodes \in BOOLEAN
  /\ LastCycle \in Nat \ {0} /\ {LastSequence, MaxEdits} \subseteq Nat

VARIABLES holder,    \* the member's document at the main panel
          mount,     \* the main panel's record of the site (SiteMount)
          hostLimit, \* the limit the main panel's core enforces
          child,     \* the child's binding and the identity it delegates
          childCore, \* the limit the child's core enforces for it
          requests,  \* requests that may still arrive
          results,   \* the answer the call under way will get, if any
          spent,     \* what the cores of both panels served, by period
          edits

MountsVars == <<holder, mount, hostLimit, child, childCore, requests, results,
                spent, edits>>
-----------------------------------------------------------------------------
Cycles == 1..LastCycle
Unlisted == -1                \* no such grant, user or admission
Ceiling == Nat \union {Unlisted}
Meter == [Cycles -> Nat]
NoMeter == [c \in Cycles |-> 0]

(* MountSync.  quota is Unlisted when the member is not among its users.   *)
MountRequest == [seq : Nat, quota : Ceiling, cycle : Cycles, floor : Nat,
                 catalog : Nat]
(* MountResult: the child's counters, if it has an identity for him.       *)
MountResult == [known : BOOLEAN, rows : Meter]
NeverSynced == [seq |-> 0, quota |-> Unlisted, cycle |-> 1, floor |-> 0,
                catalog |-> 0]

(* The type invariant of Mounts.  calling: no call, one, or one whose site *)
(* was changed since.                                                      *)
MountsTypeOK ==
  /\ holder \in [enabled : BOOLEAN, pending : BOOLEAN, cycle : Cycles, used : Nat]
  /\ mount \in [seq : Nat, shared : BOOLEAN, grant : Ceiling, issued : Ceiling,
                sent : Ceiling, rows : Meter, known : BOOLEAN,
                calling : {"no", "yes", "outdated"}]
  /\ hostLimit \in Nat
  /\ child \in [last : MountRequest, known : BOOLEAN, cycle : Cycles,
                quota : Ceiling, lease : BOOLEAN, rows : Meter,
                catalog : Nat, paused : BOOLEAN]
  /\ childCore \in Ceiling
  /\ requests \subseteq MountRequest
  /\ results \subseteq MountResult
  /\ spent \in Meter
  /\ edits \in Nat

MountsInit ==
  /\ holder = [enabled |-> TRUE, pending |-> FALSE, cycle |-> 1, used |-> 0]
  /\ mount = [seq |-> 0, shared |-> TRUE, grant |-> Unlisted,
              issued |-> Unlisted, sent |-> Unlisted, rows |-> NoMeter,
              known |-> FALSE, calling |-> "no"]
  /\ hostLimit = IF LocalNodes THEN PlanQuota ELSE 0
  /\ child = [last |-> NeverSynced, known |-> FALSE, cycle |-> 1,
              quota |-> Unlisted, lease |-> FALSE, rows |-> NoMeter,
              catalog |-> 1, paused |-> FALSE]
  /\ childCore = Unlisted
  /\ requests = {} /\ results = {}
  /\ spent = NoMeter
  /\ edits = 0
-----------------------------------------------------------------------------
(* The main panel.                                                         *)

Sum(meter) == SumFunction(meter)
Larger(x, y) == IF x > y THEN x ELSE y
Lesser(x, y) == IF x < y THEN x ELSE y

MayServe(h) == h.enabled /\ ~h.pending /\ h.used < PlanQuota

Held(v) == Larger(0, v.issued - Sum(v.rows))

(* coreRecords: the main panel's own core gets what the mount does not     *)
(* hold.                                                                   *)
HostShare(h, v) ==
  IF LocalNodes /\ MayServe(h) /\ Held(v) < PlanQuota THEN PlanQuota - Held(v)
  ELSE 0

(* refreshMountGrants: a share of what is left, and as long as at least    *)
(* half of it is unused the ceiling stays.                                 *)
Budget(h, v) ==
  LET remaining == Larger(0, PlanQuota - h.used)
      shares == IF LocalNodes THEN 2 ELSE 1
      target == Lesser(remaining, Larger(1, remaining \div shares))
      unused == Larger(0, v.grant - Sum(v.rows))
  IN IF unused > 0 /\ unused <= target /\ unused >= Larger(1, target \div 2)
     THEN unused ELSE target

Granted(h, v) ==
  IF v.shared /\ ~child.paused /\ MayServe(h)
  THEN Sum(v.rows) + Budget(h, v) ELSE Unlisted

(* The site's record with the next request reserved.                       *)
Issuing(v, quota) ==
  [v EXCEPT !.seq = @ + 1, !.grant = quota, !.sent = quota,
            !.issued = Larger(@, quota)]

(* syncMountSiteLocked: reserve, take it from the local core, send.  When  *)
(* the local core cannot be told nothing is sent.                          *)
PushMount ==
  LET quota == Granted(holder, mount)
      v == Issuing(mount, quota)
  IN /\ mount.calling = "no" /\ mount.seq < LastSequence
     /\ \/ /\ mount' = [v EXCEPT !.calling = "yes"]
           /\ hostLimit' = HostShare(holder, v)
           /\ requests' = requests \union
                {[seq |-> v.seq, quota |-> quota, cycle |-> holder.cycle,
                  floor |-> Sum(v.rows), catalog |-> child.catalog]}
        \/ mount' = v /\ UNCHANGED <<hostLimit, requests>>
     /\ UNCHANGED <<holder, child, childCore, results, spent, edits>>

(* The call ends without an answer, or before it.                          *)
GiveUpCall ==
  /\ mount.calling # "no"
  /\ mount' = [mount EXCEPT !.calling = "no"]
  /\ results' = {}
  /\ UNCHANGED <<holder, hostLimit, child, childCore, requests, spent, edits>>

(* What an answer must be to be taken: the site was not changed meanwhile, *)
(* no counter falls, and whoever something was issued to is in it.         *)
Credible(r) ==
  /\ mount.calling = "yes"
  /\ \A c \in Cycles : r.rows[c] >= mount.rows[c]
  /\ \/ r.known
     \/ ~mount.known /\ mount.issued = Unlisted /\ mount.sent = Unlisted

(* acceptBusinessUsage, with the request's number as the policy applied:   *)
(* what was reserved before it is released.  Traffic of a period that is   *)
(* over raises the ceilings instead of being charged.                      *)
TakeResult(r) ==
  LET c == holder.cycle
      late == Sum(r.rows) - Sum(mount.rows) - (r.rows[c] - mount.rows[c])
      Shifted(q) == IF q > 0 THEN q + late ELSE q
  IN /\ r \in results /\ Credible(r)
     /\ holder' = [holder EXCEPT !.used = @ + r.rows[c] - mount.rows[c]]
     /\ mount' = [mount EXCEPT !.rows = r.rows, !.known = @ \/ r.known,
                              !.grant = Shifted(@), !.sent = Shifted(@),
                              !.issued = Shifted(mount.sent),
                              !.calling = "no"]
     /\ results' = {}
     /\ UNCHANGED <<hostLimit, child, childCore, requests, spent, edits>>

RefuseResult(r) ==
  /\ r \in results /\ ~Credible(r)
  /\ results' = {}
  /\ mount' = [mount EXCEPT !.calling = "no"]
  /\ UNCHANGED <<holder, hostLimit, child, childCore, requests, spent, edits>>

(* Every sample reconciles the local core.                                 *)
ReconcileHost ==
  /\ hostLimit # HostShare(holder, mount)
  /\ hostLimit' = HostShare(holder, mount)
  /\ UNCHANGED <<holder, mount, child, childCore, requests, results, spent, edits>>

HostTraffic ==
  /\ holder.used < hostLimit
  /\ holder' = [holder EXCEPT !.used = @ + 1]
  /\ spent' = [spent EXCEPT ![holder.cycle] = @ + 1]
  /\ UNCHANGED <<mount, hostLimit, child, childCore, requests, results, edits>>

Edit == edits < MaxEdits /\ edits' = edits + 1

(* PUT of the mount's policy, under the lock that calls are made under:    *)
(* nodes are offered or withdrawn.  The sync it starts is a PushMount.     *)
EditMount ==
  /\ mount.calling = "no"
  /\ mount' = [mount EXCEPT !.shared = ~@,
                           !.grant = IF mount.shared THEN Unlisted ELSE @]
  /\ Edit
  /\ UNCHANGED <<holder, hostLimit, child, childCore, requests, results, spent>>

ToggleHolder ==
  /\ holder' = [holder EXCEPT !.enabled = ~@]
  /\ Edit
  /\ UNCHANGED <<mount, hostLimit, child, childCore, requests, results, spent>>

StopHolder ==
  /\ ~holder.pending /\ holder.cycle < LastCycle
  /\ holder' = [holder EXCEPT !.pending = TRUE]
  /\ UNCHANGED <<mount, hostLimit, child, childCore, requests, results, spent, edits>>

(* advanceQuotaPeriods: once the mount holds nothing issued to him and the *)
(* local core has stopped him.  The site gets a new revision, which an     *)
(* answer under way does not have.                                         *)
TurnCycle ==
  /\ holder.pending /\ mount.issued = Unlisted /\ mount.sent = Unlisted
  /\ holder' = [holder EXCEPT !.pending = FALSE, !.cycle = @ + 1, !.used = 0]
  /\ hostLimit' = 0
  /\ mount' = [mount EXCEPT !.calling =
                 IF mount.grant # Unlisted /\ @ = "yes" THEN "outdated" ELSE @]
  /\ UNCHANGED <<child, childCore, requests, results, spent, edits>>
-----------------------------------------------------------------------------
(* The child.                                                              *)

(* Mutant: an older request is applied like a new one.                     *)
InSequence(m) == m.seq # child.last.seq \/ m = child.last

(* A newer request, or the last one again.                                 *)
Sequenced(m) == m.seq > child.last.seq \/ m = child.last

(* The checks of applyMountSync.                                           *)
Applicable(m) ==
  /\ Sequenced(m)
  /\ m.quota # Unlisted => m.catalog = child.catalog
  /\ Sum(child.rows) >= m.floor
  /\ \/ m.quota = Unlisted \/ child.paused \/ ~child.known
     \/ m.cycle = child.cycle
     \/ child.quota = Unlisted /\ ~child.lease

(* What it commits.  The last request again does not prolong its lease.    *)
Delegated(m) ==
  LET listed == m.quota # Unlisted
      lease == IF m = child.last THEN child.lease ELSE TRUE
  IN [child EXCEPT
        !.last = m, !.known = @ \/ listed,
        !.cycle = IF listed /\ ~child.paused THEN m.cycle ELSE @,
        !.quota = IF child.paused THEN Unlisted ELSE m.quota,
        !.lease = lease /\ listed /\ ~child.paused]

Admitted(d) == IF d.lease /\ ~d.paused THEN d.quota ELSE Unlisted

(* The call that sent m still waits, and has no answer yet.                *)
Awaited(m) == mount.calling # "no" /\ m.seq = mount.seq /\ results = {}

(* applyMountSync: commit, reconcile the cores, answer.  A core that       *)
(* cannot be told leaves what was committed, and no answer.                *)
ApplyRequest(m) ==
  LET d == Delegated(m) IN
  /\ m \in requests /\ Applicable(m)
  /\ child' = d
  /\ \/ /\ childCore' = Admitted(d)
        /\ results' = IF Awaited(m)
             THEN {[known |-> d.known, rows |-> d.rows]}
             ELSE results
     \/ UNCHANGED <<childCore, results>>
  /\ UNCHANGED <<holder, mount, hostLimit, requests, spent, edits>>

(* The child's own sampling reconciles its cores.                          *)
ReconcileChild ==
  /\ childCore # Admitted(child)
  /\ childCore' = Admitted(child)
  /\ UNCHANGED <<holder, mount, hostLimit, child, requests, results, spent, edits>>

(* Its traffic is booked to the period of the identity.                    *)
ChildTraffic ==
  /\ Sum(child.rows) < childCore
  /\ child' = [child EXCEPT !.rows[child.cycle] = @ + 1]
  /\ spent' = [spent EXCEPT ![holder.cycle] = @ + 1]
  /\ UNCHANGED <<holder, mount, hostLimit, childCore, requests, results, edits>>

(* The lease runs out, and the core wrapper stops a core that admits him.  *)
LeaseRunsOut ==
  /\ child.lease
  /\ child' = [child EXCEPT !.lease = FALSE]
  /\ childCore' = Unlisted
  /\ UNCHANGED <<holder, mount, hostLimit, requests, results, spent, edits>>

(* The child's owner pauses or resumes it: the catalog has a new revision. *)
PauseChild ==
  /\ child' = [child EXCEPT !.paused = ~@, !.catalog = @ + 1]
  /\ Edit
  /\ UNCHANGED <<holder, mount, hostLimit, childCore, requests, results, spent>>
-----------------------------------------------------------------------------
MountsNext ==
  \/ PushMount \/ GiveUpCall
  \/ \E r \in results : TakeResult(r) \/ RefuseResult(r)
  \/ ReconcileHost \/ HostTraffic \/ EditMount \/ ToggleHolder
  \/ StopHolder \/ TurnCycle
  \/ \E m \in requests : ApplyRequest(m)
  \/ ReconcileChild \/ ChildTraffic \/ LeaseRunsOut \/ PauseChild

MountsSpec == MountsInit /\ [][MountsNext]_MountsVars
-----------------------------------------------------------------------------
(* Both panels together serve a member no more than his quota in any       *)
(* period: what a late, lost or repeated request may have allowed is       *)
(* reserved until an answer settles it (syncMountSiteLocked reserves       *)
(* "before sending: even a lost response may have authorized traffic").    *)
PeriodWithinQuota == \A c \in DOMAIN spent : spent[c] <= PlanQuota
=============================================================================
