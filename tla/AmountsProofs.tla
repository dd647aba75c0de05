--------------------------- MODULE AmountsProofs ----------------------------
(* Proofs about amounts that are sums, which rest on the lemmas of Sums:    *)
(* SiteGrants and Mounts, one quota shared by panels that each account for  *)
(* a part of it, for any sites, periods and traffic; and CryptoInvoices,    *)
(* what an address received, for any chain, forks, scans and invoices.      *)
EXTENDS SiteGrants, Mounts, CryptoInvoices, Sums, SequenceTheorems
-----------------------------------------------------------------------------
(* A node mounted at a main panel.                                         *)

(* What the child's core may still come to serve up to: the limit it has,  *)
(* the one its panel delegates, what it has served, and the ceilings of    *)
(* requests it would still take.  Each is reserved at the main panel, and  *)
(* fits in the quota beside what the main panel's own core has served or   *)
(* may serve.                                                              *)
Reported == Sum(mount.rows)
Fits(ceiling) ==
  /\ ceiling <= Larger(mount.issued, Reported)
  /\ holder.used + Larger(0, ceiling - Reported) <= PlanQuota
  /\ hostLimit + Larger(0, ceiling - Reported) <= PlanQuota

CeilingsFit ==
  /\ Fits(childCore) /\ Fits(child.quota) /\ Fits(Sum(child.rows))
  /\ \A m \in requests : Sequenced(m) => Fits(m.quota)

(* Requests are numbered in the order of the periods they are for.         *)
RequestsOrdered ==
  /\ \A m \in requests : /\ m.seq \in 1 .. mount.seq /\ m.cycle <= holder.cycle
                         /\ m.seq = mount.seq => m.quota = mount.sent
                         /\ Sequenced(m) => child.cycle <= m.cycle
  /\ \A m, n \in requests : m.seq < n.seq => m.cycle <= n.cycle
  /\ child.last.seq <= mount.seq /\ child.cycle <= holder.cycle
  /\ holder.pending => holder.cycle < LastCycle

(* What still allows traffic is of the period under way.                   *)
CeilingsCurrent ==
  /\ childCore > Reported \/ child.quota > Reported => child.cycle = holder.cycle
  /\ \A m \in requests : Sequenced(m) /\ m.quota > Reported => m.cycle = holder.cycle

(* Only of this period the child has counted more than it has reported.    *)
RowsKnown ==
  /\ \A c \in Cycles : IF c = holder.cycle THEN mount.rows[c] <= child.rows[c]
                       ELSE mount.rows[c] = child.rows[c]
  /\ spent[holder.cycle] = holder.used + Sum(child.rows) - Reported
  /\ \A c \in Cycles : /\ c < holder.cycle => spent[c] <= PlanQuota
                       /\ c > holder.cycle => spent[c] = 0

(* An answer that waits is of the last request, and what it reports bounds *)
(* what the child has served, but for what that request allows.            *)
AnswersBound ==
  \A r \in results :
    /\ mount.calling # "no" /\ child.last.seq = mount.seq
    /\ childCore <= mount.sent /\ child.quota <= mount.sent
    /\ \A c \in Cycles : r.rows[c] <= child.rows[c]
    /\ Sum(child.rows) <= Larger(mount.sent, Sum(r.rows))

MountsInv ==
  MountsTypeOK /\ CeilingsFit /\ RequestsOrdered /\ CeilingsCurrent /\ RowsKnown /\ AnswersBound
-----------------------------------------------------------------------------
(* Sums of a meter.                                                        *)
LEMMA MeterSums ==
  /\ \A m \in Meter : Sum(m) \in Nat
  /\ \A m, n \in Meter : (\A c \in Cycles : m[c] <= n[c]) => Sum(m) <= Sum(n)
  /\ \A m, n \in Meter : \A c \in Cycles :
       (\A d \in Cycles \ {c} : m[d] = n[d]) => Sum(n) = Sum(m) + n[c] - m[c]
<1>1. IsFiniteSet(Cycles)
  BY MountsAssumption, FS_Interval DEF Cycles
<1>2. \A m \in Meter : Sum(m) = SumFunctionOnSet(m, Cycles)
  BY DEF Meter, Sum, SumFunction
<1>3. ASSUME NEW m \in Meter PROVE Sum(m) \in Nat
  <2>1. \A c \in Cycles : m[c] \in Nat
    BY DEF Meter
  <2> QED
    BY <1>1, <1>2, <2>1, SumOfNaturals
<1>4. ASSUME NEW m \in Meter, NEW n \in Meter, \A c \in Cycles : m[c] <= n[c]
      PROVE  Sum(m) <= Sum(n)
  <2>1. \A c \in Cycles : m[c] \in Int /\ n[c] \in Int /\ m[c] <= n[c]
    BY <1>4 DEF Meter
  <2>2. SumFunctionOnSet(m, Cycles) <= SumFunctionOnSet(n, Cycles)
    BY <1>1, <2>1, SumAtMost
  <2> QED
    BY <1>2, <2>2
<1>5. ASSUME NEW m \in Meter, NEW n \in Meter, NEW c \in Cycles,
             \A d \in Cycles \ {c} : m[d] = n[d]
      PROVE  Sum(n) = Sum(m) + n[c] - m[c]
  <2>1. \A d \in Cycles : m[d] \in Int /\ n[d] \in Int /\ (d # c => n[d] = m[d])
    BY <1>5 DEF Meter
  <2>2. SumFunctionOnSet(n, Cycles) = SumFunctionOnSet(m, Cycles) + n[c] - m[c]
    <3>1. SumFunctionOnSet(m, Cycles) \in Int /\ n[c] - m[c] \in Int
          /\ n[c] = m[c] + (n[c] - m[c])
      BY <1>1, <2>1, SumType
    <3>2. \A d \in Int : n[c] = m[c] + d =>
            SumFunctionOnSet(n, Cycles) = SumFunctionOnSet(m, Cycles) + d
      BY <1>1, <2>1, SumChange
    <3>3. SumFunctionOnSet(n, Cycles) = SumFunctionOnSet(m, Cycles) + (n[c] - m[c])
      BY <3>1, <3>2
    <3> QED
      BY <3>1, <3>3, <2>1
  <2> QED
    BY <1>2, <2>2
<1> QED
  BY <1>3, <1>4, <1>5

LEMMA NothingMetered == NoMeter \in Meter /\ Sum(NoMeter) = 0
<1>1. NoMeter \in Meter
  BY DEF NoMeter, Meter
<1>2. IsFiniteSet(Cycles)
  BY MountsAssumption, FS_Interval DEF Cycles
<1>3. Sum(NoMeter) = SumFunctionOnSet(NoMeter, Cycles)
  BY DEF NoMeter, Sum, SumFunction
<1>4. \A c \in Cycles : NoMeter[c] \in Int /\ NoMeter[c] = 0
  BY DEF NoMeter
<1>5. \A c \in Cycles : NoMeter[c] \in Int /\ NoMeter[c] \in Int
                        /\ NoMeter[c] = NoMeter[c] + NoMeter[c]
  BY <1>4
<1>6. SumFunctionOnSet(NoMeter, Cycles)
        = SumFunctionOnSet(NoMeter, Cycles) + SumFunctionOnSet(NoMeter, Cycles)
  BY <1>2, <1>5, SumPlus
<1>7. Sum(NoMeter) \in Nat
  BY <1>1, MeterSums
<1>8. SumFunctionOnSet(NoMeter, Cycles) \in Nat
  BY <1>3, <1>7
<1>9. SumFunctionOnSet(NoMeter, Cycles) = 0
  <2> DEFINE total == SumFunctionOnSet(NoMeter, Cycles)
  <2>1. total \in Nat /\ total = total + total
    BY <1>6, <1>8
  <2> HIDE DEF total
  <2>2. total = 0
    BY <2>1
  <2> QED
    BY <2>2 DEF total
<1> QED
  BY <1>1, <1>3, <1>9

(* A member's share of what is left is within it.                          *)
LEMMA BudgetWithin ==
  ASSUME MountsTypeOK, MayServe(holder)
  PROVE  Budget(holder, mount) \in 0 .. (PlanQuota - holder.used)
<1> DEFINE remaining == Larger(0, PlanQuota - holder.used)
           shares == IF LocalNodes THEN 2 ELSE 1
           share == remaining \div shares
           target == Lesser(remaining, Larger(1, share))
           unused == Larger(0, mount.grant - Sum(mount.rows))
<1>1. remaining = PlanQuota - holder.used /\ remaining \in Nat \ {0}
  BY MountsAssumption DEF MountsTypeOK, MayServe, Larger
<1>2. mount.rows \in Meter /\ mount.grant \in Int
  BY DEF MountsTypeOK, Ceiling, Unlisted
<1>3. unused \in Nat
  BY <1>2, MeterSums DEF Larger
<1>4. share \in Nat
  BY <1>1
<1> HIDE DEF remaining, shares, share, unused
<1>5. target \in 0 .. remaining
  BY <1>1, <1>4 DEF Larger, Lesser
<1> HIDE DEF target
<1>6. Budget(holder, mount) \in {unused, target}
      /\ (Budget(holder, mount) = unused => unused <= target \/ unused = target)
  BY DEF Budget, remaining, shares, share, target, unused
<1> QED
  BY <1>1, <1>3, <1>5, <1>6

LEMMA HostSharesWithin ==
  ASSUME MountsTypeOK, NEW v, v.issued \in Ceiling, v.rows = mount.rows
  PROVE  /\ HostShare(holder, v) \in Nat
         /\ HostShare(holder, v) = 0 \/ HostShare(holder, v) = PlanQuota - Larger(0, v.issued - Reported)
<1>1. Sum(mount.rows) \in Nat
  BY MeterSums DEF MountsTypeOK
<1>2. Held(v) \in Nat /\ Held(v) = Larger(0, v.issued - Reported)
  BY <1>1 DEF Held, Reported, Larger, Ceiling, Unlisted
<1> HIDE DEF Held
<1> QED
  BY <1>2, MountsAssumption DEF HostShare
-----------------------------------------------------------------------------
(* The numbers the invariant compares.                                     *)
LEMMA MountNumbers ==
  ASSUME MountsInv
  PROVE  /\ Reported \in Nat /\ Sum(child.rows) \in Nat /\ Reported <= Sum(child.rows)
         /\ {mount.issued, mount.sent, childCore, child.quota} \subseteq Int
         /\ mount.issued >= -1 /\ mount.sent >= -1
         /\ holder.used \in Nat /\ hostLimit \in Nat /\ PlanQuota \in Nat
         /\ holder.used <= PlanQuota /\ hostLimit <= PlanQuota
         /\ \A m \in requests : m.quota \in Int
         /\ holder.cycle \in Cycles /\ Cycles \subseteq Nat
<1>1. /\ mount.rows \in Meter /\ child.rows \in Meter
      /\ {mount.issued, mount.sent, childCore, child.quota} \subseteq Int
      /\ mount.issued >= -1 /\ mount.sent >= -1
      /\ holder.used \in Nat /\ hostLimit \in Nat
      /\ \A m \in requests : m.quota \in Int
      /\ holder.cycle \in Cycles
  BY DEF MountsInv, MountsTypeOK, Ceiling, Unlisted, MountRequest
<1>2. \A c \in Cycles : mount.rows[c] <= child.rows[c]
  BY <1>1 DEF MountsInv, RowsKnown, Meter
<1>3. Reported \in Nat /\ Sum(child.rows) \in Nat /\ Reported <= Sum(child.rows)
  BY <1>1, <1>2, MeterSums DEF Reported
<1>4. PlanQuota \in Nat /\ Cycles \subseteq Nat
  BY MountsAssumption DEF Cycles
<1>5. Fits(Sum(child.rows))
  BY DEF MountsInv, CeilingsFit
<1>6. holder.used <= PlanQuota /\ hostLimit <= PlanQuota
  BY <1>1, <1>3, <1>4, <1>5 DEF Fits, Larger
<1> QED
  BY <1>1, <1>3, <1>4, <1>6

(* A site nothing is delegated to has nothing to reserve.                  *)
LEMMA UnlistedFits == ASSUME MountsInv PROVE Fits(Unlisted)
<1> QED
  BY MountNumbers DEF Fits, Larger, Unlisted

LEMMA MountsInvMeans == MountsInv => PeriodWithinQuota
<1> SUFFICES ASSUME MountsInv, NEW c \in DOMAIN spent PROVE spent[c] <= PlanQuota
  BY DEF PeriodWithinQuota
<1>1. c \in Cycles /\ holder.cycle \in Cycles
  BY DEF MountsInv, MountsTypeOK, Meter
<1>2. CASE c = holder.cycle
  <2>1. spent[c] = holder.used + Sum(child.rows) - Reported
    BY <1>2 DEF MountsInv, RowsKnown
  <2>2. holder.used + Larger(0, Sum(child.rows) - Reported) <= PlanQuota
    BY DEF MountsInv, CeilingsFit, Fits
  <2> QED
    BY <2>1, <2>2, MountNumbers DEF Larger
<1>3. CASE c < holder.cycle
  BY <1>1, <1>3 DEF MountsInv, RowsKnown
<1>4. CASE c > holder.cycle
  BY <1>1, <1>4, MountNumbers DEF MountsInv, RowsKnown
<1>5. c = holder.cycle \/ c < holder.cycle \/ c > holder.cycle
  BY <1>1, MountNumbers
<1> QED
  BY <1>2, <1>3, <1>4, <1>5

LEMMA MountsInitInv == MountsInit => MountsInv
<1> SUFFICES ASSUME MountsInit PROVE MountsInv
  OBVIOUS
<1>1. 1 \in Cycles /\ Cycles \subseteq Nat /\ NoMeter \in Meter /\ Sum(NoMeter) = 0
  BY NothingMetered, MountsAssumption DEF Cycles
<1>2. MountsTypeOK
  BY <1>1, MountsAssumption DEF MountsInit, MountsTypeOK, Ceiling, Unlisted, MountRequest, NeverSynced
<1>3. Reported = 0 /\ Sum(child.rows) = 0
  BY <1>1 DEF MountsInit, Reported
<1>4. hostLimit \in 0 .. PlanQuota
  BY MountsAssumption DEF MountsInit
<1>5. CeilingsFit
  BY <1>3, <1>4, MountsAssumption DEF MountsInit, CeilingsFit, Fits, Larger, Unlisted
<1>6. RequestsOrdered /\ CeilingsCurrent /\ AnswersBound
  BY <1>3 DEF MountsInit, RequestsOrdered, CeilingsCurrent, AnswersBound, NeverSynced
<1>7. RowsKnown
  <2>1. \A c \in Cycles : mount.rows[c] = 0 /\ child.rows[c] = 0 /\ spent[c] = 0
    BY DEF MountsInit, NoMeter
  <2> QED
    BY <1>1, <1>3, <2>1, MountsAssumption DEF MountsInit, RowsKnown
<1> QED
  BY <1>2, <1>5, <1>6, <1>7 DEF MountsInv
-----------------------------------------------------------------------------
(* Steps of the main panel.                                                *)

(* What is granted is within what is left.                                 *)
LEMMA GrantedWithin ==
  ASSUME MountsInv
  PROVE  LET quota == Granted(holder, mount)
         IN /\ quota \in Ceiling /\ quota >= -1
            /\ quota = Unlisted \/ quota - Reported \in 0 .. PlanQuota - holder.used
<1>1. MountsTypeOK
  BY DEF MountsInv
<1>2. CASE Granted(holder, mount) = Unlisted
  BY <1>2 DEF Ceiling, Unlisted
<1>3. CASE Granted(holder, mount) # Unlisted
  <2>1. MayServe(holder) /\ Granted(holder, mount) = Reported + Budget(holder, mount)
    BY <1>3 DEF Granted, Reported
  <2>2. Budget(holder, mount) \in 0 .. PlanQuota - holder.used
    BY <1>1, <2>1, BudgetWithin
  <2> QED
    BY <2>1, <2>2, MountNumbers DEF Ceiling, Unlisted
<1> QED
  BY <1>2, <1>3

(* A reservation that grows, with the local core given what it leaves or   *)
(* left as it was, covers every ceiling it covered.                        *)
LEMMA StillFits ==
  ASSUME MountsInv, NEW v, v.issued \in Ceiling, v.issued >= mount.issued, v.rows = mount.rows,
         NEW limit \in {hostLimit, HostShare(holder, v)},
         NEW e \in Int, Fits(e)
  PROVE  /\ e <= Larger(v.issued, Reported)
         /\ limit \in Nat
         /\ limit + Larger(0, e - Reported) <= PlanQuota
<1>1. v.issued \in Int
  BY DEF Ceiling, Unlisted
<1>2. e <= Larger(v.issued, Reported)
  BY <1>1, MountNumbers DEF Fits, Larger
<1>3. CASE limit = hostLimit
  BY <1>2, <1>3, MountNumbers DEF Fits
<1>4. CASE limit = HostShare(holder, v)
  <2>1. limit \in Nat /\ (limit = 0 \/ limit = PlanQuota - Larger(0, v.issued - Reported))
    BY <1>4, HostSharesWithin DEF MountsInv
  <2>2. CASE limit = 0
    BY <1>2, <2>2, MountNumbers DEF Fits, Larger
  <2>3. CASE limit = PlanQuota - Larger(0, v.issued - Reported)
    BY <1>1, <1>2, <2>1, <2>3, MountNumbers DEF Larger
  <2> QED
    BY <1>2, <2>1, <2>2, <2>3
<1> QED
  BY <1>3, <1>4

LEMMA PushMountKeeps == MountsInv /\ PushMount => MountsInv'
<1> SUFFICES ASSUME MountsInv, PushMount PROVE MountsInv'
  OBVIOUS
<1> DEFINE quota == Granted(holder, mount)
           v == Issuing(mount, quota)
           m == [seq |-> v.seq, quota |-> quota, cycle |-> holder.cycle,
                 floor |-> Sum(v.rows), catalog |-> child.catalog]
<1>1. /\ quota \in Ceiling /\ quota \in Int /\ quota >= -1
      /\ quota = Unlisted \/ quota - Reported \in 0 .. PlanQuota - holder.used
  BY GrantedWithin DEF Ceiling, Unlisted
<1> HIDE DEF quota
<1>2. /\ v.seq = mount.seq + 1 /\ v.grant = quota /\ v.sent = quota
      /\ v.issued = Larger(mount.issued, quota) /\ v.rows = mount.rows
      /\ v.shared = mount.shared /\ v.known = mount.known /\ v.calling = mount.calling
      /\ DOMAIN v = DOMAIN mount
  BY DEF Issuing, MountsInv, MountsTypeOK
<1>3. /\ v.issued \in Ceiling /\ v.issued \in Int
      /\ v.issued >= mount.issued /\ v.issued >= quota
  BY <1>1, <1>2, MountNumbers DEF Larger, MountsInv, MountsTypeOK
<1>4. v \in [seq : Nat, shared : BOOLEAN, grant : Ceiling, issued : Ceiling,
             sent : Ceiling, rows : Meter, known : BOOLEAN,
             calling : {"no", "yes", "outdated"}]
  <2>1. mount.seq + 1 \in Nat /\ Larger(mount.issued, quota) \in Ceiling
    BY <1>2, <1>3 DEF MountsInv, MountsTypeOK
  <2> QED
    BY <1>1, <2>1 DEF Issuing, MountsInv, MountsTypeOK
<1>5. m \in MountRequest
  BY <1>1, <1>2, MeterSums DEF MountsInv, MountsTypeOK, MountRequest
<1>6. m.seq = mount.seq + 1 /\ m.quota = quota /\ m.cycle = holder.cycle
  BY <1>2
<1>7. /\ UNCHANGED <<holder, child, childCore, results, spent, edits>>
      /\ \/ /\ mount' = [v EXCEPT !.calling = "yes"]
            /\ hostLimit' = HostShare(holder, v)
            /\ requests' = requests \union {m}
         \/ mount' = v /\ hostLimit' = hostLimit /\ requests' = requests
      /\ mount.calling = "no"
  BY DEF PushMount, quota
<1> HIDE DEF v, m
<1>8. /\ mount'.seq = mount.seq + 1 /\ mount'.grant = quota /\ mount'.sent = quota
      /\ mount'.issued = v.issued /\ mount'.rows = mount.rows
  BY <1>2, <1>4, <1>7
<1>9. Reported' = Reported
  BY <1>8 DEF Reported
<1>10. MountsTypeOK'
  <2>1. hostLimit' \in Nat
    BY <1>2, <1>3, <1>7, UnlistedFits, StillFits DEF Unlisted
  <2>2. mount' \in [seq : Nat, shared : BOOLEAN, grant : Ceiling, issued : Ceiling,
               sent : Ceiling, rows : Meter, known : BOOLEAN,
               calling : {"no", "yes", "outdated"}]
    BY <1>4, <1>7
  <2>3. requests' \subseteq MountRequest
    BY <1>5, <1>7 DEF MountsInv, MountsTypeOK
  <2> QED
    BY <1>7, <2>1, <2>2, <2>3 DEF MountsInv, MountsTypeOK
<1>11. ASSUME NEW e \in Int, Fits(e)
       PROVE  /\ e <= Larger(mount.issued, Reported)'
              /\ holder'.used + Larger(0, e - Reported') <= PlanQuota
              /\ hostLimit' + Larger(0, e - Reported') <= PlanQuota
  <2>1. /\ e <= Larger(v.issued, Reported)
        /\ hostLimit' + Larger(0, e - Reported) <= PlanQuota
    BY <1>2, <1>3, <1>7, <1>11, StillFits
  <2>2. holder.used + Larger(0, e - Reported) <= PlanQuota
    BY <1>11 DEF Fits
  <2> QED
    BY <1>7, <1>8, <1>9, <2>1, <2>2
<1>12. CeilingsFit'
  <2>1. Fits(childCore)' /\ Fits(child.quota)' /\ Fits(Sum(child.rows))'
    BY <1>7, <1>11, MountNumbers DEF MountsInv, CeilingsFit, Fits
  <2>2. ASSUME NEW n \in requests', Sequenced(n)' PROVE Fits(n.quota)'
    <3>1. CASE n \in requests
      <4>1. Sequenced(n)
        BY <1>7, <2>2 DEF Sequenced
      <4> QED
        BY <1>11, <3>1, <4>1, MountNumbers DEF MountsInv, CeilingsFit, Fits
    <3>2. CASE n \notin requests
      <4>1. n.quota = quota /\ hostLimit' = HostShare(holder, v)
        BY <1>6, <1>7, <3>2
      <4>2. quota <= Larger(v.issued, Reported)
        BY <1>1, <1>3, MountNumbers DEF Larger
      <4>3. holder.used + Larger(0, quota - Reported) <= PlanQuota
        BY <1>1, MountNumbers DEF Larger, Unlisted
      <4>4. hostLimit' + Larger(0, quota - Reported) <= PlanQuota
        <5>1. /\ hostLimit' \in Nat
              /\ hostLimit' = 0 \/ hostLimit' = PlanQuota - Larger(0, v.issued - Reported)
          BY <4>1, <1>2, <1>3, HostSharesWithin DEF MountsInv
        <5>2. CASE hostLimit' = 0
          BY <5>2, <4>3, <1>1, MountNumbers DEF Larger
        <5>3. CASE hostLimit' = PlanQuota - Larger(0, v.issued - Reported)
          BY <5>1, <5>3, <1>1, <1>3, MountNumbers DEF Larger
        <5> QED
          BY <5>1, <5>2, <5>3
      <4> QED
        BY <1>7, <1>8, <1>9, <4>1, <4>2, <4>3, <4>4 DEF Fits
    <3> QED
      BY <3>1, <3>2
  <2> QED
    BY <2>1, <2>2 DEF CeilingsFit
<1>13. RequestsOrdered'
  <2>1. /\ child.last.seq <= mount.seq /\ mount.seq \in Nat /\ holder.cycle \in Nat
        /\ child.last.seq \in Nat
    BY MountNumbers DEF MountsInv, RequestsOrdered, MountsTypeOK, MountRequest
  <2>2. \A n \in requests : n.seq \in 1 .. mount.seq /\ n.cycle <= holder.cycle
                            /\ (Sequenced(n) => child.cycle <= n.cycle)
    BY DEF MountsInv, RequestsOrdered
  <2>3. child.cycle <= holder.cycle
    BY DEF MountsInv, RequestsOrdered
  <2>4. \A n \in requests' :
          /\ n.seq \in 1 .. mount'.seq /\ n.cycle <= holder'.cycle
          /\ n.seq = mount'.seq => n.quota = mount'.sent
          /\ Sequenced(n)' => child'.cycle <= n.cycle
    BY <1>7, <1>8, <1>6, <2>1, <2>2, <2>3 DEF Sequenced
  <2>5. \A n, k \in requests' : n.seq < k.seq => n.cycle <= k.cycle
    <3>1. \A n, k \in requests : n.seq < k.seq => n.cycle <= k.cycle
      BY DEF MountsInv, RequestsOrdered
    <3> QED
      BY <1>7, <1>6, <2>1, <2>2, <3>1
  <2> QED
    BY <1>7, <1>8, <2>1, <2>4, <2>5 DEF MountsInv, RequestsOrdered
<1>14. CeilingsCurrent'
  BY <1>7, <1>9, <1>6 DEF MountsInv, CeilingsCurrent, Sequenced
<1>15. RowsKnown'
  BY <1>7, <1>8, <1>9 DEF MountsInv, RowsKnown
<1>16. AnswersBound'
  BY <1>7 DEF MountsInv, AnswersBound
<1> QED
  BY <1>10, <1>12, <1>13, <1>14, <1>15, <1>16 DEF MountsInv

(* A step that leaves what the invariant relates alone keeps it.           *)
LEMMA MountFrame ==
  ASSUME MountsInv, MountsTypeOK',
         holder'.used = holder.used, holder'.cycle = holder.cycle,
         holder'.pending => holder.cycle < LastCycle,
         hostLimit' = hostLimit, child' = child, childCore' = childCore,
         requests' = requests, spent' = spent,
         mount'.seq = mount.seq, mount'.issued = mount.issued,
         mount'.sent = mount.sent, mount'.rows = mount.rows,
         \A r \in results' : r \in results /\ mount'.calling = mount.calling
  PROVE  MountsInv'
<1>1. Reported' = Reported
  BY DEF Reported
<1>2. CeilingsFit'
  BY <1>1 DEF MountsInv, CeilingsFit, Fits, Sequenced
<1>3. RequestsOrdered'
  BY DEF MountsInv, RequestsOrdered, Sequenced
<1>4. CeilingsCurrent'
  BY <1>1 DEF MountsInv, CeilingsCurrent, Sequenced
<1>5. RowsKnown'
  BY <1>1 DEF MountsInv, RowsKnown
<1>6. AnswersBound'
  BY DEF MountsInv, AnswersBound
<1> QED
  BY <1>2, <1>3, <1>4, <1>5, <1>6 DEF MountsInv

LEMMA HangUpKeeps ==
  ASSUME MountsInv, mount' = [mount EXCEPT !.calling = "no"], results' = {},
         UNCHANGED <<holder, hostLimit, child, childCore, requests, spent, edits>>
  PROVE  MountsInv'
<1>1. MountsTypeOK'
  BY DEF MountsInv, MountsTypeOK
<1>2. /\ mount'.seq = mount.seq /\ mount'.issued = mount.issued
      /\ mount'.sent = mount.sent /\ mount'.rows = mount.rows
  BY DEF MountsInv, MountsTypeOK
<1>3. holder'.pending => holder.cycle < LastCycle
  BY DEF MountsInv, RequestsOrdered
<1>4. holder'.used = holder.used /\ holder'.cycle = holder.cycle
  OBVIOUS
<1>5. /\ hostLimit' = hostLimit /\ child' = child /\ childCore' = childCore
      /\ requests' = requests /\ spent' = spent
  OBVIOUS
<1>6. \A r \in results' : r \in results /\ mount'.calling = mount.calling
  OBVIOUS
<1> QED
  BY ONLY MountsInv, <1>1, <1>2, <1>3, <1>4, <1>5, <1>6, MountFrame

LEMMA EditMountKeeps == MountsInv /\ EditMount => MountsInv'
<1> SUFFICES ASSUME MountsInv, EditMount PROVE MountsInv'
  OBVIOUS
<1>1. MountsTypeOK'
  <2>1. (~mount.shared) \in BOOLEAN /\ (IF mount.shared THEN Unlisted ELSE mount.grant) \in Ceiling
    BY DEF MountsInv, MountsTypeOK, Ceiling
  <2>2. mount' \in [seq : Nat, shared : BOOLEAN, grant : Ceiling, issued : Ceiling,
                sent : Ceiling, rows : Meter, known : BOOLEAN,
                calling : {"no", "yes", "outdated"}]
    BY <2>1 DEF EditMount, MountsInv, MountsTypeOK
  <2>3. edits' \in Nat
    BY DEF EditMount, Edit, MountsInv, MountsTypeOK
  <2> QED
    BY <2>2, <2>3 DEF EditMount, MountsInv, MountsTypeOK
<1>2. /\ mount'.seq = mount.seq /\ mount'.issued = mount.issued
      /\ mount'.sent = mount.sent /\ mount'.rows = mount.rows
      /\ mount'.calling = mount.calling
  BY DEF EditMount, MountsInv, MountsTypeOK
<1>3. holder'.pending => holder.cycle < LastCycle
  BY DEF EditMount, MountsInv, RequestsOrdered
<1> QED
  BY <1>1, <1>2, <1>3, MountFrame DEF EditMount

LEMMA HolderFlagsKeep == MountsInv /\ (ToggleHolder \/ StopHolder) => MountsInv'
<1> SUFFICES ASSUME MountsInv, ToggleHolder \/ StopHolder PROVE MountsInv'
  OBVIOUS
<1>1. MountsTypeOK'
  <2>1. (~holder.enabled) \in BOOLEAN
    OBVIOUS
  <2>2. holder' \in [enabled : BOOLEAN, pending : BOOLEAN, cycle : Cycles, used : Nat]
    BY <2>1 DEF ToggleHolder, StopHolder, MountsInv, MountsTypeOK
  <2>3. edits' \in Nat
    BY DEF ToggleHolder, StopHolder, Edit, MountsInv, MountsTypeOK
  <2> QED
    BY <2>2, <2>3 DEF ToggleHolder, StopHolder, MountsInv, MountsTypeOK
<1>2. holder'.used = holder.used /\ holder'.cycle = holder.cycle
  BY DEF ToggleHolder, StopHolder, MountsInv, MountsTypeOK
<1>3. holder'.pending => holder.cycle < LastCycle
  BY DEF ToggleHolder, StopHolder, MountsInv, MountsTypeOK, RequestsOrdered
<1> QED
  BY <1>1, <1>2, <1>3, MountFrame DEF ToggleHolder, StopHolder

LEMMA ReconcileHostKeeps == MountsInv /\ ReconcileHost => MountsInv'
<1> SUFFICES ASSUME MountsInv, ReconcileHost PROVE MountsInv'
  OBVIOUS
<1>1. /\ UNCHANGED <<holder, mount, child, childCore, requests, results, spent, edits>>
      /\ hostLimit' = HostShare(holder, mount)
  BY DEF ReconcileHost
<1>2. mount.issued \in Ceiling /\ mount.issued >= mount.issued
  BY MountNumbers DEF MountsInv, MountsTypeOK
<1>3. ASSUME NEW e \in Int, Fits(e) PROVE Fits(e)'
  BY <1>1, <1>2, <1>3, StillFits DEF Fits, Reported
<1>4. hostLimit' \in Nat
  BY <1>1, <1>2, UnlistedFits, StillFits DEF Unlisted
<1>5. MountsTypeOK'
  BY <1>1, <1>4 DEF MountsInv, MountsTypeOK
<1>6. CeilingsFit'
  <2>1. Fits(childCore)' /\ Fits(child.quota)' /\ Fits(Sum(child.rows))'
    BY <1>1, <1>3, MountNumbers DEF MountsInv, CeilingsFit, Fits
  <2>2. ASSUME NEW n \in requests', Sequenced(n)' PROVE Fits(n.quota)'
    BY <1>1, <1>3, <2>2, MountNumbers DEF MountsInv, CeilingsFit, Sequenced
  <2> QED
    BY <2>1, <2>2 DEF CeilingsFit
<1>7. RequestsOrdered' /\ CeilingsCurrent' /\ RowsKnown' /\ AnswersBound'
  BY <1>1 DEF MountsInv, RequestsOrdered, CeilingsCurrent, RowsKnown, AnswersBound,
     Sequenced, Reported
<1> QED
  BY <1>5, <1>6, <1>7 DEF MountsInv

LEMMA HostTrafficKeeps == MountsInv /\ HostTraffic => MountsInv'
<1> SUFFICES ASSUME MountsInv, HostTraffic PROVE MountsInv'
  OBVIOUS
<1>1. /\ UNCHANGED <<mount, hostLimit, child, childCore, requests, results, edits>>
      /\ holder.used < hostLimit
      /\ holder'.used = holder.used + 1 /\ holder'.cycle = holder.cycle
      /\ holder'.pending = holder.pending
      /\ spent' = [spent EXCEPT ![holder.cycle] = @ + 1]
  BY DEF HostTraffic, MountsInv, MountsTypeOK
<1>2. spent'[holder.cycle] = spent[holder.cycle] + 1
      /\ \A c \in Cycles : spent'[c] \in Nat /\ (c # holder.cycle => spent'[c] = spent[c])
  BY <1>1 DEF MountsInv, MountsTypeOK, Meter
<1>3. MountsTypeOK'
  BY DEF HostTraffic, MountsInv, MountsTypeOK, Meter
<1>4. Reported' = Reported
  BY <1>1 DEF Reported
<1>5. ASSUME NEW e \in Int, Fits(e) PROVE Fits(e)'
  BY <1>1, <1>4, <1>5, MountNumbers DEF Fits, Larger
<1>6. CeilingsFit'
  <2>1. Fits(childCore)' /\ Fits(child.quota)' /\ Fits(Sum(child.rows))'
    BY <1>1, <1>5, MountNumbers DEF MountsInv, CeilingsFit, Fits
  <2>2. ASSUME NEW n \in requests', Sequenced(n)' PROVE Fits(n.quota)'
    BY <1>1, <1>5, <2>2, MountNumbers DEF MountsInv, CeilingsFit, Sequenced
  <2> QED
    BY <2>1, <2>2 DEF CeilingsFit
<1>7. RequestsOrdered' /\ CeilingsCurrent' /\ AnswersBound'
  BY <1>1, <1>4 DEF MountsInv, RequestsOrdered, CeilingsCurrent, AnswersBound, Sequenced
<1>8. RowsKnown'
  <2>1. spent'[holder.cycle] = holder'.used + Sum(child.rows) - Reported
    BY <1>1, <1>2, MountNumbers DEF MountsInv, RowsKnown
  <2>2. \A c \in Cycles : /\ c < holder.cycle => spent'[c] <= PlanQuota
                          /\ c > holder.cycle => spent'[c] = 0
    BY <1>2, MountNumbers DEF MountsInv, RowsKnown
  <2> QED
    BY <1>1, <1>4, <2>1, <2>2 DEF MountsInv, RowsKnown
<1> QED
  BY <1>3, <1>6, <1>7, <1>8 DEF MountsInv

(* What an answer reports of other periods was reported before.            *)
LEMMA TakeResultKeeps == ASSUME MountsInv, NEW r, TakeResult(r) PROVE MountsInv'
<1> DEFINE c == holder.cycle
           delta == r.rows[c] - mount.rows[c]
<1>1. r \in results /\ Credible(r) /\ r.rows \in Meter /\ mount.rows \in Meter /\ child.rows \in Meter
  BY DEF TakeResult, MountsInv, MountsTypeOK, MountResult
<1>2. \A d \in Cycles : /\ mount.rows[d] \in Nat /\ r.rows[d] \in Nat /\ child.rows[d] \in Nat
                        /\ mount.rows[d] <= r.rows[d] /\ r.rows[d] <= child.rows[d]
                        /\ d # c => mount.rows[d] = r.rows[d] /\ r.rows[d] = child.rows[d]
  <2>1. \A d \in Cycles : mount.rows[d] \in Nat /\ r.rows[d] \in Nat /\ child.rows[d] \in Nat
    BY <1>1 DEF Meter
  <2>2. \A d \in Cycles : mount.rows[d] <= r.rows[d] /\ r.rows[d] <= child.rows[d]
    BY <1>1, <2>1 DEF Credible, MountsInv, AnswersBound
  <2>3. \A d \in Cycles : d # c => mount.rows[d] = child.rows[d]
    BY DEF MountsInv, RowsKnown
  <2> QED
    BY <2>1, <2>2, <2>3
<1>3. c \in Cycles /\ delta \in Nat
  BY <1>2, MountNumbers
<1>4. /\ Sum(r.rows) \in Nat /\ Sum(r.rows) = Reported + delta
      /\ Sum(r.rows) <= Sum(child.rows)
  <2>1. Sum(r.rows) = Sum(mount.rows) + r.rows[c] - mount.rows[c]
    BY <1>1, <1>2, <1>3, MeterSums
  <2>2. Sum(r.rows) <= Sum(child.rows) /\ Sum(r.rows) \in Nat
    BY <1>1, <1>2, MeterSums
  <2> QED
    BY <2>1, <2>2, <1>2, <1>3, MountNumbers DEF Reported
<1>5. Sum(r.rows) - Sum(mount.rows) - (r.rows[c] - mount.rows[c]) = 0
  BY <1>2, <1>3, <1>4, MountNumbers DEF Reported
<1>6. /\ UNCHANGED <<hostLimit, child, childCore, requests, spent, edits>>
      /\ results' = {}
      /\ holder'.used = holder.used + r.rows[c] - mount.rows[c]
      /\ holder' = [holder EXCEPT !.used = holder'.used]
      /\ mount'.seq = mount.seq /\ mount'.rows = r.rows
      /\ mount'.sent = mount.sent /\ mount'.issued = mount.sent
      /\ mount'.grant = mount.grant
      /\ mount' = [mount EXCEPT !.rows = r.rows, !.known = @ \/ r.known,
                     !.grant = mount'.grant, !.sent = mount'.sent,
                     !.issued = mount'.issued, !.calling = "no"]
  <2> DEFINE late == Sum(r.rows) - Sum(mount.rows) - (r.rows[c] - mount.rows[c])
             Shifted(q) == IF q > 0 THEN q + late ELSE q
  <2>1. \A q \in Int : Shifted(q) = q
    BY <1>5
  <2> HIDE DEF Shifted
  <2>2. /\ UNCHANGED <<hostLimit, child, childCore, requests, spent, edits>>
        /\ results' = {}
        /\ holder' = [holder EXCEPT !.used = @ + r.rows[c] - mount.rows[c]]
        /\ mount' = [mount EXCEPT !.rows = r.rows, !.known = @ \/ r.known,
                                 !.grant = Shifted(@), !.sent = Shifted(@),
                                 !.issued = Shifted(mount.sent),
                                 !.calling = "no"]
    BY DEF TakeResult, Shifted
  <2>3. mount.grant \in Int /\ mount.sent \in Int
    BY DEF MountsInv, MountsTypeOK, Ceiling, Unlisted
  <2>4. Shifted(mount.grant) = mount.grant /\ Shifted(mount.sent) = mount.sent
    BY <2>1, <2>3
  <2>5. holder'.used = holder.used + r.rows[c] - mount.rows[c]
        /\ holder' = [holder EXCEPT !.used = holder'.used]
    BY <2>2 DEF MountsInv, MountsTypeOK
  <2> QED
    BY <2>2, <2>4, <2>5 DEF MountsInv, MountsTypeOK
<1> HIDE DEF delta
<1>7. holder'.used = holder.used + delta /\ holder'.cycle = c /\ holder'.pending = holder.pending
  <2>1. holder'.used = holder.used + delta
    BY <1>2, <1>3, <1>6, MountNumbers DEF delta
  <2> QED
    BY <1>6, <2>1 DEF MountsInv, MountsTypeOK
<1>8. Reported' = Reported + delta
  BY <1>4, <1>6 DEF Reported
<1>9. MountsTypeOK'
  <2>1. holder'.used \in Nat
    BY <1>3, <1>7, MountNumbers
  <2>2. /\ r.known \in BOOLEAN
        /\ mount'.grant \in Ceiling /\ mount'.sent \in Ceiling /\ mount'.issued \in Ceiling
    BY <1>1, <1>6 DEF MountsInv, MountsTypeOK, MountResult
  <2>3. (mount.known \/ r.known) \in BOOLEAN
    OBVIOUS
  <2>4. holder' \in [enabled : BOOLEAN, pending : BOOLEAN, cycle : Cycles, used : Nat]
    BY <1>6, <2>1 DEF MountsInv, MountsTypeOK
  <2>5. mount' \in [seq : Nat, shared : BOOLEAN, grant : Ceiling, issued : Ceiling,
                sent : Ceiling, rows : Meter, known : BOOLEAN,
                calling : {"no", "yes", "outdated"}]
    BY <1>1, <1>6, <2>2, <2>3 DEF MountsInv, MountsTypeOK
  <2> QED
    BY <1>6, <2>4, <2>5 DEF MountsInv, MountsTypeOK
<1>10. /\ child.last.seq = mount.seq /\ childCore <= mount.sent /\ child.quota <= mount.sent
       /\ Sum(child.rows) <= Larger(mount.sent, Reported + delta)
  BY <1>1, <1>4 DEF MountsInv, AnswersBound
<1>11. holder.used + delta <= PlanQuota
  BY <1>3, <1>4, MountNumbers DEF MountsInv, CeilingsFit, Fits, Larger
<1>12. ASSUME NEW e \in Int, Fits(e), e <= Larger(mount.sent, Reported + delta)
       PROVE  Fits(e)'
  <2>1. e <= Larger(mount'.issued, Reported')
    BY <1>6, <1>8, <1>12
  <2>2. holder.used + delta + Larger(0, e - (Reported + delta)) <= PlanQuota
    BY <1>3, <1>11, <1>12, MountNumbers DEF Fits, Larger
  <2>3. hostLimit + Larger(0, e - (Reported + delta)) <= PlanQuota
    BY <1>3, <1>12, MountNumbers DEF Fits, Larger
  <2> QED
    BY <1>6, <1>7, <1>8, <2>1, <2>2, <2>3 DEF Fits
<1>13. CeilingsFit'
  <2>1. \A e \in Int : e <= mount.sent => e <= Larger(mount.sent, Reported + delta)
    BY <1>3, MountNumbers DEF Larger
  <2>2. Fits(childCore)' /\ Fits(child.quota)' /\ Fits(Sum(child.rows))'
    BY <1>6, <1>10, <1>12, <2>1, MountNumbers DEF MountsInv, CeilingsFit, Fits
  <2>3. ASSUME NEW n \in requests', Sequenced(n)' PROVE Fits(n.quota)'
    <3>1. n \in requests /\ Sequenced(n)
      BY <1>6, <2>3 DEF Sequenced
    <3>2. n.seq \in Nat /\ n.seq <= mount.seq /\ mount.seq \in Nat
          /\ (n.seq = mount.seq => n.quota = mount.sent)
      BY <3>1 DEF MountsInv, RequestsOrdered, MountsTypeOK
    <3>3. n.quota = mount.sent
      BY <1>10, <3>1, <3>2 DEF Sequenced
    <3>4. Fits(n.quota) /\ n.quota \in Int
      BY <3>1, MountNumbers DEF MountsInv, CeilingsFit
    <3>5. n.quota <= Larger(mount.sent, Reported + delta)
      BY <2>1, <3>3, <3>4
    <3> QED
      BY <1>12, <3>4, <3>5
  <2> QED
    BY <2>2, <2>3 DEF CeilingsFit
<1>14. RequestsOrdered'
  BY <1>6, <1>7 DEF MountsInv, RequestsOrdered, Sequenced
<1>15. CeilingsCurrent'
  <2>1. \A e \in Int : e > Reported' => e > Reported
    BY <1>3, <1>8, MountNumbers
  <2> QED
    BY <1>6, <1>7, <2>1, MountNumbers DEF MountsInv, CeilingsCurrent, Sequenced
<1>16. RowsKnown'
  <2>1. \A d \in Cycles : IF d = c THEN mount'.rows[d] <= child.rows[d]
                          ELSE mount'.rows[d] = child.rows[d]
    BY <1>2, <1>6
  <2>2. spent[c] = holder'.used + Sum(child.rows) - Reported'
    BY <1>3, <1>7, <1>8, MountNumbers DEF MountsInv, RowsKnown
  <2> QED
    BY <1>6, <1>7, <2>1, <2>2 DEF MountsInv, RowsKnown
<1>17. AnswersBound'
  BY <1>6 DEF AnswersBound
<1> QED
  BY <1>9, <1>13, <1>14, <1>15, <1>16, <1>17 DEF MountsInv

(* The next period finds nothing of the last one left to allow or to bill. *)
LEMMA TurnCycleKeeps == MountsInv /\ TurnCycle => MountsInv'
<1> SUFFICES ASSUME MountsInv, TurnCycle PROVE MountsInv'
  OBVIOUS
<1> DEFINE c == holder.cycle
<1>1. /\ UNCHANGED <<child, childCore, requests, results, spent, edits>>
      /\ mount.issued = Unlisted /\ hostLimit' = 0
      /\ c < LastCycle /\ c \in Cycles /\ c + 1 \in Cycles /\ c \in Nat
  BY MountNumbers, MountsAssumption
     DEF TurnCycle, MountsInv, RequestsOrdered, MountsTypeOK, Cycles
<1>2. /\ holder'.pending = FALSE /\ holder'.cycle = c + 1 /\ holder'.used = 0
      /\ mount'.seq = mount.seq /\ mount'.issued = mount.issued
      /\ mount'.sent = mount.sent /\ mount'.rows = mount.rows
      /\ mount.calling # "no" => mount'.calling # "no"
  BY DEF TurnCycle, MountsInv, MountsTypeOK
<1>3. Reported' = Reported
  BY <1>2 DEF Reported
<1>4. MountsTypeOK'
  <2>1. holder' \in [enabled : BOOLEAN, pending : BOOLEAN, cycle : Cycles, used : Nat]
    BY <1>1 DEF TurnCycle, MountsInv, MountsTypeOK
  <2>2. mount' \in [seq : Nat, shared : BOOLEAN, grant : Ceiling, issued : Ceiling,
                sent : Ceiling, rows : Meter, known : BOOLEAN,
                calling : {"no", "yes", "outdated"}]
    BY DEF TurnCycle, MountsInv, MountsTypeOK
  <2> QED
    BY <1>1, <2>1, <2>2 DEF MountsInv, MountsTypeOK
<1>5. ASSUME NEW e \in Int, Fits(e) PROVE e <= Reported /\ Fits(e)'
  BY <1>1, <1>2, <1>3, <1>5, MountNumbers DEF Fits, Larger, Unlisted
<1>6. CeilingsFit'
  <2>1. Fits(childCore)' /\ Fits(child.quota)' /\ Fits(Sum(child.rows))'
    BY <1>1, <1>5, MountNumbers DEF MountsInv, CeilingsFit, Fits
  <2>2. ASSUME NEW n \in requests', Sequenced(n)' PROVE Fits(n.quota)'
    BY <1>1, <1>5, <2>2, MountNumbers DEF MountsInv, CeilingsFit, Sequenced
  <2> QED
    BY <2>1, <2>2 DEF CeilingsFit
<1>7. RequestsOrdered'
  <2>1. \A n \in requests : n.cycle \in Nat /\ n.cycle <= c + 1
    BY <1>1, MountNumbers DEF MountsInv, RequestsOrdered, MountsTypeOK, MountRequest
  <2>2. child.cycle \in Nat /\ child.cycle <= c + 1
    BY <1>1, MountNumbers DEF MountsInv, RequestsOrdered, MountsTypeOK
  <2> QED
    BY <1>1, <1>2, <2>1, <2>2 DEF MountsInv, RequestsOrdered, Sequenced
<1>8. CeilingsCurrent'
  <2>1. childCore <= Reported /\ child.quota <= Reported
    BY <1>5, MountNumbers DEF MountsInv, CeilingsFit
  <2>2. \A n \in requests : Sequenced(n) => n.quota <= Reported
    BY <1>5, MountNumbers DEF MountsInv, CeilingsFit
  <2> QED
    BY <1>1, <1>3, <2>1, <2>2, MountNumbers DEF CeilingsCurrent, Sequenced
<1>9. RowsKnown'
  <2>1. mount.rows \in Meter /\ child.rows \in Meter
    BY DEF MountsInv, MountsTypeOK
  <2>2. Sum(child.rows) = Reported
    BY <1>5, MountNumbers DEF MountsInv, CeilingsFit
  <2>3. Sum(child.rows) = Sum(mount.rows) + child.rows[c] - mount.rows[c]
    <3>1. \A d \in Cycles : d # c => mount.rows[d] = child.rows[d]
      BY DEF MountsInv, RowsKnown
    <3> QED
      <4>1. \A k \in Cycles :
              (\A d \in Cycles \ {k} : mount.rows[d] = child.rows[d]) =>
                Sum(child.rows) = Sum(mount.rows) + child.rows[k] - mount.rows[k]
        BY <2>1, MeterSums
      <4>2. c \in Cycles
        BY <1>1
      <4> HIDE DEF c
      <4> QED
        BY <3>1, <4>1, <4>2
  <2>4. child.rows[c] = mount.rows[c]
    <3>1. child.rows[c] \in Nat /\ mount.rows[c] \in Nat
      BY <1>1, <2>1 DEF Meter
    <3> DEFINE x == Sum(child.rows)
               y == Sum(mount.rows)
               a == child.rows[c]
               b == mount.rows[c]
    <3>2. x \in Nat /\ x = y /\ x = y + a - b /\ a \in Nat /\ b \in Nat
      BY <2>2, <2>3, <3>1, MountNumbers DEF Reported
    <3> HIDE DEF x, y, a, b
    <3>3. a = b
      BY <3>2
    <3> QED
      BY <3>3 DEF a, b
  <2>5. \A d \in Cycles : child.rows[d] \in Nat /\ mount.rows[d] = child.rows[d]
    BY <2>1, <2>4 DEF MountsInv, RowsKnown, Meter
  <2>6. spent[c] = holder.used
    BY <2>2, MountNumbers DEF MountsInv, RowsKnown
  <2>7. \A d \in Cycles : /\ d < c + 1 => spent[d] <= PlanQuota
                          /\ d > c + 1 => spent[d] = 0
    BY <1>1, <2>6, MountNumbers DEF MountsInv, RowsKnown
  <2>8. spent[c + 1] = 0
    BY <1>1 DEF MountsInv, RowsKnown
  <2> QED
    BY <1>1, <1>2, <1>3, <2>2, <2>5, <2>7, <2>8, MountNumbers DEF RowsKnown
<1>10. AnswersBound'
  BY <1>1, <1>2 DEF MountsInv, AnswersBound
<1> QED
  BY <1>4, <1>6, <1>7, <1>8, <1>9, <1>10 DEF MountsInv
-----------------------------------------------------------------------------
(* Steps of the child.                                                     *)

LEMMA ApplyRequestKeeps == ASSUME MountsInv, NEW m \in requests, ApplyRequest(m) PROVE MountsInv'
<1> DEFINE d == Delegated(m)
<1>1. /\ Sequenced(m) /\ m \in MountRequest
      /\ m.quota \in Ceiling /\ m.quota \in Int /\ m.quota >= -1
      /\ m.seq \in Nat /\ m.cycle \in Cycles /\ m.cycle \in Nat
      /\ child.cycle \in Nat /\ child.last.seq \in Nat /\ mount.seq \in Nat
  <2>1. m \in MountRequest
    BY DEF MountsInv, MountsTypeOK
  <2> QED
    BY <2>1, MountNumbers
       DEF ApplyRequest, Applicable, MountRequest, Ceiling, Unlisted, MountsInv, MountsTypeOK
<1>2. /\ d.last = m /\ d.rows = child.rows /\ d.paused = child.paused
      /\ d.cycle = IF m.quota # Unlisted /\ ~child.paused THEN m.cycle ELSE child.cycle
      /\ d.quota = IF child.paused THEN Unlisted ELSE m.quota
  BY DEF Delegated, MountsInv, MountsTypeOK
<1>3. d \in [last : MountRequest, known : BOOLEAN, cycle : Cycles,
             quota : Ceiling, lease : BOOLEAN, rows : Meter,
             catalog : Nat, paused : BOOLEAN]
  <2> DEFINE listed == m.quota # Unlisted
             lease == IF m = child.last THEN child.lease ELSE TRUE
  <2>1. /\ (child.known \/ listed) \in BOOLEAN
        /\ (lease /\ listed /\ ~child.paused) \in BOOLEAN
    OBVIOUS
  <2>2. /\ (IF listed /\ ~child.paused THEN m.cycle ELSE child.cycle) \in Cycles
        /\ (IF child.paused THEN Unlisted ELSE m.quota) \in Ceiling
    BY <1>1 DEF MountsInv, MountsTypeOK, Ceiling
  <2>3. d = [child EXCEPT !.last = m, !.known = child.known \/ listed,
                !.cycle = IF listed /\ ~child.paused THEN m.cycle ELSE child.cycle,
                !.quota = IF child.paused THEN Unlisted ELSE m.quota,
                !.lease = lease /\ listed /\ ~child.paused]
    BY DEF Delegated
  <2> HIDE DEF listed, lease, d
  <2> QED
    BY <1>1, <2>1, <2>2, <2>3 DEF MountsInv, MountsTypeOK
<1>4. /\ UNCHANGED <<holder, mount, hostLimit, requests, spent, edits>>
      /\ child' = d
      /\ \/ /\ childCore' = Admitted(d)
            /\ results' = IF Awaited(m) THEN {[known |-> d.known, rows |-> d.rows]} ELSE results
         \/ UNCHANGED <<childCore, results>>
  BY DEF ApplyRequest
<1>5. Admitted(d) \in {d.quota, Unlisted}
  BY DEF Admitted
<1> HIDE DEF d
<1>6. Reported' = Reported
  BY <1>4 DEF Reported
<1>7. \A e \in Int : Fits(e)' <=> Fits(e)
  BY <1>4, <1>6 DEF Fits
<1>8. d.quota \in {Unlisted, m.quota} /\ childCore' \in {childCore, Unlisted, d.quota}
  BY <1>2, <1>4, <1>5
<1>9. Fits(m.quota) /\ Fits(Unlisted)
  BY <1>1, UnlistedFits DEF MountsInv, CeilingsFit
<1>10. m.seq >= child.last.seq /\ child.cycle <= m.cycle /\ m.cycle <= holder.cycle
       /\ m.seq <= mount.seq /\ (m.seq = mount.seq => m.quota = mount.sent)
  BY <1>1 DEF Sequenced, MountsInv, RequestsOrdered
<1>11. ASSUME NEW n \in requests, Sequenced(n)' PROVE Sequenced(n) /\ n.seq >= m.seq
  <2>1. n.seq > m.seq \/ n = m
    BY <1>2, <1>4, <1>11 DEF Sequenced
  <2>2. n.seq \in Nat
    BY DEF MountsInv, MountsTypeOK, MountRequest
  <2> QED
    BY <1>1, <1>10, <2>1, <2>2 DEF Sequenced
<1>12. MountsTypeOK'
  <2>1. childCore' \in Ceiling
    BY <1>1, <1>8 DEF MountsInv, MountsTypeOK, Ceiling
  <2>2. [known |-> d.known, rows |-> d.rows] \in MountResult
    BY <1>3 DEF MountResult
  <2>3. results' \subseteq MountResult
    BY <1>4, <2>2 DEF MountsInv, MountsTypeOK
  <2> QED
    BY <1>3, <1>4, <2>1, <2>3 DEF MountsInv, MountsTypeOK
<1>13. CeilingsFit'
  <2>1. Fits(childCore') /\ Fits(d.quota) /\ Fits(Sum(d.rows))
    BY <1>2, <1>8, <1>9 DEF MountsInv, CeilingsFit
  <2>2. childCore' \in Int /\ d.quota \in Int /\ Sum(d.rows) \in Int
    BY <1>1, <1>2, <1>8, MountNumbers DEF Unlisted
  <2>3. Fits(childCore)' /\ Fits(child.quota)' /\ Fits(Sum(child.rows))'
    BY <1>4, <1>6, <2>1, <2>2 DEF Fits
  <2>4. ASSUME NEW n \in requests', Sequenced(n)' PROVE Fits(n.quota)'
    BY <1>4, <1>7, <1>11, <2>4, MountNumbers DEF MountsInv, CeilingsFit
  <2> QED
    BY <2>3, <2>4 DEF CeilingsFit
<1>14. RequestsOrdered'
  <2>1. ASSUME NEW n \in requests, Sequenced(n)' PROVE d.cycle <= n.cycle
    <3>1. child.cycle <= n.cycle /\ n.seq >= m.seq /\ n.seq \in Nat /\ n.cycle \in Nat
      BY <1>11, <2>1, MountNumbers DEF MountsInv, RequestsOrdered, MountsTypeOK, MountRequest
    <3>2. m.cycle <= n.cycle
      <4>1. CASE n.seq > m.seq
        BY <1>1, <4>1 DEF MountsInv, RequestsOrdered
      <4>2. CASE n = m
        BY <1>1, <4>2
      <4> QED
        BY <1>2, <1>4, <2>1, <4>1, <4>2 DEF Sequenced
    <3> QED
      BY <1>2, <3>1, <3>2
  <2>2. d.cycle <= holder.cycle
    BY <1>2, <1>10 DEF MountsInv, RequestsOrdered
  <2> QED
    BY <1>2, <1>4, <1>10, <2>1, <2>2 DEF MountsInv, RequestsOrdered
<1>15. CeilingsCurrent'
  <2>1. child.cycle = holder.cycle => d.cycle = holder.cycle
    BY <1>1, <1>2, <1>10, MountNumbers
  <2>2. ~ (Unlisted > Reported)
    BY MountNumbers DEF Unlisted
  <2>3. d.quota > Reported => d.cycle = holder.cycle
    <3>1. SUFFICES ASSUME d.quota > Reported PROVE d.cycle = holder.cycle
      OBVIOUS
    <3>2. m.quota # Unlisted /\ ~child.paused /\ d.quota = m.quota
      BY <1>2, <2>2, <3>1
    <3>3. m.cycle = holder.cycle
      BY <1>1, <3>1, <3>2 DEF MountsInv, CeilingsCurrent
    <3> QED
      BY <1>2, <3>2, <3>3
  <2>4. childCore > Reported => d.cycle = holder.cycle
    BY <2>1 DEF MountsInv, CeilingsCurrent
  <2>5. childCore' > Reported => d.cycle = holder.cycle
    BY <1>8, <2>2, <2>3, <2>4
  <2> QED
    BY <1>4, <1>6, <1>11, <2>3, <2>5 DEF MountsInv, CeilingsCurrent
<1>16. RowsKnown'
  BY <1>2, <1>4, <1>6 DEF MountsInv, RowsKnown
<1>17. AnswersBound'
  <2> SUFFICES ASSUME NEW r \in results'
               PROVE  /\ mount.calling # "no" /\ m.seq = mount.seq
                      /\ childCore' <= mount.sent /\ d.quota <= mount.sent
                      /\ \A k \in Cycles : r.rows[k] <= child.rows[k]
                      /\ Sum(child.rows) <= Larger(mount.sent, Sum(r.rows))
    BY <1>2, <1>4 DEF AnswersBound
  <2>1. CASE r \in results
    <3>1. /\ mount.calling # "no" /\ child.last.seq = mount.seq
          /\ childCore <= mount.sent /\ child.quota <= mount.sent
          /\ \A k \in Cycles : r.rows[k] <= child.rows[k]
          /\ Sum(child.rows) <= Larger(mount.sent, Sum(r.rows))
      BY <2>1 DEF MountsInv, AnswersBound
    <3>2. m.seq = mount.seq /\ m.quota = mount.sent
      BY <1>1, <1>10, <3>1
    <3> QED
      BY <1>8, <3>1, <3>2, MountNumbers DEF Unlisted
  <2>2. CASE r \notin results
    <3>1. /\ Awaited(m) /\ childCore' = Admitted(d)
          /\ r = [known |-> d.known, rows |-> d.rows]
      BY <1>4, <2>2
    <3>2. mount.calling # "no" /\ m.quota = mount.sent /\ m.seq = mount.seq
      BY <1>10, <3>1 DEF Awaited
    <3>3. childCore' <= mount.sent /\ d.quota <= mount.sent
      BY <1>5, <1>8, <3>1, <3>2, MountNumbers DEF Unlisted
    <3>4. r.rows = child.rows /\ child.rows \in Meter
      BY <1>2, <3>1 DEF MountsInv, MountsTypeOK
    <3>5. \A k \in Cycles : r.rows[k] <= child.rows[k]
      BY <3>4 DEF Meter
    <3>6. Sum(child.rows) <= Larger(mount.sent, Sum(r.rows))
      BY <3>4, MountNumbers DEF Larger
    <3> QED
      BY <3>2, <3>3, <3>5, <3>6
  <2> QED
    BY <2>1, <2>2
<1> QED
  BY <1>12, <1>13, <1>14, <1>15, <1>16, <1>17 DEF MountsInv

(* The limit of the child's core changes, to one its panel has delegated   *)
(* or to none; of the panel's record only the lease, the pause and the     *)
(* catalog do.                                                             *)
LEMMA ChildFrame ==
  ASSUME MountsInv, MountsTypeOK',
         UNCHANGED <<holder, mount, hostLimit, requests, results, spent>>,
         child'.last = child.last, child'.cycle = child.cycle,
         child'.quota = child.quota, child'.rows = child.rows,
         childCore' \in {childCore, child.quota, Unlisted}
  PROVE  MountsInv'
<1>1. Reported' = Reported
  BY DEF Reported
<1>2. /\ Fits(childCore') /\ Fits(child.quota) /\ Fits(Sum(child.rows))
      /\ childCore' \in Int
  BY UnlistedFits, MountNumbers DEF MountsInv, CeilingsFit, Unlisted
<1>3. \A m : Sequenced(m)' <=> Sequenced(m)
  BY DEF Sequenced
<1>4. CeilingsFit'
  <2>1. Fits(childCore)' /\ Fits(child.quota)' /\ Fits(Sum(child.rows))'
    BY <1>1, <1>2 DEF Fits
  <2>2. \A m \in requests' : Sequenced(m)' => Fits(m.quota)'
    BY <1>1, <1>3 DEF MountsInv, CeilingsFit, Fits
  <2> QED
    BY <2>1, <2>2 DEF CeilingsFit
<1>5. RequestsOrdered'
  BY <1>3 DEF MountsInv, RequestsOrdered
<1>6. CeilingsCurrent'
  <2>1. ~ (Unlisted > Reported)
    BY MountNumbers DEF Unlisted
  <2> QED
    BY <1>1, <1>3, <2>1 DEF MountsInv, CeilingsCurrent
<1>7. RowsKnown'
  BY <1>1 DEF MountsInv, RowsKnown
<1>8. AnswersBound'
  <2>1. Unlisted <= mount.sent
    BY MountNumbers DEF Unlisted
  <2> QED
    BY <2>1 DEF MountsInv, AnswersBound
<1> QED
  BY <1>4, <1>5, <1>6, <1>7, <1>8 DEF MountsInv

LEMMA ReconcileChildKeeps == MountsInv /\ ReconcileChild => MountsInv'
<1> SUFFICES ASSUME MountsInv, ReconcileChild PROVE MountsInv'
  OBVIOUS
<1>1. childCore' \in {childCore, child.quota, Unlisted}
  BY DEF ReconcileChild, Admitted
<1>2. MountsTypeOK'
  BY <1>1 DEF ReconcileChild, MountsInv, MountsTypeOK, Ceiling
<1> QED
  BY <1>1, <1>2, ChildFrame DEF ReconcileChild

LEMMA LeaseAndPauseKeep == MountsInv /\ (LeaseRunsOut \/ PauseChild) => MountsInv'
<1> SUFFICES ASSUME MountsInv, LeaseRunsOut \/ PauseChild PROVE MountsInv'
  OBVIOUS
<1>1. childCore' \in {childCore, child.quota, Unlisted}
  BY DEF LeaseRunsOut, PauseChild
<1>2. /\ child'.last = child.last /\ child'.cycle = child.cycle
      /\ child'.quota = child.quota /\ child'.rows = child.rows
  BY DEF LeaseRunsOut, PauseChild, MountsInv, MountsTypeOK
<1>3. MountsTypeOK'
  <2>1. (~child.paused) \in BOOLEAN
    OBVIOUS
  <2>2. child' \in [last : MountRequest, known : BOOLEAN, cycle : Cycles,
             quota : Ceiling, lease : BOOLEAN, rows : Meter,
             catalog : Nat, paused : BOOLEAN]
    <3>1. CASE LeaseRunsOut
      BY <3>1 DEF LeaseRunsOut, MountsInv, MountsTypeOK
    <3>2. CASE PauseChild
      <4> DEFINE paused == ~child.paused
                 catalog == child.catalog + 1
      <4>1. paused \in BOOLEAN /\ catalog \in Nat
        BY <2>1 DEF MountsInv, MountsTypeOK
      <4>2. child' = [child EXCEPT !.paused = paused, !.catalog = catalog]
        BY <3>2 DEF PauseChild
      <4> HIDE DEF paused, catalog
      <4> QED
        BY <4>1, <4>2 DEF MountsInv, MountsTypeOK
    <3> QED
      BY <3>1, <3>2
  <2>3. childCore' \in Ceiling /\ edits' \in Nat
    BY <1>1 DEF LeaseRunsOut, PauseChild, Edit, MountsInv, MountsTypeOK, Ceiling
  <2> QED
    BY <2>2, <2>3 DEF LeaseRunsOut, PauseChild, MountsInv, MountsTypeOK
<1> QED
  BY <1>1, <1>2, <1>3, ChildFrame DEF LeaseRunsOut, PauseChild

(* What the child serves is of the period under way and within its limit.  *)
LEMMA ChildTrafficKeeps == MountsInv /\ ChildTraffic => MountsInv'
<1> SUFFICES ASSUME MountsInv, ChildTraffic PROVE MountsInv'
  OBVIOUS
<1> DEFINE c == holder.cycle
<1>1. /\ UNCHANGED <<holder, mount, hostLimit, childCore, requests, results, edits>>
      /\ Sum(child.rows) < childCore
  BY DEF ChildTraffic
<1>2. child.cycle = c /\ c \in Cycles
  BY <1>1, MountNumbers DEF MountsInv, CeilingsCurrent
<1>3. /\ spent' = [spent EXCEPT ![c] = spent[c] + 1]
      /\ child'.rows = [child.rows EXCEPT ![c] = child.rows[c] + 1]
      /\ child' = [child EXCEPT !.rows = child'.rows]
      /\ child'.last = child.last /\ child'.cycle = child.cycle
      /\ child'.quota = child.quota
  BY <1>2 DEF ChildTraffic, MountsInv, MountsTypeOK
<1>4. child.rows \in Meter /\ mount.rows \in Meter /\ spent \in Meter
  BY DEF MountsInv, MountsTypeOK
<1>5. /\ \A d \in Cycles : /\ child.rows[d] \in Nat /\ mount.rows[d] \in Nat /\ spent[d] \in Nat
                           /\ d # c => child'.rows[d] = child.rows[d] /\ spent'[d] = spent[d]
      /\ child'.rows[c] = child.rows[c] + 1 /\ spent'[c] = spent[c] + 1
      /\ child'.rows \in Meter /\ spent' \in Meter
  BY <1>2, <1>3, <1>4 DEF Meter
<1>6. Sum(child'.rows) = Sum(child.rows) + 1
  <2>1. Sum(child'.rows) = Sum(child.rows) + child'.rows[c] - child.rows[c]
    BY <1>2, <1>4, <1>5, MeterSums
  <2> QED
    BY <1>2, <1>5, <2>1, MountNumbers
<1>7. Reported' = Reported
  BY <1>1 DEF Reported
<1>8. MountsTypeOK'
  BY <1>1, <1>3, <1>5 DEF MountsInv, MountsTypeOK
<1>9. \A m : Sequenced(m)' <=> Sequenced(m)
  BY <1>3 DEF Sequenced
<1>10. CeilingsFit'
  <2>1. Fits(childCore) /\ Fits(child.quota)
    BY DEF MountsInv, CeilingsFit
  <2>2. Fits(Sum(child.rows) + 1)
    BY <1>1, <2>1, MountNumbers DEF Fits, Larger
  <2>3. Fits(childCore)' /\ Fits(child.quota)' /\ Fits(Sum(child.rows))'
    BY <1>1, <1>3, <1>6, <1>7, <2>1, <2>2 DEF Fits
  <2>4. \A m \in requests' : Sequenced(m)' => Fits(m.quota)'
    BY <1>1, <1>7, <1>9 DEF MountsInv, CeilingsFit, Fits
  <2> QED
    BY <2>3, <2>4 DEF CeilingsFit
<1>11. RequestsOrdered' /\ CeilingsCurrent'
  BY <1>1, <1>3, <1>7, <1>9 DEF MountsInv, RequestsOrdered, CeilingsCurrent
<1>12. RowsKnown'
  <2>1. \A d \in Cycles : IF d = c THEN mount.rows[d] <= child'.rows[d]
                          ELSE mount.rows[d] = child'.rows[d]
    BY <1>2, <1>5 DEF MountsInv, RowsKnown
  <2>2. spent'[c] = holder.used + Sum(child'.rows) - Reported
    BY <1>2, <1>5, <1>6, MountNumbers DEF MountsInv, RowsKnown
  <2>3. \A d \in Cycles : /\ d < c => spent'[d] <= PlanQuota
                          /\ d > c => spent'[d] = 0
    BY <1>2, <1>5, MountNumbers DEF MountsInv, RowsKnown
  <2> QED
    BY <1>1, <1>7, <2>1, <2>2, <2>3 DEF RowsKnown
<1>13. AnswersBound'
  <2> SUFFICES ASSUME NEW r \in results
               PROVE  /\ \A d \in Cycles : r.rows[d] <= child'.rows[d]
                      /\ Sum(child'.rows) <= Larger(mount.sent, Sum(r.rows))
    BY <1>1, <1>3 DEF MountsInv, AnswersBound
  <2>1. r.rows \in Meter
    BY DEF MountsInv, MountsTypeOK, MountResult
  <2>2. \A d \in Cycles : r.rows[d] \in Nat /\ r.rows[d] <= child.rows[d]
    BY <2>1 DEF Meter, MountsInv, AnswersBound
  <2>3. childCore <= mount.sent
    BY DEF MountsInv, AnswersBound
  <2>4. Sum(r.rows) \in Nat
    BY <2>1, MeterSums
  <2>5. \A d \in Cycles : r.rows[d] <= child'.rows[d]
    BY <1>2, <1>5, <2>2
  <2> QED
    BY <1>1, <1>6, <2>3, <2>4, <2>5, MountNumbers DEF Larger
<1> QED
  BY <1>8, <1>10, <1>11, <1>12, <1>13 DEF MountsInv

(* The inductive invariant holds of every behaviour: whatever requests and *)
(* answers are lost, late or repeated, what the child may still serve is   *)
(* reserved at the main panel and fits in the member's quota.              *)
THEOREM MountsSafe == MountsSpec => []MountsInv
<1>1. MountsInv /\ [MountsNext]_MountsVars => MountsInv'
  <2> SUFFICES ASSUME MountsInv, [MountsNext]_MountsVars PROVE MountsInv'
    OBVIOUS
  <2>1. CASE UNCHANGED MountsVars
    <3>1. MountsTypeOK' /\ (holder'.pending => holder.cycle < LastCycle)
      BY <2>1 DEF MountsVars, MountsInv, MountsTypeOK, RequestsOrdered
    <3> QED
      BY <2>1, <3>1, MountFrame DEF MountsVars
  <2>2. CASE PushMount
    BY <2>2, PushMountKeeps
  <2>3. CASE GiveUpCall
    BY <2>3, HangUpKeeps DEF GiveUpCall
  <2>4. CASE \E r \in results : TakeResult(r) \/ RefuseResult(r)
    <3>1. ASSUME NEW r \in results, RefuseResult(r) PROVE MountsInv'
      BY <3>1, HangUpKeeps DEF RefuseResult
    <3> QED
      BY <2>4, <3>1, TakeResultKeeps
  <2>5. CASE ReconcileHost \/ HostTraffic
    BY <2>5, ReconcileHostKeeps, HostTrafficKeeps
  <2>6. CASE EditMount \/ ToggleHolder \/ StopHolder
    BY <2>6, EditMountKeeps, HolderFlagsKeep
  <2>7. CASE TurnCycle
    BY <2>7, TurnCycleKeeps
  <2>8. CASE \E m \in requests : ApplyRequest(m)
    BY <2>8, ApplyRequestKeeps
  <2>9. CASE ReconcileChild \/ ChildTraffic \/ LeaseRunsOut \/ PauseChild
    BY <2>9, ReconcileChildKeeps, ChildTrafficKeeps, LeaseAndPauseKeep
  <2> QED
    BY <2>1, <2>2, <2>3, <2>4, <2>5, <2>6, <2>7, <2>8, <2>9 DEF MountsNext
<1> QED
  BY <1>1, MountsInitInv, PTL DEF MountsSpec

(* Both panels together serve a member no more than his quota in any       *)
(* period, for every quota and any number of periods and requests.         *)
THEOREM PeriodsWithinQuota == MountsSpec => []PeriodWithinQuota
<1> QED
  BY MountsSafe, MountsInvMeans, PTL
-----------------------------------------------------------------------------
(* Sites that pull their policy.                                           *)

(* The inductive invariant of SiteGrants.                                  *)
Covered(s, q) == q = NoQuota \/ site[s].unlimited \/ (q > 0 /\ q <= site[s].issued)

(* Closed periods are those before the current one, and of later ones      *)
(* nothing is measured yet.                                                *)
PeriodsInOrder ==
  /\ \A p \in Periods : closed[p] # NoQuota <=> p < member.period
  /\ member.pending => member.period < LastPeriod
  /\ \A p \in Periods : p > member.period =>
       localUse[p] = 0 /\ \A s \in Sites : agent[s].rows[p] = 0

(* What the panel has taken from the sites of a period.                    *)
TakenBy(f, p) == SumFunctionOnSet([s \in Sites |-> f[s].rows[p]], Sites)

(* Every period is billed what was measured in it, and a site forgets no   *)
(* row the panel has not taken.                                            *)
BilledOnce ==
  /\ \A p \in Periods : closed[p] # NoQuota => closed[p] = localUse[p] + TakenBy(site, p)
  /\ QuotaUsed(member) = localUse[member.period] + TakenBy(site, member.period)
  /\ \A p \in Periods : \A s \in Sites : /\ agent[s].acked[p] <= site[s].rows[p]
                                        /\ site[s].rows[p] <= agent[s].rows[p]

(* The panel's record agrees with the policy it sent last.                 *)
RecordSound(s) ==
  /\ site[s].desired.quota = 0 => site[s].sent = 0
  /\ site[s].desired.quota > 0 => site[s].desired.quota <= site[s].sent
  /\ site[s].sent > 0 => site[s].sent <= site[s].issued

(* A site acts on the policy it has applied, unless it died over one.      *)
AgentSound(s) ==
  LET a == agent[s] IN
  /\ a.period <= member.period
  /\ a.known => a.period \in Periods
  /\ ~a.known => \A p \in Periods : a.rows[p] = 0
  /\ a.torn \/ (a.quota \in {NoQuota, a.applied.quota} /\ Covered(s, a.quota))

(* What is between a site and the panel.                                   *)
WireSound(s) ==
  /\ Reporting(s) =>
       /\ wire[s].applied = agent[s].applied
       /\ \A p \in Periods : wire[s].rows[p] <= agent[s].rows[p]
       /\ wire[s].used = NoQuota => \A p \in Periods : wire[s].rows[p] = NoQuota
  /\ Answered(s) =>
       /\ \A p \in Periods : wire[s].ack[p] <= site[s].rows[p]
       /\ wire[s].policy.quota # NoQuota => wire[s].policy.period \in 1 .. member.period
       /\ Covered(s, wire[s].policy.quota)

GrantsInv ==
  /\ GrantsTypeOK /\ PeriodsInOrder /\ BilledOnce
  /\ \A s \in Sites : RecordSound(s) /\ AgentSound(s) /\ WireSound(s)
-----------------------------------------------------------------------------
(* Sums over periods and over sites.                                       *)

LEMMA PeriodsFinite == IsFiniteSet(Periods) /\ IsFiniteSet(Sites) /\ Periods \subseteq Nat /\ 1 \in Periods
<1>1. LastPeriod \in Nat \ {0} /\ IsFiniteSet(Sites)
  BY GrantsAssumption
<1>2. IsFiniteSet(1 .. LastPeriod)
  BY <1>1, FS_Interval
<1> QED
  BY <1>1, <1>2 DEF Periods

LEMMA RowTotals == \A rows \in Rows : Total(rows) \in Nat
<1> SUFFICES ASSUME NEW rows \in Rows PROVE Total(rows) \in Nat
  OBVIOUS
<1>1. \A p \in Periods : rows[p] \in Nat
  BY DEF Rows
<1>2. Total(rows) = SumFunctionOnSet(rows, Periods)
  BY DEF Total, SumFunction, Rows
<1> QED
  BY <1>1, <1>2, PeriodsFinite, SumOfNaturals

LEMMA TakenSums ==
  ASSUME NEW f, NEW g, NEW p \in Periods,
         \A t \in Sites : f[t].rows[p] \in Nat /\ g[t].rows[p] \in Nat
  PROVE  /\ TakenBy(f, p) \in Nat
         /\ \A s \in Sites, d \in Int :
              (\A t \in Sites : g[t].rows[p] = IF t = s THEN f[t].rows[p] + d ELSE f[t].rows[p])
              => TakenBy(g, p) = TakenBy(f, p) + d
         /\ (\A t \in Sites : g[t].rows[p] = f[t].rows[p]) => TakenBy(g, p) = TakenBy(f, p)
         /\ (\A t \in Sites : g[t].rows[p] = 0) => TakenBy(g, p) = 0
<1> DEFINE F == [t \in Sites |-> f[t].rows[p]]
           G == [t \in Sites |-> g[t].rows[p]]
<1>1. \A t \in Sites : /\ F[t] = f[t].rows[p] /\ G[t] = g[t].rows[p]
                       /\ F[t] \in Nat /\ G[t] \in Nat
  OBVIOUS
<1>2. TakenBy(f, p) = SumFunctionOnSet(F, Sites) /\ TakenBy(g, p) = SumFunctionOnSet(G, Sites)
  BY DEF TakenBy
<1> HIDE DEF F, G
<1>3. SumFunctionOnSet(F, Sites) \in Nat
  BY <1>1, PeriodsFinite, SumOfNaturals
<1>4. ASSUME NEW s \in Sites, NEW d \in Int,
             \A t \in Sites : g[t].rows[p] = IF t = s THEN f[t].rows[p] + d ELSE f[t].rows[p]
      PROVE  SumFunctionOnSet(G, Sites) = SumFunctionOnSet(F, Sites) + d
  <2>1. \A t \in Sites : F[t] \in Int /\ G[t] \in Int /\ (t # s => G[t] = F[t])
    BY <1>1, <1>4
  <2>2. G[s] = F[s] + d
    BY <1>1, <1>4
  <2>3. \A e \in Int : G[s] = F[s] + e => SumFunctionOnSet(G, Sites) = SumFunctionOnSet(F, Sites) + e
    BY <2>1, PeriodsFinite, SumChange
  <2> QED
    BY <2>2, <2>3
<1>5. ASSUME \A t \in Sites : g[t].rows[p] = f[t].rows[p]
      PROVE  SumFunctionOnSet(G, Sites) = SumFunctionOnSet(F, Sites)
  <2>1. \A t \in Sites : G[t] \in Int /\ G[t] = F[t]
    BY <1>1, <1>5
  <2> QED
    BY <2>1, PeriodsFinite, SumSame
<1>6. ASSUME \A t \in Sites : g[t].rows[p] = 0
      PROVE  SumFunctionOnSet(G, Sites) = 0
  <2>1. \A t \in Sites : G[t] \in Int /\ G[t] = 0
    BY <1>1, <1>6
  <2> QED
    BY <2>1, PeriodsFinite, SumOfZeros
<1> QED
  BY <1>2, <1>3, <1>4, <1>5, <1>6

(* The reservations of all sites are one site's and those of the others.   *)
HeldBy(f, S) == SumFunctionOnSet([t \in Sites |-> Reserved(f[t])], S)

LEMMA HeldSums ==
  ASSUME NEW f, NEW g, NEW s \in Sites,
         \A t \in Sites : Reserved(f[t]) \in Nat /\ Reserved(g[t]) \in Nat,
         \A t \in Sites \ {s} : g[t] = f[t]
  PROVE  /\ HeldBy(f, Sites \ {s}) \in Nat
         /\ HeldBy(g, Sites) = Reserved(g[s]) + HeldBy(f, Sites \ {s})
<1> DEFINE F == [t \in Sites |-> Reserved(f[t])]
           G == [t \in Sites |-> Reserved(g[t])]
<1>1. \A t \in Sites : /\ F[t] = Reserved(f[t]) /\ G[t] = Reserved(g[t])
                       /\ F[t] \in Nat /\ G[t] \in Nat
                       /\ t # s => G[t] = F[t]
  OBVIOUS
<1>2. /\ HeldBy(f, Sites \ {s}) = SumFunctionOnSet(F, Sites \ {s})
      /\ HeldBy(g, Sites) = SumFunctionOnSet(G, Sites)
  BY DEF HeldBy
<1> HIDE DEF F, G
<1>3. IsFiniteSet(Sites) /\ IsFiniteSet(Sites \ {s}) /\ Sites \ {s} \in SUBSET Sites
  BY PeriodsFinite, FS_RemoveElement
<1>4. SumFunctionOnSet(F, Sites \ {s}) \in Nat
  BY <1>1, <1>3, SumOfNaturals
<1>5. SumFunctionOnSet(G, Sites \ {s}) = SumFunctionOnSet(F, Sites \ {s})
  <2>1. \A t \in Sites \ {s} : G[t] \in Int /\ G[t] = F[t]
    BY <1>1
  <2> QED
    BY <1>3, <2>1, SumSame
<1>6. SumFunctionOnSet(G, Sites) = G[s] + SumFunctionOnSet(G, Sites \ {s})
  <2>1. \A t \in Sites : G[t] \in Int
    BY <1>1
  <2> QED
    BY <1>3, <2>1, SumTakeOut
<1> QED
  BY <1>1, <1>2, <1>4, <1>5, <1>6
-----------------------------------------------------------------------------
SiteRecords ==
  [grant : Limits, budget : Nat, enabled : BOOLEAN, removed : BOOLEAN, issued : Limits,
   unlimited : BOOLEAN, sent : Limits, desired : Revisions, used : Limits, rows : Rows]
AgentRecords ==
  [known : BOOLEAN, quota : Limits, lease : BOOLEAN, period : Periods \union {0},
   torn : BOOLEAN, applied : Revisions, flow : Nat, rows : Rows, acked : Rows]
MemberRecords ==
  [quota : Nat, meter : Nat, base : Nat, period : Periods, pending : BOOLEAN]

LEMMA GrantsTypes ==
  GrantsTypeOK <=>
    /\ member \in MemberRecords /\ closed \in [Periods -> Limits]
    /\ site \in [Sites -> SiteRecords] /\ agent \in [Sites -> AgentRecords]
    /\ wire \in [Sites -> Reports \union Answers \union {Idle}]
    /\ localUse \in Rows /\ {changes, failures} \subseteq Nat
<1> QED
  BY DEF GrantsTypeOK, SiteRecords, AgentRecords, MemberRecords

(* A report, an answer and silence are told apart.                         *)
LEMMA WireTypes ==
  ASSUME GrantsTypeOK, NEW s \in Sites
  PROVE  /\ Reporting(s) => wire[s] \in Reports
         /\ Answered(s) => wire[s] \in Answers
<1>1. \A w \in Reports : DOMAIN w = {"applied", "used", "rows"}
  BY DEF Reports
<1>2. \A w \in Answers : DOMAIN w = {"policy", "ack"}
  BY DEF Answers
<1>3. wire[s] \in Reports \union Answers \union {Idle}
  BY GrantsTypes
<1> QED
  BY <1>1, <1>2, <1>3 DEF Reporting, Answered

LEMMA ReportOrAnswer ==
  /\ \A w \in Reports : "applied" \in DOMAIN w /\ "policy" \notin DOMAIN w
  /\ \A w \in Answers : "policy" \in DOMAIN w /\ "applied" \notin DOMAIN w
<1> QED
  BY DEF Reports, Answers

LEMMA AbsentPolicies ==
  /\ Withdrawn \in Policies /\ Withdrawn.quota = NoQuota /\ Policies \subseteq Revisions
  /\ Unapplied \in Revisions /\ Unapplied.quota = NoQuota
  /\ \A r \in Revisions : r.quota \in Limits
  /\ \A q \in Limits : q \in Int /\ (q = NoQuota \/ q \in Nat)
  /\ NoQuota = -1 /\ NoQuota \in Limits /\ Nat \subseteq Limits
<1> QED
  BY DEF Withdrawn, Policies, Unapplied, Revisions, Limits, NoQuota

LEMMA GrantsInvMeans == GrantsInv => TrafficIsBilledOnce /\ ReservationCoversSite
<1> SUFFICES ASSUME GrantsInv PROVE TrafficIsBilledOnce /\ ReservationCoversSite
  OBVIOUS
<1>1. DOMAIN closed = Periods /\ DOMAIN site = Sites
  BY DEF GrantsInv, GrantsTypeOK
<1>2. TrafficIsBilledOnce
  <2> SUFFICES ASSUME NEW p \in Periods
               PROVE  /\ closed[p] # NoQuota => closed[p] = localUse[p] + TakenBy(site, p)
                      /\ p = member.period => QuotaUsed(member) = localUse[p] + TakenBy(site, p)
                      /\ \A s \in Sites : /\ agent[s].acked[p] <= site[s].rows[p]
                                          /\ site[s].rows[p] <= agent[s].rows[p]
    BY <1>1 DEF TrafficIsBilledOnce, TakenBy
  <2> QED
    BY DEF GrantsInv, BilledOnce
<1>3. ReservationCoversSite
  BY <1>1 DEF ReservationCoversSite, GrantsInv, AgentSound, WireSound, Covered
<1> QED
  BY <1>2, <1>3

LEMMA GrantsInitInv == GrantsInit => GrantsInv
<1> SUFFICES ASSUME GrantsInit PROVE GrantsInv
  OBVIOUS
<1>1. NoRows \in Rows /\ \A p \in Periods : NoRows[p] = 0
  BY DEF NoRows, Rows
<1>2. Periods \subseteq Nat /\ 1 \in Periods /\ LastPeriod \in Nat /\ \A p \in Periods : p >= 1
  BY PeriodsFinite, GrantsAssumption DEF Periods
<1>3. PICK granted \in SUBSET Sites, q \in Ceilings :
       site = [s \in Sites |->
            [grant |-> IF s \in granted THEN q ELSE NoQuota,
             budget |-> IF s \in granted THEN q ELSE 0, enabled |-> TRUE,
             removed |-> FALSE, issued |-> NoQuota, unlimited |-> FALSE,
             sent |-> NoQuota, desired |-> Unapplied, used |-> NoQuota,
             rows |-> NoRows]]
  BY DEF GrantsInit
<1>4. \A s \in Sites : /\ site[s] \in SiteRecords /\ site[s].rows = NoRows
                       /\ site[s].sent = NoQuota /\ site[s].desired = Unapplied
  <2> SUFFICES ASSUME NEW s \in Sites
               PROVE  /\ site[s] \in SiteRecords /\ site[s].rows = NoRows
                      /\ site[s].sent = NoQuota /\ site[s].desired = Unapplied
    OBVIOUS
  <2> DEFINE grant == IF s \in granted THEN q ELSE NoQuota
             budget == IF s \in granted THEN q ELSE 0
  <2>1. grant \in Limits /\ budget \in Nat
    BY AbsentPolicies, GrantsAssumption
  <2>2. site[s] = [grant |-> grant, budget |-> budget, enabled |-> TRUE,
             removed |-> FALSE, issued |-> NoQuota, unlimited |-> FALSE,
             sent |-> NoQuota, desired |-> Unapplied, used |-> NoQuota,
             rows |-> NoRows]
    BY <1>3
  <2> HIDE DEF grant, budget
  <2> QED
    BY <1>1, <2>1, <2>2, AbsentPolicies DEF SiteRecords
<1>5. \A s \in Sites : /\ agent[s] \in AgentRecords /\ agent[s].rows = NoRows
                       /\ agent[s].acked = NoRows /\ agent[s].quota = NoQuota
                       /\ agent[s].period = 0 /\ agent[s].known = FALSE
                       /\ wire[s] = Idle
  BY <1>1, AbsentPolicies DEF GrantsInit, AgentRecords
<1>6. GrantsTypeOK
  <2>1. member \in MemberRecords /\ localUse \in Rows /\ {changes, failures} \subseteq Nat
    BY <1>1, <1>2, GrantsAssumption DEF GrantsInit, MemberRecords
  <2>2. closed \in [Periods -> Limits] /\ wire \in [Sites -> Reports \union Answers \union {Idle}]
    BY AbsentPolicies DEF GrantsInit
  <2>3. site \in [Sites -> SiteRecords] /\ agent \in [Sites -> AgentRecords]
    <3>1. DOMAIN site = Sites /\ site = [s \in Sites |-> site[s]]
      BY <1>3
    <3>2. DOMAIN agent = Sites /\ agent = [s \in Sites |-> agent[s]]
      BY DEF GrantsInit
    <3> QED
      BY <1>4, <1>5, <3>1, <3>2
  <2> QED
    BY <2>1, <2>2, <2>3, GrantsTypes
<1>7. /\ member.period = 1 /\ ~member.pending /\ QuotaUsed(member) = 0
      /\ \A p \in Periods : closed[p] = NoQuota /\ localUse[p] = 0
  BY <1>1 DEF GrantsInit, QuotaUsed
<1>8. PeriodsInOrder
  <2>1. \A p \in Periods : p \in Nat /\ p >= 1 /\ closed[p] = NoQuota /\ localUse[p] = 0
    BY <1>2, <1>7
  <2>2. \A p \in Periods : \A s \in Sites : agent[s].rows[p] = 0
    BY <1>1, <1>5
  <2>3. \A p \in Periods : closed[p] # NoQuota <=> p < member.period
    BY <1>7, <2>1
  <2> QED
    BY <1>7, <2>1, <2>2, <2>3 DEF PeriodsInOrder
<1>9. BilledOnce
  <2>1. TakenBy(site, 1) = 0
    <3>1. \A t \in Sites : site[t].rows[1] \in Nat /\ site[t].rows[1] \in Nat /\ site[t].rows[1] = 0
      BY <1>1, <1>2, <1>4
    <3> QED
      BY <1>2, <3>1, TakenSums
  <2>2. \A p \in Periods : \A s \in Sites :
           agent[s].acked[p] <= site[s].rows[p] /\ site[s].rows[p] <= agent[s].rows[p]
    BY <1>1, <1>4, <1>5
  <2> QED
    BY <1>2, <1>7, <2>1, <2>2 DEF BilledOnce
<1>10. ASSUME NEW s \in Sites PROVE RecordSound(s) /\ AgentSound(s) /\ WireSound(s)
  BY <1>1, <1>2, <1>4, <1>5, <1>7, AbsentPolicies
     DEF RecordSound, AgentSound, WireSound, Covered, Reporting, Answered
<1> QED
  BY <1>6, <1>8, <1>9, <1>10 DEF GrantsInv

(* The facts of the invariant about one site.                              *)
LEMMA GrantFacts ==
  ASSUME GrantsInv, NEW s \in Sites
  PROVE  /\ GrantsTypeOK /\ member \in MemberRecords /\ member.period \in Periods
         /\ site[s] \in SiteRecords /\ agent[s] \in AgentRecords
         /\ \A p \in Periods : /\ site[s].rows[p] \in Nat /\ agent[s].rows[p] \in Nat
                               /\ agent[s].acked[p] \in Nat /\ localUse[p] \in Nat
                               /\ agent[s].acked[p] <= site[s].rows[p]
                               /\ site[s].rows[p] <= agent[s].rows[p]
                               /\ p > member.period => agent[s].rows[p] = 0
                               /\ p > member.period => site[s].rows[p] = 0
                               /\ p \in Nat /\ p >= 1
         /\ RecordSound(s) /\ AgentSound(s) /\ WireSound(s)
<1>1. GrantsTypeOK /\ RecordSound(s) /\ AgentSound(s) /\ WireSound(s)
  BY DEF GrantsInv
<1>2. /\ site[s] \in SiteRecords /\ agent[s] \in AgentRecords /\ member \in MemberRecords
      /\ localUse \in Rows
  BY <1>1, GrantsTypes
<1>3. member.period \in Periods
  BY <1>2 DEF MemberRecords
<1>4. site[s].rows \in Rows /\ agent[s].rows \in Rows /\ agent[s].acked \in Rows
  BY <1>2 DEF SiteRecords, AgentRecords
<1>5. \A p \in Periods : /\ site[s].rows[p] \in Nat /\ agent[s].rows[p] \in Nat
                         /\ agent[s].acked[p] \in Nat /\ localUse[p] \in Nat
                         /\ p \in Nat /\ p >= 1
  <2>1. \A p \in Periods : p \in Nat /\ p >= 1
    BY DEF Periods
  <2> QED
    BY <1>2, <1>4, <2>1 DEF Rows
<1>6. \A p \in Periods : agent[s].acked[p] <= site[s].rows[p] /\ site[s].rows[p] <= agent[s].rows[p]
  BY DEF GrantsInv, BilledOnce
<1>7. \A p \in Periods : p > member.period => agent[s].rows[p] = 0
  BY DEF GrantsInv, PeriodsInOrder
<1> QED
  BY <1>1, <1>2, <1>3, <1>5, <1>6, <1>7
-----------------------------------------------------------------------------
(* Steps of a site.                                                        *)

(* A step of one site which leaves the panel alone.                        *)
LEMMA SiteFrame ==
  ASSUME GrantsInv, NEW s \in Sites, NEW b \in AgentRecords,
         NEW x \in Reports \union Answers \union {Idle},
         agent' = [agent EXCEPT ![s] = b], wire' = [wire EXCEPT ![s] = x],
         UNCHANGED <<member, closed, site, localUse>>, {changes, failures}' \subseteq Nat,
         \A p \in Periods : /\ b.acked[p] <= site[s].rows[p] /\ site[s].rows[p] <= b.rows[p]
                            /\ p > member.period => b.rows[p] = 0,
         AgentSound(s)', WireSound(s)'
  PROVE  GrantsInv'
<1>1. /\ agent \in [Sites -> AgentRecords]
      /\ wire \in [Sites -> Reports \union Answers \union {Idle}]
      /\ GrantsTypeOK
  BY GrantsTypes DEF GrantsInv
<1>2. \A t \in Sites : /\ agent'[t] = IF t = s THEN b ELSE agent[t]
                       /\ wire'[t] = IF t = s THEN x ELSE wire[t]
  BY <1>1
<1>3. GrantsTypeOK'
  <2>1. /\ agent' \in [Sites -> AgentRecords]
        /\ wire' \in [Sites -> Reports \union Answers \union {Idle}]
    BY <1>1
  <2>2. /\ member' \in MemberRecords /\ closed' \in [Periods -> Limits]
        /\ site' \in [Sites -> SiteRecords] /\ localUse' \in Rows
    BY <1>1, GrantsTypes
  <2> QED
    BY <2>1, <2>2 DEF GrantsTypeOK, SiteRecords, AgentRecords, MemberRecords
<1>4. PeriodsInOrder'
  <2>1. \A p \in Periods : p > member.period => \A t \in Sites : agent'[t].rows[p] = 0
    BY <1>2 DEF GrantsInv, PeriodsInOrder
  <2> QED
    BY <2>1 DEF GrantsInv, PeriodsInOrder
<1>5. BilledOnce'
  <2>1. \A p \in Periods : \A t \in Sites :
           agent'[t].acked[p] <= site[t].rows[p] /\ site[t].rows[p] <= agent'[t].rows[p]
    BY <1>2 DEF GrantsInv, BilledOnce
  <2>2. \A p \in Periods : closed[p] # NoQuota => closed[p] = localUse[p] + TakenBy(site, p)
    BY DEF GrantsInv, BilledOnce
  <2>3. QuotaUsed(member) = localUse[member.period] + TakenBy(site, member.period)
    BY DEF GrantsInv, BilledOnce
  <2> QED
    BY <2>1, <2>2, <2>3 DEF BilledOnce
<1>6. ASSUME NEW t \in Sites PROVE (RecordSound(t) /\ AgentSound(t) /\ WireSound(t))'
  <2>1. RecordSound(t) /\ AgentSound(t) /\ WireSound(t)
    BY DEF GrantsInv
  <2>2. CASE t = s
    BY <2>1, <2>2 DEF RecordSound
  <2>3. CASE t # s
    BY <1>2, <2>1, <2>3 DEF RecordSound, AgentSound, WireSound, Reporting, Answered, Covered
  <2> QED
    BY <2>2, <2>3
<1> QED
  BY <1>3, <1>4, <1>5, <1>6 DEF GrantsInv

(* What is collected of the counters is of the site's period, and changes  *)
(* nothing else.                                                           *)
LEMMA CollectedRows ==
  ASSUME GrantsInv, NEW s \in Sites, NEW a \in AgentRecords,
         a.rows = agent[s].rows, a.period = agent[s].period, a.known = agent[s].known,
         NEW b \in Collected(a)
  PROVE  /\ b \in AgentRecords
         /\ b.known = a.known /\ b.quota = a.quota /\ b.lease = a.lease
         /\ b.period = a.period /\ b.torn = a.torn /\ b.applied = a.applied
         /\ b.acked = a.acked
         /\ \A p \in Periods : /\ b.rows[p] \in Nat /\ a.rows[p] <= b.rows[p]
                               /\ p > member.period => b.rows[p] = 0
                               /\ ~a.known => b.rows[p] = 0
<1>1. /\ a.known => a.period \in Periods
      /\ a.period <= member.period
      /\ ~a.known => \A p \in Periods : a.rows[p] = 0
      /\ \A p \in Periods : a.rows[p] \in Nat /\ (p > member.period => a.rows[p] = 0)
  BY GrantFacts DEF AgentSound
<1>2. a.flow \in Nat /\ a.rows \in Rows /\ Periods \subseteq Nat
  BY PeriodsFinite DEF AgentRecords
<1>3. CASE b = a
  BY <1>1, <1>3
<1>4. CASE a.known /\ b = [a EXCEPT !.rows[a.period] = @ + a.flow, !.flow = 0]
  <2> DEFINE rows == [a.rows EXCEPT ![a.period] = a.rows[a.period] + a.flow]
  <2>1. /\ rows \in Rows
        /\ \A p \in Periods : rows[p] = IF p = a.period THEN a.rows[p] + a.flow ELSE a.rows[p]
    BY <1>1, <1>2, <1>4 DEF Rows
  <2>2. b = [a EXCEPT !.rows = rows, !.flow = 0]
    BY <1>4 DEF AgentRecords
  <2> HIDE DEF rows
  <2>3. /\ b \in AgentRecords /\ b.rows = rows
        /\ b.known = a.known /\ b.quota = a.quota /\ b.lease = a.lease
        /\ b.period = a.period /\ b.torn = a.torn /\ b.applied = a.applied
        /\ b.acked = a.acked
    BY <2>1, <2>2 DEF AgentRecords
  <2>4. member.period \in Nat
    BY <1>2, GrantFacts
  <2>5. \A p \in Periods : /\ rows[p] \in Nat /\ a.rows[p] <= rows[p]
                           /\ p > member.period => rows[p] = 0
    BY <1>1, <1>2, <1>4, <2>1, <2>4
  <2> QED
    BY <1>4, <2>3, <2>5
<1>5. b = a \/ (a.known /\ b = [a EXCEPT !.rows[a.period] = @ + a.flow, !.flow = 0])
  BY DEF Collected
<1> QED
  BY <1>3, <1>4, <1>5

(* A step of a site that changes nothing the invariant relates.            *)
LEMMA QuietAgent ==
  ASSUME GrantsInv, NEW s \in Sites, NEW b \in AgentRecords,
         b.rows = agent[s].rows, b.acked = agent[s].acked, b.known = agent[s].known,
         b.period = agent[s].period, b.torn = agent[s].torn,
         b.quota = agent[s].quota, b.applied = agent[s].applied,
         NEW x \in {wire[s], Idle},
         agent' = [agent EXCEPT ![s] = b], wire' = [wire EXCEPT ![s] = x],
         UNCHANGED <<member, closed, site, localUse>>, {changes, failures}' \subseteq Nat
  PROVE  GrantsInv'
<1>1. agent'[s] = b /\ wire'[s] = x /\ wire[s] \in Reports \union Answers \union {Idle}
  BY GrantsTypes DEF GrantsInv
<1>2. \A p \in Periods : /\ b.acked[p] <= site[s].rows[p] /\ site[s].rows[p] <= b.rows[p]
                         /\ p > member.period => b.rows[p] = 0
  BY GrantFacts
<1>3. AgentSound(s)'
  BY <1>1, GrantFacts DEF AgentSound, Covered
<1>4. WireSound(s)'
  BY <1>1, GrantFacts DEF WireSound, Covered, Reporting, Answered
<1> QED
  BY <1>1, <1>2, <1>3, <1>4, SiteFrame

LEMMA SiteTrafficKeeps == ASSUME GrantsInv, NEW s \in Sites, SiteTraffic(s) PROVE GrantsInv'
<1> DEFINE b == [agent[s] EXCEPT !.flow = agent[s].flow + 1]
<1>1. agent[s] \in AgentRecords /\ agent[s].flow + 1 \in Nat
  BY GrantFacts DEF AgentRecords
<1>2. /\ b \in AgentRecords /\ b.rows = agent[s].rows /\ b.acked = agent[s].acked
      /\ b.known = agent[s].known /\ b.period = agent[s].period /\ b.torn = agent[s].torn
      /\ b.quota = agent[s].quota /\ b.applied = agent[s].applied
  BY <1>1 DEF AgentRecords
<1>3. /\ agent' = [agent EXCEPT ![s] = b] /\ wire' = [wire EXCEPT ![s] = wire[s]]
      /\ UNCHANGED <<member, closed, site, localUse>> /\ {changes, failures}' \subseteq Nat
  BY GrantsTypes DEF SiteTraffic, GrantsInv
<1> HIDE DEF b
<1>4. wire[s] \in {wire[s], Idle}
  OBVIOUS
<1> QED
  BY <1>2, <1>3, <1>4, QuietAgent

LEMMA LeaseExpiresKeeps == ASSUME GrantsInv, NEW s \in Sites, LeaseExpires(s) PROVE GrantsInv'
<1> DEFINE b == [agent[s] EXCEPT !.lease = FALSE]
<1>1. agent[s] \in AgentRecords
  BY GrantFacts
<1>2. /\ b \in AgentRecords /\ b.rows = agent[s].rows /\ b.acked = agent[s].acked
      /\ b.known = agent[s].known /\ b.period = agent[s].period /\ b.torn = agent[s].torn
      /\ b.quota = agent[s].quota /\ b.applied = agent[s].applied
  BY <1>1 DEF AgentRecords
<1>3. /\ agent' = [agent EXCEPT ![s] = b] /\ wire' = [wire EXCEPT ![s] = wire[s]]
      /\ UNCHANGED <<member, closed, site, localUse>> /\ {changes, failures}' \subseteq Nat
  BY GrantsTypes DEF LeaseExpires, GrantsInv
<1> HIDE DEF b
<1>4. wire[s] \in {wire[s], Idle}
  OBVIOUS
<1> QED
  BY <1>2, <1>3, <1>4, QuietAgent

LEMMA WireClearedKeeps ==
  ASSUME GrantsInv, NEW s \in Sites, wire' = [wire EXCEPT ![s] = Idle],
         UNCHANGED <<member, closed, site, agent, localUse, changes, failures>>
  PROVE  GrantsInv'
<1>1. agent' = [agent EXCEPT ![s] = agent[s]] /\ {changes, failures}' \subseteq Nat
  BY GrantsTypes DEF GrantsInv
<1>2. agent[s] \in AgentRecords /\ Idle \in {wire[s], Idle}
  BY GrantFacts
<1> QED
  BY <1>1, <1>2, QuietAgent

LEMMA SampleKeeps == ASSUME GrantsInv, NEW s \in Sites, Sample(s) PROVE GrantsInv'
<1>1. PICK b \in Collected(agent[s]) : agent' = [agent EXCEPT ![s] = b]
  BY DEF Sample
<1>2. /\ wire' = [wire EXCEPT ![s] = wire[s]]
      /\ UNCHANGED <<member, closed, site, localUse>> /\ {changes, failures}' \subseteq Nat
      /\ wire[s] \in Reports \union Answers \union {Idle}
  BY GrantsTypes DEF Sample, GrantsInv
<1>3. agent[s] \in AgentRecords
  BY GrantFacts
<1>4. /\ b \in AgentRecords
      /\ b.known = agent[s].known /\ b.quota = agent[s].quota
      /\ b.period = agent[s].period /\ b.torn = agent[s].torn /\ b.applied = agent[s].applied
      /\ b.acked = agent[s].acked
      /\ \A p \in Periods : /\ b.rows[p] \in Nat /\ agent[s].rows[p] <= b.rows[p]
                            /\ p > member.period => b.rows[p] = 0
                            /\ ~agent[s].known => b.rows[p] = 0
  BY <1>3, CollectedRows
<1>5. agent'[s] = b /\ wire'[s] = wire[s]
  BY <1>1, <1>2, GrantsTypes DEF GrantsInv
<1>6. \A p \in Periods : /\ b.acked[p] <= site[s].rows[p] /\ site[s].rows[p] <= b.rows[p]
                         /\ p > member.period => b.rows[p] = 0
  BY <1>4, GrantFacts
<1>7. AgentSound(s)'
  BY <1>2, <1>4, <1>5, GrantFacts DEF AgentSound, Covered
<1>8. WireSound(s)'
  <2>1. ASSUME Reporting(s)
        PROVE  \A p \in Periods : wire[s].rows[p] <= b.rows[p]
    <3>1. \A p \in Periods : wire[s].rows[p] \in Int /\ wire[s].rows[p] <= agent[s].rows[p]
      BY <2>1, WireTypes, GrantFacts, AbsentPolicies DEF Reports, WireSound
    <3> QED
      BY <1>4, <3>1, GrantFacts
  <2> QED
    BY <1>2, <1>4, <1>5, <2>1, GrantFacts DEF WireSound, Covered, Reporting, Answered
<1> QED
  BY <1>1, <1>2, <1>4, <1>6, <1>7, <1>8, SiteFrame

(* A report of what is not acknowledged yet.                               *)
LEMMA ReportSent ==
  ASSUME GrantsInv, NEW s \in Sites, NEW b \in AgentRecords, NEW x \in Reports,
         agent' = [agent EXCEPT ![s] = b], wire' = [wire EXCEPT ![s] = x],
         UNCHANGED <<member, closed, site, localUse>>, {changes, failures}' \subseteq Nat,
         b.known = agent[s].known, b.quota = agent[s].quota,
         b.period = agent[s].period, b.torn = agent[s].torn, b.applied = agent[s].applied,
         b.acked = agent[s].acked,
         \A p \in Periods : /\ b.rows[p] \in Nat /\ agent[s].rows[p] <= b.rows[p]
                            /\ p > member.period => b.rows[p] = 0
                            /\ ~agent[s].known => b.rows[p] = 0
                            /\ x.rows[p] <= b.rows[p],
         x.applied = b.applied,
         x.used = NoQuota => \A p \in Periods : x.rows[p] = NoQuota
  PROVE  GrantsInv'
<1>1. agent'[s] = b /\ wire'[s] = x
  BY GrantsTypes DEF GrantsInv
<1>2. \A p \in Periods : /\ b.acked[p] <= site[s].rows[p] /\ site[s].rows[p] <= b.rows[p]
                         /\ p > member.period => b.rows[p] = 0
  BY GrantFacts
<1>3. AgentSound(s)'
  BY <1>1, GrantFacts DEF AgentSound, Covered
<1>4. WireSound(s)'
  <2>1. ~Answered(s)'
    BY <1>1, ReportOrAnswer DEF Answered
  <2> QED
    BY <1>1, <2>1 DEF WireSound
<1>5. x \in Reports \union Answers \union {Idle}
  OBVIOUS
<1> QED
  BY <1>2, <1>3, <1>4, <1>5, SiteFrame

LEMMA SendReportKeeps == ASSUME GrantsInv, NEW s \in Sites, SendReport(s) PROVE GrantsInv'
<1>1. PICK b \in Collected(agent[s]) :
        /\ agent' = [agent EXCEPT ![s] = b]
        /\ wire' = [wire EXCEPT ![s] =
            [applied |-> b.applied,
             used |-> IF b.known THEN Total(b.rows) ELSE NoQuota,
             rows |-> Pending(b)]]
  BY DEF SendReport
<1> DEFINE used == IF b.known THEN Total(b.rows) ELSE NoQuota
           x == [applied |-> b.applied, used |-> used, rows |-> Pending(b)]
<1>2. /\ UNCHANGED <<member, closed, site, localUse>> /\ {changes, failures}' \subseteq Nat
  BY GrantsTypes DEF SendReport, GrantsInv
<1>3. agent[s] \in AgentRecords
  BY GrantFacts
<1>4. /\ b \in AgentRecords
      /\ b.known = agent[s].known /\ b.quota = agent[s].quota
      /\ b.period = agent[s].period /\ b.torn = agent[s].torn /\ b.applied = agent[s].applied
      /\ b.acked = agent[s].acked
      /\ \A p \in Periods : /\ b.rows[p] \in Nat /\ agent[s].rows[p] <= b.rows[p]
                            /\ p > member.period => b.rows[p] = 0
                            /\ ~agent[s].known => b.rows[p] = 0
  BY <1>3, CollectedRows
<1>5. /\ b.applied \in Revisions /\ b.rows \in Rows /\ b.acked \in Rows
  BY <1>4 DEF AgentRecords
<1>6. /\ Pending(b) \in [Periods -> Limits]
      /\ \A p \in Periods : /\ Pending(b)[p] <= b.rows[p]
                            /\ b.rows[p] = 0 => Pending(b)[p] = NoQuota
  BY <1>4, <1>5, AbsentPolicies DEF Pending, Rows
<1>7. used \in Limits /\ (used = NoQuota => ~b.known)
  BY <1>5, RowTotals, AbsentPolicies
<1>8. x \in Reports
  BY <1>5, <1>6, <1>7 DEF Reports
<1>9. x.applied = b.applied /\ x.used = used /\ x.rows = Pending(b)
  OBVIOUS
<1>10. wire' = [wire EXCEPT ![s] = x] /\ agent' = [agent EXCEPT ![s] = b]
  BY <1>1
<1> HIDE DEF used, x
<1>11. /\ \A p \in Periods : x.rows[p] <= b.rows[p]
       /\ x.used = NoQuota => \A p \in Periods : x.rows[p] = NoQuota
  BY <1>4, <1>6, <1>7, <1>9
<1> QED
  BY <1>2, <1>4, <1>8, <1>9, <1>10, <1>11, ReportSent

(* An answer that is dealt with.                                           *)
LEMMA AnswerTaken ==
  ASSUME GrantsInv, NEW s \in Sites, NEW b \in AgentRecords,
         agent' = [agent EXCEPT ![s] = b], wire' = [wire EXCEPT ![s] = Idle],
         UNCHANGED <<member, closed, site, localUse>>, {changes, failures}' \subseteq Nat,
         \A p \in Periods : /\ b.acked[p] <= site[s].rows[p] /\ site[s].rows[p] <= b.rows[p]
                            /\ p > member.period => b.rows[p] = 0
                            /\ ~b.known => b.rows[p] = 0,
         b.period <= member.period, b.known => b.period \in Periods,
         b.torn \/ (b.quota \in {NoQuota, b.applied.quota} /\ Covered(s, b.quota))
  PROVE  GrantsInv'
<1>1. agent'[s] = b /\ wire'[s] = Idle
  BY GrantsTypes DEF GrantsInv
<1>2. AgentSound(s)'
  BY <1>1 DEF AgentSound, Covered
<1>3. WireSound(s)'
  BY <1>1 DEF WireSound, Reporting, Answered
<1>4. Idle \in Reports \union Answers \union {Idle}
  OBVIOUS
<1> QED
  BY <1>2, <1>3, <1>4, SiteFrame

(* What an answer says, and the site once it has taken the acknowledgement.*)
LEMMA AnswerFacts ==
  ASSUME GrantsInv, NEW s \in Sites, Answered(s)
  PROVE  /\ Answer(s) \in Policies
         /\ Answer(s).quota # NoQuota => Answer(s).period \in 1 .. member.period
         /\ Covered(s, Answer(s).quota)
         /\ Informed(s) \in AgentRecords
         /\ Informed(s).rows = agent[s].rows /\ Informed(s).known = agent[s].known
         /\ Informed(s).period = agent[s].period /\ Informed(s).torn = agent[s].torn
         /\ Informed(s).quota = agent[s].quota /\ Informed(s).applied = agent[s].applied
         /\ Informed(s).flow = agent[s].flow
         /\ \A p \in Periods : Informed(s).acked[p] <= site[s].rows[p]
<1>1. wire[s] \in Answers /\ agent[s] \in AgentRecords
  BY WireTypes, GrantFacts DEF GrantsInv
<1> DEFINE ack == wire[s].ack
           acked == [p \in Periods |-> IF ack[p] = NoQuota THEN agent[s].acked[p] ELSE ack[p]]
<1>2. Answer(s) \in Policies /\ ack \in [Periods -> Limits]
  BY <1>1 DEF Answers, Answer
<1>3. agent[s].acked \in Rows
  BY <1>1 DEF AgentRecords
<1>4. acked \in Rows
  BY <1>2, <1>3, AbsentPolicies DEF Rows
<1>5. \A p \in Periods : acked[p] <= site[s].rows[p]
  BY GrantFacts DEF WireSound
<1>6. Informed(s) = [agent[s] EXCEPT !.acked = acked]
  BY <1>1 DEF Informed, Acked, AgentRecords
<1> HIDE DEF acked
<1>7. /\ Informed(s) \in AgentRecords /\ Informed(s).acked = acked
      /\ Informed(s).rows = agent[s].rows /\ Informed(s).known = agent[s].known
      /\ Informed(s).period = agent[s].period /\ Informed(s).torn = agent[s].torn
      /\ Informed(s).quota = agent[s].quota /\ Informed(s).applied = agent[s].applied
      /\ Informed(s).flow = agent[s].flow
  BY <1>1, <1>4, <1>6 DEF AgentRecords
<1>8. /\ Answer(s).quota # NoQuota => Answer(s).period \in 1 .. member.period
      /\ Covered(s, Answer(s).quota)
  BY GrantFacts DEF WireSound, Answer
<1> QED
  BY <1>2, <1>5, <1>7, <1>8

(* The counters a site goes on with under an answer.                       *)
LEMMA AnswerRows ==
  ASSUME GrantsInv, NEW s \in Sites, Answered(s), NEW a \in Collected(Informed(s))
  PROVE  /\ a \in AgentRecords /\ a.period \in Periods \union {0} /\ a.period <= member.period
         /\ a.known => a.period \in Periods
         /\ a.torn = agent[s].torn /\ a.quota = agent[s].quota
         /\ a.applied = agent[s].applied /\ a.period = agent[s].period
         /\ \A p \in Periods : /\ a.acked[p] <= site[s].rows[p] /\ site[s].rows[p] <= a.rows[p]
                               /\ p > member.period => a.rows[p] = 0
                               /\ ~a.known => a.rows[p] = 0
<1>1. /\ Informed(s) \in AgentRecords
      /\ Informed(s).rows = agent[s].rows /\ Informed(s).known = agent[s].known
      /\ Informed(s).period = agent[s].period /\ Informed(s).torn = agent[s].torn
      /\ Informed(s).quota = agent[s].quota /\ Informed(s).applied = agent[s].applied
      /\ \A p \in Periods : Informed(s).acked[p] <= site[s].rows[p]
  BY AnswerFacts
<1>2. /\ a \in AgentRecords
      /\ a.known = Informed(s).known /\ a.quota = Informed(s).quota
      /\ a.period = Informed(s).period /\ a.torn = Informed(s).torn
      /\ a.applied = Informed(s).applied /\ a.acked = Informed(s).acked
      /\ \A p \in Periods : /\ a.rows[p] \in Nat /\ Informed(s).rows[p] <= a.rows[p]
                            /\ p > member.period => a.rows[p] = 0
                            /\ ~Informed(s).known => a.rows[p] = 0
  BY <1>1, CollectedRows
<1>3. a.period \in Periods \union {0}
  BY <1>2 DEF AgentRecords
<1>4. a.period <= member.period /\ (a.known => a.period \in Periods)
  BY <1>1, <1>2, GrantFacts DEF AgentSound
<1>5. \A p \in Periods : site[s].rows[p] <= a.rows[p]
  BY <1>1, <1>2, GrantFacts
<1> QED
  BY <1>1, <1>2, <1>3, <1>4, <1>5

LEMMA KeepPolicyKeeps == ASSUME GrantsInv, NEW s \in Sites, KeepPolicy(s) PROVE GrantsInv'
<1> DEFINE b == [Informed(s) EXCEPT !.lease = TRUE]
<1>1. Answered(s)
  BY DEF KeepPolicy
<1>2. /\ Informed(s) \in AgentRecords
      /\ Informed(s).rows = agent[s].rows /\ Informed(s).known = agent[s].known
      /\ Informed(s).period = agent[s].period /\ Informed(s).torn = agent[s].torn
      /\ Informed(s).quota = agent[s].quota /\ Informed(s).applied = agent[s].applied
      /\ \A p \in Periods : Informed(s).acked[p] <= site[s].rows[p]
  BY <1>1, AnswerFacts
<1>3. /\ b \in AgentRecords /\ b.acked = Informed(s).acked
      /\ b.rows = agent[s].rows /\ b.known = agent[s].known
      /\ b.period = agent[s].period /\ b.torn = agent[s].torn
      /\ b.quota = agent[s].quota /\ b.applied = agent[s].applied
  BY <1>2 DEF AgentRecords
<1>4. /\ agent' = [agent EXCEPT ![s] = b] /\ wire' = [wire EXCEPT ![s] = Idle]
      /\ UNCHANGED <<member, closed, site, localUse>> /\ {changes, failures}' \subseteq Nat
  BY GrantsTypes DEF KeepPolicy, GrantsInv
<1> HIDE DEF b
<1>5. \A p \in Periods : /\ b.acked[p] <= site[s].rows[p] /\ site[s].rows[p] <= b.rows[p]
                         /\ p > member.period => b.rows[p] = 0
                         /\ ~b.known => b.rows[p] = 0
  BY <1>2, <1>3, GrantFacts DEF AgentSound
<1>6. /\ b.period <= member.period /\ (b.known => b.period \in Periods)
      /\ b.torn \/ (b.quota \in {NoQuota, b.applied.quota} /\ Covered(s, b.quota))
  BY <1>3, GrantFacts DEF AgentSound
<1> QED
  BY <1>3, <1>4, <1>5, <1>6, AnswerTaken

(* A policy in force, under its own revision or under the last one.        *)
LEMMA ReplacedPolicy ==
  ASSUME GrantsInv, NEW s \in Sites, Answered(s), NEW a \in Collected(Informed(s))
  PROVE  LET b == Replaced(a, Answer(s))
         IN /\ b \in AgentRecords /\ b.rows = a.rows /\ b.acked = a.acked
            /\ b.quota = Answer(s).quota /\ b.applied = a.applied
            /\ a.known => b.known
            /\ b.period <= member.period /\ (b.known => b.period \in Periods)
<1>1. /\ Answer(s) \in Policies /\ Answer(s).quota \in Limits
      /\ Answer(s).quota # NoQuota => Answer(s).period \in 1 .. member.period
  BY AnswerFacts DEF Policies
<1>2. /\ a \in AgentRecords /\ a.period <= member.period /\ (a.known => a.period \in Periods)
  BY AnswerRows
<1>3. member.period \in Periods /\ LastPeriod \in Nat
  BY GrantFacts, GrantsAssumption
<1>4. CASE Answer(s).quota = NoQuota
  BY <1>2, <1>4, AbsentPolicies DEF Replaced, AgentRecords
<1>5. CASE Answer(s).quota # NoQuota
  <2>1. Answer(s).period \in Periods /\ Answer(s).period <= member.period
    BY <1>1, <1>3, <1>5 DEF Periods
  <2> QED
    BY <1>1, <1>2, <1>5, <2>1 DEF Replaced, AgentRecords
<1> QED
  BY <1>4, <1>5

LEMMA AdoptPolicyKeeps == ASSUME GrantsInv, NEW s \in Sites, AdoptPolicy(s) PROVE GrantsInv'
<1>1. PICK a \in Collected(Informed(s)) :
        agent' = [agent EXCEPT ![s] =
          [Replaced(a, Answer(s)) EXCEPT !.applied = Answer(s), !.lease = TRUE, !.torn = FALSE]]
  BY DEF AdoptPolicy
<1> DEFINE c == Replaced(a, Answer(s))
           b == [c EXCEPT !.applied = Answer(s), !.lease = TRUE, !.torn = FALSE]
<1>2. Answered(s)
  BY DEF AdoptPolicy
<1>3. /\ c \in AgentRecords /\ c.rows = a.rows /\ c.acked = a.acked
      /\ c.quota = Answer(s).quota /\ (a.known => c.known)
      /\ c.period <= member.period /\ (c.known => c.period \in Periods)
  BY <1>2, ReplacedPolicy
<1>4. Answer(s) \in Revisions /\ Covered(s, Answer(s).quota)
  BY <1>2, AnswerFacts, AbsentPolicies
<1> HIDE DEF c
<1>5. /\ b \in AgentRecords /\ b.rows = c.rows /\ b.acked = c.acked /\ b.known = c.known
      /\ b.period = c.period /\ b.quota = c.quota /\ b.applied = Answer(s)
  BY <1>3, <1>4 DEF AgentRecords
<1>6. /\ agent' = [agent EXCEPT ![s] = b] /\ wire' = [wire EXCEPT ![s] = Idle]
      /\ UNCHANGED <<member, closed, site, localUse>> /\ {changes, failures}' \subseteq Nat
  BY <1>1, GrantsTypes DEF AdoptPolicy, GrantsInv, c
<1> HIDE DEF b
<1>7. \A p \in Periods : /\ b.acked[p] <= site[s].rows[p] /\ site[s].rows[p] <= b.rows[p]
                         /\ p > member.period => b.rows[p] = 0
                         /\ ~b.known => b.rows[p] = 0
  BY <1>2, <1>3, <1>5, AnswerRows
<1>8. /\ b.period <= member.period /\ (b.known => b.period \in Periods)
      /\ b.torn \/ (b.quota \in {NoQuota, b.applied.quota} /\ Covered(s, b.quota))
  BY <1>3, <1>4, <1>5
<1> QED
  BY <1>5, <1>6, <1>7, <1>8, AnswerTaken

(* A site that takes no policy up has only learnt what was acknowledged.   *)
LEMMA RejectPolicyKeeps == ASSUME GrantsInv, NEW s \in Sites, RejectPolicy(s) PROVE GrantsInv'
<1>1. PICK a \in Collected(Informed(s)) \union {Informed(s)} : agent' = [agent EXCEPT ![s] = a]
  BY DEF RejectPolicy
<1>2. Answered(s)
  BY DEF RejectPolicy
<1>3. /\ wire' = [wire EXCEPT ![s] = Idle]
      /\ UNCHANGED <<member, closed, site, localUse>> /\ {changes, failures}' \subseteq Nat
  BY GrantsTypes DEF RejectPolicy, GrantsInv
<1>4. /\ a \in AgentRecords /\ a.period <= member.period /\ (a.known => a.period \in Periods)
      /\ a.torn = agent[s].torn /\ a.quota = agent[s].quota /\ a.applied = agent[s].applied
      /\ \A p \in Periods : /\ a.acked[p] <= site[s].rows[p] /\ site[s].rows[p] <= a.rows[p]
                            /\ p > member.period => a.rows[p] = 0
                            /\ ~a.known => a.rows[p] = 0
  <2>1. CASE a \in Collected(Informed(s))
    BY <1>2, <2>1, AnswerRows
  <2>2. CASE a = Informed(s)
    <3>1. /\ a \in AgentRecords /\ a.rows = agent[s].rows /\ a.known = agent[s].known
          /\ a.period = agent[s].period /\ a.torn = agent[s].torn
          /\ a.quota = agent[s].quota /\ a.applied = agent[s].applied
          /\ \A p \in Periods : a.acked[p] <= site[s].rows[p]
      BY <1>2, <2>2, AnswerFacts
    <3> QED
      BY <3>1, GrantFacts DEF AgentSound
  <2> QED
    BY <1>1, <2>1, <2>2
<1>5. a.torn \/ (a.quota \in {NoQuota, a.applied.quota} /\ Covered(s, a.quota))
  BY <1>4, GrantFacts DEF AgentSound
<1> QED
  BY <1>1, <1>3, <1>4, <1>5, AnswerTaken

(* A site that fails over a policy is back under its last one, or torn     *)
(* between the two.                                                        *)
LEMMA FailPolicyKeeps == ASSUME GrantsInv, NEW s \in Sites, FailPolicy(s) PROVE GrantsInv'
<1>1. PICK a \in Collected(Informed(s)) :
        \/ agent' = [agent EXCEPT ![s] = RolledBack(a, Answer(s))]
        \/ \E lease \in BOOLEAN : agent' = [agent EXCEPT ![s] =
             [Replaced(a, Answer(s)) EXCEPT !.lease = lease, !.torn = TRUE]]
  BY DEF FailPolicy
<1>2. Answered(s)
  BY DEF FailPolicy
<1>3. /\ wire' = [wire EXCEPT ![s] = Idle]
      /\ UNCHANGED <<member, closed, site, localUse>> /\ {changes, failures}' \subseteq Nat
  <2>1. changes \in Nat /\ failures \in Nat
    BY GrantsTypes DEF GrantsInv
  <2>2. /\ wire' = [wire EXCEPT ![s] = Idle] /\ failures' = failures + 1 /\ changes' = changes
        /\ UNCHANGED <<member, closed, site, localUse>>
    BY DEF FailPolicy
  <2>3. {changes, failures}' \subseteq Nat
    BY <2>1, <2>2
  <2> QED
    BY <2>2, <2>3
<1>4. /\ a \in AgentRecords /\ a.period <= member.period /\ (a.known => a.period \in Periods)
      /\ a.torn = agent[s].torn /\ a.quota = agent[s].quota /\ a.applied = agent[s].applied
      /\ \A p \in Periods : /\ a.acked[p] <= site[s].rows[p] /\ site[s].rows[p] <= a.rows[p]
                            /\ p > member.period => a.rows[p] = 0
                            /\ ~a.known => a.rows[p] = 0
  BY <1>2, AnswerRows
<1>5. CASE agent' = [agent EXCEPT ![s] = RolledBack(a, Answer(s))]
  <2> DEFINE b == RolledBack(a, Answer(s))
  <2>1. /\ b \in AgentRecords /\ b.rows = a.rows /\ b.acked = a.acked /\ b.torn = a.torn
        /\ b.applied = a.applied /\ b.quota \in {a.quota, NoQuota} /\ (a.known => b.known)
        /\ b.period <= member.period /\ (b.known => b.period \in Periods)
    <3>1. CASE Answer(s).quota = NoQuota
      BY <1>4, <3>1 DEF RolledBack
    <3>2. CASE Answer(s).quota # NoQuota
      <4> DEFINE quota == IF a.period = Answer(s).period THEN a.quota ELSE NoQuota
      <4>1. Answer(s).period \in Periods /\ Answer(s).period <= member.period
        BY <1>2, <3>2, AnswerFacts, GrantFacts, GrantsAssumption DEF Periods
      <4>2. quota \in Limits /\ quota \in {a.quota, NoQuota}
        BY <1>4, AbsentPolicies DEF AgentRecords
      <4>3. b = [a EXCEPT !.known = TRUE, !.period = Answer(s).period, !.quota = quota]
        BY <1>4, <3>2 DEF RolledBack, AgentRecords
      <4> HIDE DEF quota, b
      <4> QED
        BY <1>4, <4>1, <4>2, <4>3 DEF AgentRecords
    <3> QED
      BY <3>1, <3>2
  <2> HIDE DEF b
  <2>2. \A p \in Periods : /\ b.acked[p] <= site[s].rows[p] /\ site[s].rows[p] <= b.rows[p]
                           /\ p > member.period => b.rows[p] = 0
                           /\ ~b.known => b.rows[p] = 0
    BY <1>4, <2>1
  <2>3. b.torn \/ (b.quota \in {NoQuota, b.applied.quota} /\ Covered(s, b.quota))
    BY <1>4, <2>1, GrantFacts DEF AgentSound, Covered
  <2>4. agent' = [agent EXCEPT ![s] = b]
    BY <1>5 DEF b
  <2> QED
    BY <1>3, <2>1, <2>2, <2>3, <2>4, AnswerTaken
<1>6. ASSUME NEW lease \in BOOLEAN, agent' = [agent EXCEPT ![s] =
               [Replaced(a, Answer(s)) EXCEPT !.lease = lease, !.torn = TRUE]]
      PROVE  GrantsInv'
  <2> DEFINE c == Replaced(a, Answer(s))
             b == [c EXCEPT !.lease = lease, !.torn = TRUE]
  <2>1. /\ c \in AgentRecords /\ c.rows = a.rows /\ c.acked = a.acked
        /\ (a.known => c.known)
        /\ c.period <= member.period /\ (c.known => c.period \in Periods)
    BY <1>2, ReplacedPolicy
  <2> HIDE DEF c
  <2>2. /\ b \in AgentRecords /\ b.rows = c.rows /\ b.acked = c.acked /\ b.known = c.known
        /\ b.period = c.period /\ b.torn = TRUE
    BY <2>1 DEF AgentRecords
  <2>3. agent' = [agent EXCEPT ![s] = b]
    BY <1>6 DEF c
  <2> HIDE DEF b
  <2>4. \A p \in Periods : /\ b.acked[p] <= site[s].rows[p] /\ site[s].rows[p] <= b.rows[p]
                           /\ p > member.period => b.rows[p] = 0
                           /\ ~b.known => b.rows[p] = 0
    BY <1>4, <2>1, <2>2
  <2> QED
    BY <1>3, <2>1, <2>2, <2>3, <2>4, AnswerTaken
<1> QED
  BY <1>1, <1>5, <1>6
-----------------------------------------------------------------------------
(* Steps of the panel.                                                     *)

(* A change of a record that leaves what was sent and taken alone.         *)
LEMMA PanelFrame ==
  ASSUME GrantsInv, site' \in [Sites -> SiteRecords], member' \in MemberRecords,
         {changes, failures}' \subseteq Nat,
         UNCHANGED <<closed, agent, wire, localUse>>,
         member'.period = member.period, member'.meter = member.meter,
         member'.base = member.base, member'.pending => member.period < LastPeriod,
         \A t \in Sites :
           /\ site'[t].rows = site[t].rows /\ site'[t].issued = site[t].issued
           /\ site'[t].unlimited = site[t].unlimited /\ site'[t].sent = site[t].sent
           /\ site'[t].desired = site[t].desired
  PROVE  GrantsInv'
<1>1. GrantsTypeOK'
  BY GrantsTypes DEF GrantsInv, GrantsTypeOK, SiteRecords, MemberRecords
<1>2. PeriodsInOrder'
  BY DEF GrantsInv, PeriodsInOrder
<1>3. \A p \in Periods : TakenBy(site', p) = TakenBy(site, p)
  <2>1. \A p \in Periods : \A t \in Sites : /\ site[t].rows[p] \in Nat /\ site'[t].rows[p] \in Nat
                                            /\ site'[t].rows[p] = site[t].rows[p]
    BY GrantFacts
  <2> QED
    BY <2>1, TakenSums
<1>4. BilledOnce'
  <2>1. QuotaUsed(member') = QuotaUsed(member) /\ member.period \in Periods
    BY GrantsTypes DEF QuotaUsed, GrantsInv, MemberRecords
  <2>2. \A p \in Periods : closed[p] # NoQuota => closed[p] = localUse[p] + TakenBy(site', p)
    BY <1>3 DEF GrantsInv, BilledOnce
  <2>3. QuotaUsed(member') = localUse[member.period] + TakenBy(site', member.period)
    BY <1>3, <2>1 DEF GrantsInv, BilledOnce
  <2>4. \A p \in Periods : \A s \in Sites :
          agent[s].acked[p] <= site'[s].rows[p] /\ site'[s].rows[p] <= agent[s].rows[p]
    BY DEF GrantsInv, BilledOnce
  <2> QED
    BY <2>2, <2>3, <2>4 DEF BilledOnce
<1>5. ASSUME NEW t \in Sites PROVE (RecordSound(t) /\ AgentSound(t) /\ WireSound(t))'
  <2>1. RecordSound(t) /\ AgentSound(t) /\ WireSound(t)
    BY DEF GrantsInv
  <2>2. RecordSound(t)'
    BY <2>1 DEF RecordSound
  <2>3. AgentSound(t)'
    BY <2>1 DEF AgentSound, Covered
  <2>4. WireSound(t)'
    BY <2>1 DEF WireSound, Covered, Reporting, Answered
  <2> QED
    BY <2>2, <2>3, <2>4
<1> QED
  BY <1>1, <1>2, <1>4, <1>5 DEF GrantsInv

LEMMA MemberKept ==
  ASSUME GrantsInv, UNCHANGED member
  PROVE  /\ member' \in MemberRecords
         /\ member'.period = member.period /\ member'.meter = member.meter
         /\ member'.base = member.base /\ (member'.pending => member.period < LastPeriod)
<1> QED
  BY GrantsTypes DEF GrantsInv, PeriodsInOrder

LEMMA ChangeCounts == GrantsInv /\ Change => changes' \in Nat
<1>1. GrantsInv => changes \in Nat
  BY GrantsTypes DEF GrantsInv
<1> QED
  BY <1>1 DEF Change

LEMMA RecordEditsKeep ==
  ASSUME GrantsInv, NEW s \in Sites,
         (\E q \in Ceilings \union {NoQuota} : SetGrant(s, q)) \/ ToggleSite(s) \/ RemoveSite(s)
  PROVE  GrantsInv'
<1> DEFINE Kept(v) == /\ v \in SiteRecords /\ v.rows = site[s].rows /\ v.issued = site[s].issued
                      /\ v.unlimited = site[s].unlimited /\ v.sent = site[s].sent
                      /\ v.desired = site[s].desired
<1>1. site \in [Sites -> SiteRecords] /\ site[s] \in SiteRecords
  BY GrantsTypes DEF GrantsInv
<1>2. /\ UNCHANGED <<member, closed, agent, wire, localUse, failures>> /\ changes' \in Nat
      /\ failures' \in Nat
  BY ChangeCounts, GrantsTypes DEF SetGrant, ToggleSite, RemoveSite, GrantsInv
<1>3. ASSUME NEW v, Kept(v), site' = [site EXCEPT ![s] = v] PROVE GrantsInv'
  <2>1. site' \in [Sites -> SiteRecords]
    BY <1>1, <1>3
  <2>2. \A t \in Sites :
           /\ site'[t].rows = site[t].rows /\ site'[t].issued = site[t].issued
           /\ site'[t].unlimited = site[t].unlimited /\ site'[t].sent = site[t].sent
           /\ site'[t].desired = site[t].desired
    <3>1. \A t \in Sites : site'[t] = IF t = s THEN v ELSE site[t]
      BY <1>1, <1>3
    <3> QED
      BY <1>3, <3>1
  <2>3. {changes, failures}' \subseteq Nat
    BY <1>2
  <2>4. UNCHANGED <<closed, agent, wire, localUse>> /\ UNCHANGED member
    BY <1>2
  <2> HIDE DEF Kept
  <2> QED
    BY <2>1, <2>2, <2>3, <2>4, MemberKept, PanelFrame
<1>4. ASSUME NEW q \in Ceilings \union {NoQuota}, SetGrant(s, q) PROVE GrantsInv'
  <2> DEFINE budget == AtLeastZero(q - Used(site[s]))
             v == [site[s] EXCEPT !.grant = q, !.budget = budget]
  <2>1. q \in Limits /\ Used(site[s]) \in Nat
    <3>1. site[s].used \in Int
      BY <1>1, AbsentPolicies DEF SiteRecords
    <3>2. Ceilings \subseteq Nat
      BY GrantsAssumption
    <3>3. q \in Limits
      BY <3>2, AbsentPolicies
    <3>4. Used(site[s]) \in Nat
      BY <3>1 DEF Used, AtLeastZero
    <3> QED
      BY <3>3, <3>4
  <2>2. budget \in Nat
    BY <2>1, AbsentPolicies DEF AtLeastZero
  <2> HIDE DEF budget
  <2>3. Kept(v)
    BY <1>1, <2>1, <2>2 DEF SiteRecords
  <2>4. site' = [site EXCEPT ![s] = v]
    BY <1>1, <1>4 DEF SetGrant, budget
  <2> HIDE DEF v, Kept
  <2> QED
    BY <1>3, <2>3, <2>4
<1>5. ASSUME ToggleSite(s) PROVE GrantsInv'
  <2> DEFINE enabled == ~site[s].enabled
             v == [site[s] EXCEPT !.enabled = enabled]
  <2>1. enabled \in BOOLEAN
    OBVIOUS
  <2>2. site' = [site EXCEPT ![s] = v]
    BY <1>1, <1>5 DEF ToggleSite
  <2> HIDE DEF enabled
  <2>3. Kept(v)
    BY <1>1, <2>1 DEF SiteRecords
  <2> HIDE DEF v, Kept
  <2> QED
    BY <1>3, <2>2, <2>3
<1>6. ASSUME RemoveSite(s) PROVE GrantsInv'
  <2> DEFINE v == [site[s] EXCEPT !.removed = TRUE, !.enabled = FALSE, !.grant = NoQuota]
  <2>1. site' = [site EXCEPT ![s] = v]
    BY <1>1, <1>6 DEF RemoveSite
  <2>2. Kept(v)
    BY <1>1, AbsentPolicies DEF SiteRecords
  <2> HIDE DEF v, Kept
  <2> QED
    BY <1>3, <2>1, <2>2
<1> QED
  BY <1>4, <1>5, <1>6

LEMMA MemberEditsKeep ==
  ASSUME GrantsInv, (\E q \in Quotas : SetQuota(q)) \/ StopMember
  PROVE  GrantsInv'
<1>1. member \in MemberRecords /\ site \in [Sites -> SiteRecords] /\ {changes, failures} \subseteq Nat
  BY GrantsTypes DEF GrantsInv
<1>2. /\ UNCHANGED <<closed, site, agent, wire, localUse, failures>>
      /\ {changes, failures}' \subseteq Nat
  BY <1>1, ChangeCounts DEF SetQuota, StopMember
<1>3. /\ member' \in MemberRecords
      /\ member'.period = member.period /\ member'.meter = member.meter
      /\ member'.base = member.base /\ (member'.pending => member.period < LastPeriod)
  <2>1. ASSUME NEW q \in Quotas, SetQuota(q)
        PROVE  /\ member' = [member EXCEPT !.quota = q] /\ q \in Nat
    BY <2>1, GrantsAssumption DEF SetQuota
  <2>2. CASE \E q \in Quotas : SetQuota(q)
    BY <1>1, <2>1, <2>2 DEF MemberRecords, GrantsInv, PeriodsInOrder
  <2>3. CASE StopMember
    BY <1>1, <2>3 DEF StopMember, MemberRecords
  <2> QED
    BY <2>2, <2>3
<1> QED
  BY <1>1, <1>2, <1>3, PanelFrame

LEMMA LocalTrafficKeeps == GrantsInv /\ LocalTraffic => GrantsInv'
<1> SUFFICES ASSUME GrantsInv, LocalTraffic PROVE GrantsInv'
  OBVIOUS
<1> DEFINE c == member.period
<1>1. /\ UNCHANGED <<closed, site, agent, wire, changes, failures>>
      /\ localUse' = [localUse EXCEPT ![c] = localUse[c] + 1]
      /\ member' = [member EXCEPT !.meter = member.meter + 1]
  BY DEF LocalTraffic
<1>2. /\ GrantsTypeOK /\ member \in MemberRecords /\ localUse \in Rows /\ c \in Periods
  BY GrantsTypes DEF GrantsInv, MemberRecords
<1>3. /\ member' \in MemberRecords /\ member'.period = c /\ member'.meter = member.meter + 1
      /\ member'.base = member.base /\ member'.pending = member.pending
      /\ QuotaUsed(member') = QuotaUsed(member) + 1
  BY <1>1, <1>2 DEF MemberRecords, QuotaUsed
<1>4. /\ localUse' \in Rows
      /\ \A p \in Periods : /\ localUse[p] \in Nat
                            /\ localUse'[p] = IF p = c THEN localUse[p] + 1 ELSE localUse[p]
  BY <1>1, <1>2 DEF Rows
<1>5. GrantsTypeOK'
  BY <1>1, <1>2, <1>3, <1>4 DEF GrantsTypeOK, MemberRecords
<1>6. \A p \in Periods : p \in Nat
  BY PeriodsFinite
<1>7. PeriodsInOrder'
  BY <1>1, <1>2, <1>3, <1>4, <1>6 DEF GrantsInv, PeriodsInOrder
<1>8. BilledOnce'
  <2>1. \A p \in Periods : TakenBy(site, p) \in Nat
    <3>1. \A p \in Periods : \A t \in Sites : site[t].rows[p] \in Nat /\ site[t].rows[p] \in Nat
      BY GrantFacts
    <3> QED
      BY <3>1, TakenSums
  <2>2. ~ (closed[c] # NoQuota)
    BY <1>2, <1>6 DEF GrantsInv, PeriodsInOrder
  <2>3. \A p \in Periods : closed[p] # NoQuota => closed[p] = localUse'[p] + TakenBy(site, p)
    BY <1>4, <2>2 DEF GrantsInv, BilledOnce
  <2>4. QuotaUsed(member') = localUse'[c] + TakenBy(site, c)
    BY <1>2, <1>3, <1>4, <2>1 DEF GrantsInv, BilledOnce
  <2> QED
    BY <1>1, <1>3, <2>3, <2>4 DEF GrantsInv, BilledOnce
<1>9. ASSUME NEW t \in Sites PROVE (RecordSound(t) /\ AgentSound(t) /\ WireSound(t))'
  BY <1>1, <1>3 DEF GrantsInv, RecordSound, AgentSound, WireSound, Covered, Reporting, Answered
<1> QED
  BY <1>5, <1>7, <1>8, <1>9 DEF GrantsInv

(* The next period has nothing measured in it, and the one that is closed  *)
(* is billed what was.                                                     *)
LEMMA TurnPeriodKeeps == GrantsInv /\ TurnPeriod => GrantsInv'
<1> SUFFICES ASSUME GrantsInv, TurnPeriod PROVE GrantsInv'
  OBVIOUS
<1> DEFINE c == member.period
<1>1. /\ GrantsTypeOK /\ member \in MemberRecords /\ localUse \in Rows /\ c \in Periods
      /\ site \in [Sites -> SiteRecords] /\ closed \in [Periods -> Limits]
  BY GrantsTypes DEF GrantsInv, MemberRecords
<1>2. \A p \in Periods : p \in Nat /\ p >= 1
  BY DEF Periods
<1>3. c + 1 \in Periods
  <2>1. c < LastPeriod
    BY DEF TurnPeriod, GrantsInv, PeriodsInOrder
  <2>2. LastPeriod \in Nat
    BY GrantsAssumption
  <2> QED
    BY <1>1, <2>1, <2>2 DEF Periods
<1>4. /\ UNCHANGED <<agent, wire, localUse, changes, failures>>
      /\ member' = [member EXCEPT !.period = c + 1, !.base = member.meter, !.pending = FALSE]
      /\ closed' = [closed EXCEPT ![c] = QuotaUsed(member)]
  BY DEF TurnPeriod
<1>5. \A p \in Periods : TakenBy(site, p) \in Nat
  <2>1. \A p \in Periods : \A t \in Sites : site[t].rows[p] \in Nat /\ site[t].rows[p] \in Nat
    BY GrantFacts
  <2> QED
    BY <2>1, TakenSums
<1>6. QuotaUsed(member) = localUse[c] + TakenBy(site, c) /\ QuotaUsed(member) \in Nat
  BY <1>1, <1>5 DEF GrantsInv, BilledOnce, Rows
<1>7. /\ member' \in MemberRecords /\ member'.period = c + 1 /\ member'.pending = FALSE
      /\ QuotaUsed(member') = 0
  <2>1. /\ member' \in MemberRecords /\ member'.period = c + 1 /\ member'.pending = FALSE
        /\ member'.meter = member.meter /\ member'.base = member.meter /\ member.meter \in Nat
    BY <1>1, <1>3, <1>4 DEF MemberRecords
  <2> QED
    BY <2>1 DEF QuotaUsed
<1>8. /\ closed' \in [Periods -> Limits]
      /\ \A p \in Periods : closed'[p] = IF p = c THEN QuotaUsed(member) ELSE closed[p]
  BY <1>1, <1>4, <1>6, AbsentPolicies
<1>9. \A t \in Sites : /\ site'[t] \in SiteRecords
                       /\ site'[t].rows = site[t].rows /\ site'[t].issued = site[t].issued
                       /\ site'[t].unlimited = site[t].unlimited /\ site'[t].sent = site[t].sent
                       /\ site'[t].desired = site[t].desired
  <2> SUFFICES ASSUME NEW t \in Sites
               PROVE  /\ site'[t] \in SiteRecords
                      /\ site'[t].rows = site[t].rows /\ site'[t].issued = site[t].issued
                      /\ site'[t].unlimited = site[t].unlimited /\ site'[t].sent = site[t].sent
                      /\ site'[t].desired = site[t].desired
    OBVIOUS
  <2> DEFINE v == site[t]
             budget == IF v.budget = 0 /\ v.grant > 0 THEN v.grant ELSE v.budget
             grant == IF v.grant > 0 THEN Used(v) + budget ELSE v.grant
  <2>1. v \in SiteRecords
    BY <1>1
  <2>2. v.used \in Int /\ v.grant \in Int /\ v.budget \in Nat /\ v.grant \in Limits
    BY <2>1, AbsentPolicies DEF SiteRecords
  <2>3. budget \in Nat /\ Used(v) \in Nat
    BY <2>2 DEF Used, AtLeastZero
  <2>4. grant \in Limits
    BY <2>2, <2>3, AbsentPolicies
  <2>5. site'[t] = IF v.grant = NoQuota THEN v ELSE [v EXCEPT !.budget = budget, !.grant = grant]
    BY <2>1 DEF TurnPeriod, SiteRecords
  <2> HIDE DEF budget, grant
  <2> QED
    BY <2>1, <2>3, <2>4, <2>5 DEF SiteRecords
<1>10. site' \in [Sites -> SiteRecords]
  <2>1. site' = [t \in Sites |-> site'[t]]
    BY DEF TurnPeriod
  <2> QED
    BY <1>9, <2>1
<1>11. GrantsTypeOK'
  BY <1>1, <1>4, <1>7, <1>8, <1>10, GrantsTypes DEF GrantsTypeOK, SiteRecords, MemberRecords
<1>12. PeriodsInOrder'
  <2>1. \A p \in Periods : closed'[p] # NoQuota <=> p < c + 1
    BY <1>1, <1>2, <1>6, <1>8, AbsentPolicies DEF GrantsInv, PeriodsInOrder
  <2>2. \A p \in Periods : p > c + 1 => localUse[p] = 0 /\ \A t \in Sites : agent[t].rows[p] = 0
    BY <1>1, <1>2 DEF GrantsInv, PeriodsInOrder
  <2> QED
    BY <1>4, <1>7, <2>1, <2>2 DEF PeriodsInOrder
<1>13. \A p \in Periods : TakenBy(site', p) = TakenBy(site, p)
  <2>1. \A p \in Periods : \A t \in Sites : /\ site[t].rows[p] \in Nat /\ site'[t].rows[p] \in Nat
                                            /\ site'[t].rows[p] = site[t].rows[p]
    BY <1>9, GrantFacts
  <2> QED
    BY <2>1, TakenSums
<1>14. BilledOnce'
  <2>1. \A p \in Periods : closed'[p] # NoQuota => closed'[p] = localUse[p] + TakenBy(site', p)
    BY <1>6, <1>8, <1>13 DEF GrantsInv, BilledOnce
  <2>2. localUse[c + 1] = 0
    BY <1>1, <1>2, <1>3 DEF GrantsInv, PeriodsInOrder
  <2>3. TakenBy(site, c + 1) = 0
    <3>1. \A t \in Sites : /\ site[t].rows[c + 1] \in Nat /\ site[t].rows[c + 1] \in Nat
                           /\ site[t].rows[c + 1] = 0
      <4>1. c + 1 > member.period
        BY <1>1, <1>2
      <4> QED
        BY <1>3, <4>1, GrantFacts
    <3> QED
      BY <1>3, <3>1, TakenSums
  <2>4. \A p \in Periods : \A s \in Sites :
          agent[s].acked[p] <= site'[s].rows[p] /\ site'[s].rows[p] <= agent[s].rows[p]
    BY <1>9 DEF GrantsInv, BilledOnce
  <2>5. QuotaUsed(member') = localUse[c + 1] + TakenBy(site', c + 1)
    BY <1>3, <1>7, <1>13, <2>2, <2>3
  <2> QED
    BY <1>4, <1>7, <2>1, <2>4, <2>5 DEF BilledOnce
<1>15. ASSUME NEW t \in Sites PROVE (RecordSound(t) /\ AgentSound(t) /\ WireSound(t))'
  <2>1. RecordSound(t) /\ AgentSound(t) /\ WireSound(t)
    BY DEF GrantsInv
  <2>2. RecordSound(t)'
    BY <1>9, <2>1 DEF RecordSound
  <2>3. AgentSound(t)'
    <3>1. agent[t].period \in Int /\ agent[t].period <= c /\ c \in Int
      BY <1>1, <1>2, <2>1, GrantFacts DEF AgentSound, AgentRecords
    <3>2. agent[t].period <= c + 1
      BY <3>1
    <3> QED
      BY <1>4, <1>7, <1>9, <2>1, <3>2 DEF AgentSound, Covered
  <2>4. WireSound(t)'
    <3>1. 1 .. c \subseteq 1 .. (c + 1)
      BY <1>1, <1>2
    <3> QED
      BY <1>4, <1>7, <1>9, <2>1, <3>1 DEF WireSound, Covered, Reporting, Answered
  <2> QED
    BY <2>2, <2>3, <2>4
<1> QED
  BY <1>11, <1>12, <1>14, <1>15 DEF GrantsInv
-----------------------------------------------------------------------------
(* A report that is accepted.                                              *)

(* What it brings is of the current period or of closed ones.              *)
LEMMA FreshTraffic ==
  ASSUME GrantsInv, NEW s \in Sites, Reporting(s), Accepted(site[s], wire[s])
  PROVE  /\ \A p \in Periods :
              LET fresh == Fresh(site[s], wire[s], p)
              IN /\ fresh \in Nat
                 /\ site[s].rows[p] + fresh <= agent[s].rows[p]
                 /\ wire[s].rows[p] <= site[s].rows[p] + fresh
                 /\ p > member.period => fresh = 0
                 /\ wire[s].used = NoQuota => fresh = 0
         /\ Late(site[s], wire[s]) \in Nat
         /\ FreshIn(site[s], wire[s], Periods) \in Nat
         /\ FreshIn(site[s], wire[s], Periods)
              = Fresh(site[s], wire[s], member.period) + Late(site[s], wire[s])
         /\ wire[s].used = NoQuota =>
              FreshIn(site[s], wire[s], Periods) = 0 /\ Late(site[s], wire[s]) = 0
<1> DEFINE v == site[s]
           r == wire[s]
           c == member.period
           F == [p \in Periods |-> Fresh(v, r, p)]
<1>1. r \in Reports /\ r.rows \in [Periods -> Limits]
  BY WireTypes, GrantFacts DEF Reports
<1>2. c \in Periods /\ \A p \in Periods : p \in Nat
  BY GrantFacts
<1>3. \A p \in Periods : r.rows[p] \in Int
  BY <1>1, AbsentPolicies
<1>4. \A p \in Periods : /\ v.rows[p] \in Nat /\ agent[s].rows[p] \in Nat
                         /\ v.rows[p] <= agent[s].rows[p] /\ r.rows[p] <= agent[s].rows[p]
                         /\ p > c => agent[s].rows[p] = 0
                         /\ r.used = NoQuota => r.rows[p] = NoQuota
  BY GrantFacts DEF WireSound
<1>5. \A p \in Periods : Fresh(v, r, p) >= 0
  BY DEF Accepted
<1>6. ASSUME NEW p \in Periods
      PROVE  /\ Fresh(v, r, p) \in Nat
             /\ v.rows[p] + Fresh(v, r, p) <= agent[s].rows[p]
             /\ r.rows[p] <= v.rows[p] + Fresh(v, r, p)
             /\ p > c => Fresh(v, r, p) = 0
             /\ r.used = NoQuota => Fresh(v, r, p) = 0
  <2>1. CASE r.rows[p] = NoQuota
    BY <1>4, <2>1, AbsentPolicies DEF Fresh
  <2>2. CASE r.rows[p] # NoQuota
    <3>1. Fresh(v, r, p) = r.rows[p] - v.rows[p]
      BY <2>2 DEF Fresh
    <3> HIDE DEF v, r
    <3> QED
      BY <1>3, <1>4, <1>5, <2>2, <3>1
  <2> QED
    BY <2>1, <2>2
<1>7. \A ps : FreshIn(v, r, ps) = SumFunctionOnSet(F, ps)
  BY DEF FreshIn
<1>8. \A p \in Periods : F[p] = Fresh(v, r, p) /\ F[p] \in Nat /\ F[p] \in Int
  BY <1>6
<1>9. /\ IsFiniteSet(Periods) /\ IsFiniteSet(Periods \ {c})
      /\ Past \in SUBSET Periods /\ Past \in SUBSET (Periods \ {c})
      /\ \A p \in Periods \ {c} : p \notin Past => p > c
  <2>1. \A p \in Periods : p \in Past <=> p < c
    BY DEF Past, GrantsInv, PeriodsInOrder
  <2>2. Past \subseteq Periods
    BY DEF Past
  <2>3. Past \subseteq Periods \ {c}
    BY <1>2, <2>1, <2>2
  <2>4. \A p \in Periods \ {c} : p \notin Past => p > c
    BY <1>2, <2>1
  <2>5. IsFiniteSet(Periods) /\ IsFiniteSet(Periods \ {c})
    BY PeriodsFinite, FS_RemoveElement
  <2> QED
    BY <2>2, <2>3, <2>4, <2>5
<1> HIDE DEF F
<1>10. SumFunctionOnSet(F, Periods) \in Nat /\ SumFunctionOnSet(F, Past) \in Nat
  BY <1>8, <1>9, SumOfNaturals
<1>11. SumFunctionOnSet(F, Periods) = F[c] + SumFunctionOnSet(F, Periods \ {c})
  BY <1>2, <1>8, <1>9, SumTakeOut
<1>12. SumFunctionOnSet(F, Periods \ {c}) = SumFunctionOnSet(F, Past)
  <2>1. \A p \in Periods \ {c} : F[p] \in Int /\ (p \notin Past => F[p] = 0)
    BY <1>6, <1>8, <1>9
  <2> QED
    BY <1>9, <2>1, SumWithin
<1>13. ASSUME r.used = NoQuota PROVE SumFunctionOnSet(F, Periods) = 0 /\ SumFunctionOnSet(F, Past) = 0
  <2>1. \A p \in Periods : F[p] \in Int /\ F[p] = 0
    BY <1>6, <1>8, <1>13
  <2>2. IsFiniteSet(Past) /\ \A p \in Past : F[p] \in Int /\ F[p] = 0
    BY <1>9, <2>1, FS_Subset
  <2> QED
    BY <1>9, <2>1, <2>2, SumOfZeros
<1>14. Late(v, r) = SumFunctionOnSet(F, Past) /\ FreshIn(v, r, Periods) = SumFunctionOnSet(F, Periods)
  BY <1>7 DEF Late
<1>15. FreshIn(v, r, Periods) = Fresh(v, r, c) + Late(v, r)
  BY <1>2, <1>8, <1>11, <1>12, <1>14
<1> QED
  BY <1>6, <1>10, <1>13, <1>14, <1>15

(* The member after it.                                                    *)
LEMMA ChargedMember ==
  ASSUME GrantsInv, NEW s \in Sites, Reporting(s), Accepted(site[s], wire[s])
  PROVE  LET late == Late(site[s], wire[s])
             m == Charged(FreshIn(site[s], wire[s], Periods), late)
         IN /\ m \in MemberRecords /\ m.period = member.period /\ m.pending = member.pending
            /\ m.quota = member.quota
            /\ QuotaUsed(m) = QuotaUsed(member) + Fresh(site[s], wire[s], member.period)
<1> DEFINE late == Late(site[s], wire[s])
           fresh == FreshIn(site[s], wire[s], Periods)
           new == Fresh(site[s], wire[s], member.period)
           m == Charged(fresh, late)
<1>1. member \in MemberRecords /\ member.period \in Periods
  BY GrantFacts
<1>2. late \in Nat /\ fresh \in Nat /\ new \in Nat /\ fresh = new + late
  BY <1>1, FreshTraffic
<1>3. m = [member EXCEPT !.meter = member.meter + fresh, !.base = member.base + late]
  BY <1>1 DEF Charged, MemberRecords
<1> HIDE DEF late, fresh, new, m
<1>4. /\ m \in MemberRecords /\ m.period = member.period /\ m.pending = member.pending
      /\ m.quota = member.quota /\ m.meter = member.meter + fresh /\ m.base = member.base + late
      /\ member.meter \in Nat /\ member.base \in Nat
  <2> DEFINE meter == member.meter + fresh
             base == member.base + late
  <2>1. member.meter \in Nat /\ member.base \in Nat
    BY <1>1 DEF MemberRecords
  <2>2. meter \in Nat /\ base \in Nat
    BY <1>2, <2>1
  <2>3. m = [member EXCEPT !.meter = meter, !.base = base]
    BY <1>3
  <2> HIDE DEF meter, base
  <2>4. /\ m \in MemberRecords /\ m.period = member.period /\ m.pending = member.pending
        /\ m.quota = member.quota /\ m.meter = meter /\ m.base = base
    BY <1>1, <2>2, <2>3 DEF MemberRecords
  <2> QED
    BY <2>1, <2>4 DEF meter, base
<1>5. QuotaUsed(m) = QuotaUsed(member) + new
  BY <1>2, <1>4 DEF QuotaUsed
<1> QED
  BY <1>4, <1>5 DEF late, fresh, new, m

LEMMA ReservedNat == \A v \in SiteRecords : /\ Reserved(v) \in Nat /\ Used(v) \in Nat
                                            /\ Used(v) = AtLeastZero(v.used)
<1> SUFFICES ASSUME NEW v \in SiteRecords PROVE Reserved(v) \in Nat /\ Used(v) \in Nat
  BY DEF Used
<1>1. v.used \in Int /\ v.issued \in Int
  BY AbsentPolicies DEF SiteRecords
<1>2. Used(v) \in Nat
  BY <1>1 DEF Used, AtLeastZero
<1>3. AtLeastZero(v.issued - Used(v)) \in Nat
  BY <1>1, <1>2 DEF AtLeastZero
<1> QED
  BY <1>2, <1>3 DEF Reserved

(* What a site may be granted is within what the member has left for it.   *)
LEMMA EffectiveWithin ==
  ASSUME GrantsInv, NEW s \in Sites, NEW v \in SiteRecords, NEW m \in MemberRecords
  PROVE  LET q == EffectiveQuota(m, s, v)
         IN /\ q \in Limits
            /\ m.quota > 0 /\ q > 0 =>
                 AtLeastZero(q - Used(v)) + HeldBy(site, Sites \ {s}) <= m.quota - QuotaUsed(m)
<1> DEFINE held == HeldBy(site, Sites \ {s})
           open == m.quota - QuotaUsed(m)
           left == Remaining(m, s)
           used == Used(v)
           q == EffectiveQuota(m, s, v)
<1>1. held \in Nat
  <2>1. \A t \in Sites : Reserved(site[t]) \in Nat /\ Reserved(site[t]) \in Nat
    BY ReservedNat, GrantFacts
  <2> QED
    BY <2>1, HeldSums
<1>2. open \in Int /\ m.quota \in Nat
  BY DEF QuotaUsed, MemberRecords
<1>3. used \in Nat /\ v.grant \in Limits /\ v.grant \in Int
  BY ReservedNat, AbsentPolicies DEF SiteRecords
<1>4. ReservedAt(Sites \ {s}) = held
  BY DEF ReservedAt, HeldBy
<1>5. left = 0 \/ left = AtLeastZero(AtLeastZero(open) - held)
  BY <1>4 DEF Remaining
<1>6. left \in Nat /\ (left > 0 => left + held = open)
  <2> HIDE DEF left, open, held
  <2> QED
    BY <1>1, <1>2, <1>5 DEF AtLeastZero
<1>7. q = IF v.grant = NoQuota \/ (v.grant > 0 /\ used >= v.grant) THEN NoQuota
          ELSE IF m.quota = 0 THEN v.grant
          ELSE IF left = 0 THEN NoQuota
          ELSE IF v.grant = 0 \/ v.grant > used + left THEN used + left ELSE v.grant
  BY DEF EffectiveQuota
<1> HIDE DEF q, left, used, open, held
<1>8. q \in Limits
  <2>1. used + left \in Limits
    BY <1>3, <1>6, AbsentPolicies
  <2> QED
    BY <1>3, <1>7, <2>1, AbsentPolicies
<1>9. ASSUME m.quota > 0, q > 0 PROVE AtLeastZero(q - used) + held <= open
  <2>1. q # NoQuota /\ m.quota # 0 /\ q \in Int
    BY <1>2, <1>8, <1>9, AbsentPolicies
  <2>2. left # 0 /\ q <= used + left
    BY <1>3, <1>6, <1>7, <2>1
  <2> QED
    BY <1>1, <1>2, <1>3, <1>6, <2>1, <2>2 DEF AtLeastZero
<1> QED
  BY <1>8, <1>9 DEF q, used, held, open

(* The record that remembers a policy sent covers it.                      *)
LEMMA SnapshotSound ==
  ASSUME GrantsInv, NEW s \in Sites, NEW v \in SiteRecords, NEW m \in MemberRecords
  PROVE  LET w == Snapshot(m, s, v)
             q == w.sent
         IN /\ w \in SiteRecords /\ w.used = v.used /\ w.rows = v.rows
            /\ w.desired \in Policies /\ q = w.desired.quota
            /\ q # NoQuota => w.desired.period = m.period
            /\ q = NoQuota \/ w.unlimited \/ (q > 0 /\ q <= w.issued)
            /\ q > 0 => q <= w.issued
            /\ v.issued <= w.issued /\ (v.unlimited => w.unlimited)
            /\ w.unlimited => v.unlimited \/ q = 0
            /\ w.issued = v.issued \/ w.issued = q
            /\ m.quota > 0 /\ q > 0 =>
                 AtLeastZero(q - Used(v)) + HeldBy(site, Sites \ {s}) <= m.quota - QuotaUsed(m)
<1> DEFINE q == IF v.enabled /\ Active(m) THEN EffectiveQuota(m, s, v) ELSE NoQuota
           policy == IF q = NoQuota THEN Withdrawn ELSE [quota |-> q, period |-> m.period]
           issued == IF q > 0 /\ q > v.issued THEN q ELSE v.issued
           unlimited == v.unlimited \/ q = 0
           w == Snapshot(m, s, v)
<1>1. w = [v EXCEPT !.desired = policy, !.sent = q, !.unlimited = unlimited, !.issued = issued]
  BY DEF Snapshot
<1>2. q \in Limits /\ q \in Int
  BY EffectiveWithin, AbsentPolicies
<1>3. m.quota > 0 /\ q > 0 =>
        AtLeastZero(q - Used(v)) + HeldBy(site, Sites \ {s}) <= m.quota - QuotaUsed(m)
  <2>1. ~ (NoQuota > 0)
    BY AbsentPolicies
  <2> QED
    BY <2>1, EffectiveWithin
<1> HIDE DEF q, w
<1>4. m.period \in Periods
  BY DEF MemberRecords
<1>5. /\ policy \in Policies /\ policy.quota = q
      /\ q # NoQuota => policy.period = m.period
  BY <1>2, <1>4, AbsentPolicies DEF Policies
<1>6. policy \in Revisions
  BY <1>5, AbsentPolicies
<1>7. v.issued \in Limits /\ v.issued \in Int
  BY AbsentPolicies DEF SiteRecords
<1>8. issued \in Limits /\ v.issued <= issued /\ (q > 0 => q <= issued)
      /\ (issued = v.issued \/ issued = q)
  BY <1>2, <1>7
<1>9. unlimited \in BOOLEAN
  OBVIOUS
<1>10. (v.unlimited => unlimited) /\ (q = 0 => unlimited) /\ (unlimited => v.unlimited \/ q = 0)
  OBVIOUS
<1> HIDE DEF policy, issued, unlimited
<1>11. /\ w \in SiteRecords /\ w.used = v.used /\ w.rows = v.rows
       /\ w.desired = policy /\ w.sent = q /\ w.unlimited = unlimited /\ w.issued = issued
  BY <1>1, <1>2, <1>6, <1>8, <1>9 DEF SiteRecords
<1>12. q = NoQuota \/ unlimited \/ (q > 0 /\ q <= issued)
  BY <1>2, <1>8, <1>10, AbsentPolicies
<1> QED
  BY <1>3, <1>5, <1>8, <1>10, <1>11, <1>12 DEF w

(* A limit grows with the late traffic; no limit stays no limit.           *)
LEMMA RaisedLimit ==
  ASSUME NEW q \in Limits, NEW n \in Nat
  PROVE  /\ Raised(q, n) \in Limits /\ q <= Raised(q, n)
         /\ Raised(q, n) = 0 <=> q = 0
         /\ Raised(q, n) = q \/ (q > 0 /\ Raised(q, n) = q + n)
<1>1. q \in Int /\ n \in Int /\ n >= 0
  BY AbsentPolicies
<1>2. CASE q > 0
  <2>1. Raised(q, n) = q + n
    BY <1>2 DEF Raised
  <2>2. q + n \in Nat
    BY <1>1, <1>2
  <2> QED
    BY <1>1, <1>2, <2>1, <2>2, AbsentPolicies
<1>3. CASE ~(q > 0)
  <2>1. Raised(q, n) = q
    BY <1>3 DEF Raised
  <2> QED
    BY <1>1, <2>1
<1> QED
  BY <1>2, <1>3

(* What is released is no more than what is acknowledged.                  *)
LEMMA AccountedSound ==
  ASSUME GrantsInv, NEW s \in Sites, Reporting(s), Accepted(site[s], wire[s])
  PROVE  LET v == site[s]
             r == wire[s]
             u == Accounted(v, r, Late(v, r))
         IN /\ u \in SiteRecords
            /\ \A p \in Periods : u.rows[p] = v.rows[p] + Fresh(v, r, p)
            /\ u.desired.quota = 0 => u.sent = 0
            /\ u.desired.quota > 0 => u.desired.quota <= u.sent
            /\ u.sent > 0 => u.sent <= u.issued
            /\ \A q \in Limits :
                 q \in {NoQuota, r.applied.quota} /\ Covered(s, q) =>
                   q = NoQuota \/ u.unlimited \/ (q > 0 /\ q <= u.issued)
            /\ u.unlimited \/ v.unlimited \/ Reserved(u) <= Reserved(v)
<1> DEFINE v == site[s]
           r == wire[s]
           late == Late(v, r)
           fresh == FreshIn(v, r, Periods)
           sent == Raised(v.sent, late)
           issued == Raised(v.issued, late)
           grant == Raised(v.grant, late)
           used == IF r.used = NoQuota THEN v.used ELSE r.used
           rows == [p \in Periods |-> v.rows[p] + Fresh(v, r, p)]
           u == Accounted(v, r, late)
<1>1. v \in SiteRecords /\ r \in Reports
  BY WireTypes, GrantFacts
<1>2. /\ late \in Nat /\ fresh \in Nat
      /\ \A p \in Periods : Fresh(v, r, p) \in Nat /\ v.rows[p] \in Nat
      /\ r.used = NoQuota => fresh = 0 /\ late = 0
  BY FreshTraffic, GrantFacts
<1>3. late <= fresh
  <2>1. member.period \in Periods
    BY GrantFacts
  <2>2. Fresh(v, r, member.period) \in Nat /\ fresh = Fresh(v, r, member.period) + late
    BY <2>1, FreshTraffic
  <2> HIDE DEF late, fresh
  <2> QED
    BY <1>2, <2>2
<1>4. r.used # NoQuota => r.used = Used(v) + fresh
  BY DEF Accepted
<1>5. /\ v.desired.quota = 0 => v.sent = 0
      /\ v.desired.quota > 0 => v.desired.quota <= v.sent
      /\ v.sent > 0 => v.sent <= v.issued
  BY GrantFacts DEF RecordSound
<1>6. rows \in Rows /\ \A p \in Periods : rows[p] = v.rows[p] + Fresh(v, r, p)
  BY <1>2 DEF Rows
<1>7. /\ {v.sent, v.issued, v.grant, v.used, r.used} \subseteq Limits
      /\ {v.sent, v.issued, v.grant, v.used, r.used} \subseteq Int
      /\ v.unlimited \in BOOLEAN
  BY <1>1, AbsentPolicies DEF SiteRecords, Reports
<1>8. u = IF Acknowledges(v, r)
          THEN [v EXCEPT !.used = used, !.rows = rows, !.grant = grant, !.sent = sent,
                         !.issued = sent, !.unlimited = (sent = 0)]
          ELSE [v EXCEPT !.used = used, !.rows = rows, !.grant = grant, !.sent = sent,
                         !.issued = issued]
  BY <1>1 DEF Accounted, SiteRecords
<1> HIDE DEF v, r, late, fresh, u, rows
<1>9. used \in Limits
  BY <1>7
<1>10. ASSUME NEW q \in Limits
       PROVE  /\ Raised(q, late) \in Limits /\ q <= Raised(q, late)
              /\ Raised(q, late) = 0 <=> q = 0
              /\ Raised(q, late) = q \/ (q > 0 /\ Raised(q, late) = q + late)
  BY <1>2, <1>10, RaisedLimit
<1>11. /\ sent \in Limits /\ issued \in Limits /\ grant \in Limits
       /\ v.sent <= sent /\ v.issued <= issued /\ (sent = 0 <=> v.sent = 0)
       /\ sent = v.sent \/ (v.sent > 0 /\ sent = v.sent + late)
       /\ issued = v.issued \/ (v.issued > 0 /\ issued = v.issued + late)
  BY <1>7, <1>10
<1>12. (sent = 0) \in BOOLEAN
  OBVIOUS
<1> HIDE DEF used, sent, issued, grant
<1>13. /\ u \in SiteRecords /\ u.rows = rows /\ u.used = used
       /\ u.issued = IF Acknowledges(v, r) THEN sent ELSE issued
       /\ u.unlimited = IF Acknowledges(v, r) THEN sent = 0 ELSE v.unlimited
  <2>1. CASE Acknowledges(v, r)
    BY <1>1, <1>6, <1>8, <1>9, <1>11, <1>12, <2>1 DEF SiteRecords
  <2>2. CASE ~Acknowledges(v, r)
    BY <1>1, <1>6, <1>8, <1>9, <1>11, <2>2 DEF SiteRecords
  <2> QED
    BY <2>1, <2>2
<1>14. ASSUME NEW q \in Limits, q \in {NoQuota, r.applied.quota}, Covered(s, q)
       PROVE  q = NoQuota \/ u.unlimited \/ (q > 0 /\ q <= u.issued)
  <2>1. q = NoQuota \/ v.unlimited \/ (q > 0 /\ q <= v.issued)
    BY <1>14 DEF Covered, v
  <2>2. CASE Acknowledges(v, r)
    <3>1. q = NoQuota \/ q = v.desired.quota
      BY <1>14, <2>2 DEF Acknowledges
    <3>2. u.issued = sent /\ u.unlimited = (sent = 0)
      BY <1>13, <2>2
    <3>3. v.sent \in Int /\ sent \in Int /\ v.sent <= sent /\ (sent = 0 <=> v.sent = 0)
      BY <1>7, <1>11, AbsentPolicies
    <3>4. q = NoQuota \/ q = 0 \/ q > 0
      BY AbsentPolicies
    <3>5. CASE q = NoQuota
      BY <3>5
    <3>6. CASE q # NoQuota /\ q = 0
      <4>1. sent = 0
        BY <1>5, <3>1, <3>3, <3>6
      <4> QED
        BY <3>2, <4>1
    <3>7. CASE q # NoQuota /\ q > 0
      <4>1. q \in Int /\ q <= v.sent
        BY <1>5, <3>1, <3>7, AbsentPolicies
      <4> QED
        BY <3>2, <3>3, <3>7, <4>1
    <3> QED
      BY <3>4, <3>5, <3>6, <3>7
  <2>3. CASE ~Acknowledges(v, r)
    <3>1. u.issued = issued /\ u.unlimited = v.unlimited
      BY <1>13, <2>3
    <3>2. q \in Int /\ issued \in Int
      BY <1>11, AbsentPolicies
    <3> QED
      BY <1>7, <1>11, <2>1, <3>1, <3>2
  <2> QED
    BY <2>2, <2>3
<1>15. ASSUME ~u.unlimited, ~v.unlimited PROVE Reserved(u) <= Reserved(v)
  <2>1. Reserved(u) = AtLeastZero(u.issued - Used(u)) /\ Reserved(v) = AtLeastZero(v.issued - Used(v))
    BY <1>15 DEF Reserved
  <2>2. Used(v) \in Nat /\ Used(u) \in Nat
    BY <1>1, <1>13, ReservedNat
  <2>3. Used(u) >= Used(v) + late
    <3>1. CASE r.used = NoQuota
      BY <1>2, <1>13, <2>2, <3>1 DEF used, Used
    <3>2. CASE r.used # NoQuota
      <4>1. u.used = Used(v) + fresh
        BY <1>4, <1>13, <3>2 DEF used
      <4>2. Used(u) = Used(v) + fresh
        BY <1>2, <2>2, <4>1 DEF Used, AtLeastZero
      <4> QED
        BY <1>2, <1>3, <2>2, <4>2
    <3> QED
      BY <3>1, <3>2
  <2>4. u.issued \in Int /\ v.issued \in Int /\ (u.issued <= v.issued \/ u.issued <= v.issued + late \/ u.issued < 0)
    <3>1. CASE Acknowledges(v, r)
      <4>1. u.issued = sent /\ sent # 0 /\ sent \in Int
        BY <1>11, <1>13, <1>15, <3>1, AbsentPolicies
      <4>2. v.sent > 0 => v.sent <= v.issued
        BY <1>5
      <4>3. v.sent > 0 \/ v.sent < 0
        BY <1>7, <1>11, <4>1
      <4> QED
        BY <1>2, <1>7, <1>11, <4>1, <4>2, <4>3
    <3>2. CASE ~Acknowledges(v, r)
      <4>1. u.issued = issued /\ issued \in Int
        BY <1>11, <1>13, <3>2, AbsentPolicies
      <4> QED
        BY <1>2, <1>7, <1>11, <4>1
    <3> QED
      BY <3>1, <3>2
  <2> QED
    BY <1>2, <2>1, <2>2, <2>3, <2>4 DEF AtLeastZero
<1>16. /\ u.desired.quota = 0 => u.sent = 0
       /\ u.desired.quota > 0 => u.desired.quota <= u.sent
       /\ u.sent > 0 => u.sent <= u.issued
  <2>1. {v.sent, sent, v.issued, issued} \subseteq Int /\ v.desired.quota \in Int
    <3>1. v.desired.quota \in Limits
      BY <1>1, AbsentPolicies DEF SiteRecords, Revisions, Policies, Unapplied
    <3> QED
      BY <1>7, <1>11, <3>1, AbsentPolicies
  <2>2. /\ v.desired.quota > 0 => v.desired.quota <= sent
        /\ v.desired.quota = 0 => sent = 0
    BY <1>5, <1>11, <2>1
  <2>3. u.issued = sent \/ u.issued = issued
    BY <1>13
  <2>4. sent > 0 => sent <= issued
    <3> SUFFICES ASSUME sent > 0 PROVE sent <= issued
      OBVIOUS
    <3>1. v.sent > 0 /\ v.sent <= v.issued /\ v.issued > 0
      BY <1>5, <1>11, <2>1
    <3>2. issued = v.issued + late
      BY <1>2, <1>7, <3>1 DEF issued, Raised
    <3>3. sent = v.sent + late
      BY <1>2, <1>7, <3>1 DEF sent, Raised
    <3> QED
      BY <1>2, <2>1, <3>1, <3>2, <3>3
  <2>5. u.sent = sent /\ u.desired = v.desired
    <3>1. CASE Acknowledges(v, r)
      BY <1>1, <1>6, <1>8, <1>9, <1>11, <1>12, <3>1 DEF SiteRecords
    <3>2. CASE ~Acknowledges(v, r)
      BY <1>1, <1>6, <1>8, <1>9, <1>11, <3>2 DEF SiteRecords
    <3> QED
      BY <3>1, <3>2
  <2> QED
    BY <2>1, <2>2, <2>3, <2>4, <2>5
<1>17. /\ u \in SiteRecords
       /\ \A p \in Periods : u.rows[p] = v.rows[p] + Fresh(v, r, p)
       /\ u.unlimited \/ v.unlimited \/ Reserved(u) <= Reserved(v)
  BY <1>6, <1>13, <1>15
<1> QED
  BY <1>14, <1>16, <1>17 DEF u, v, r, late

(* A reservation that grows is of a ceiling issued now, and fits.          *)
LEMMA GrownReservation ==
  ASSUME GrantsInv, NEW s \in Sites, NEW v \in SiteRecords, NEW u \in SiteRecords,
         NEW m \in MemberRecords, ~v.unlimited, u.unlimited \/ Reserved(u) <= Reserved(v),
         m.quota > 0, Reserved(Snapshot(m, s, u)) > Reserved(v)
  PROVE  Reserved(Snapshot(m, s, u)) + HeldBy(site, Sites \ {s}) <= m.quota - QuotaUsed(m)
<1> DEFINE w == Snapshot(m, s, u)
           q == w.sent
           held == HeldBy(site, Sites \ {s})
           open == m.quota - QuotaUsed(m)
<1>1. /\ w \in SiteRecords /\ w.used = u.used /\ q \in Limits
      /\ (u.unlimited => w.unlimited) /\ (w.issued = u.issued \/ w.issued = q)
      /\ q > 0 => AtLeastZero(q - Used(u)) + held <= open
  BY SnapshotSound, AbsentPolicies DEF SiteRecords
<1>2. Reserved(w) > Reserved(v)
  OBVIOUS
<1> HIDE DEF w, q, held, open
<1>3. Reserved(v) \in Nat /\ Reserved(u) \in Nat /\ Reserved(w) \in Nat /\ Used(u) \in Nat
  BY <1>1, ReservedNat
<1>4. ~w.unlimited
  <2> SUFFICES ASSUME w.unlimited PROVE FALSE
    OBVIOUS
  <2>1. Reserved(w) = 0
    BY DEF Reserved
  <2> QED
    BY <1>2, <1>3, <2>1
<1>5. Used(w) = Used(u)
  BY <1>1 DEF Used
<1>6. Reserved(w) = AtLeastZero(w.issued - Used(u))
  BY <1>4, <1>5 DEF Reserved
<1>7. ~u.unlimited /\ Reserved(u) <= Reserved(v) /\ Reserved(u) = AtLeastZero(u.issued - Used(u))
  BY <1>1, <1>4 DEF Reserved
<1>8. w.issued = q
  BY <1>1, <1>2, <1>3, <1>6, <1>7
<1>9. q > 0
  <2>1. q \in Int
    BY <1>1, AbsentPolicies
  <2> QED
    BY <1>2, <1>3, <1>6, <1>8, <2>1 DEF AtLeastZero
<1> QED
  BY <1>1, <1>6, <1>8, <1>9 DEF w, held, open

(* The site's record, and its answer.                                      *)
LEMMA ReportTaken ==
  ASSUME GrantsInv, NEW s \in Sites, AcceptReport(s)
  PROVE  LET v == site[s]
             w == site'[s]
             r == wire[s]
         IN /\ Reporting(s) /\ Accepted(v, r)
            /\ member' = Charged(FreshIn(v, r, Periods), Late(v, r))
            /\ w \in SiteRecords /\ site' = [site EXCEPT ![s] = w]
            /\ \A p \in Periods : w.rows[p] = v.rows[p] + Fresh(v, r, p)
            /\ w.desired \in Policies /\ w.sent = w.desired.quota
            /\ w.sent # NoQuota => w.desired.period = member'.period
            /\ w.sent > 0 => w.sent <= w.issued
            /\ w.sent = NoQuota \/ w.unlimited \/ (w.sent > 0 /\ w.sent <= w.issued)
            /\ \A q \in Limits :
                 q \in {NoQuota, r.applied.quota} /\ Covered(s, q) =>
                   q = NoQuota \/ w.unlimited \/ (q > 0 /\ q <= w.issued)
            /\ wire' = [wire EXCEPT ![s] = [policy |-> w.desired, ack |-> r.rows]]
            /\ member'.quota > 0 /\ ~v.unlimited /\ Reserved(w) > Reserved(v) =>
                 Reserved(w) + HeldBy(site, Sites \ {s}) <= member'.quota - QuotaUsed(member')
<1> DEFINE v == site[s]
           r == wire[s]
           late == Late(v, r)
           m == Charged(FreshIn(v, r, Periods), late)
           u == Accounted(v, r, late)
           w == Snapshot(m, s, u)
<1>1. Reporting(s) /\ Accepted(v, r) /\ member' = m /\ site' = [site EXCEPT ![s] = w]
      /\ wire' = [wire EXCEPT ![s] = [policy |-> w.desired, ack |-> r.rows]]
  BY DEF AcceptReport
<1>2. site \in [Sites -> SiteRecords] /\ v \in SiteRecords
  BY GrantsTypes, GrantFacts DEF GrantsInv
<1>3. site'[s] = w
  BY <1>1, <1>2
<1>4. m \in MemberRecords
  BY <1>1, ChargedMember
<1>5. /\ u \in SiteRecords
      /\ \A p \in Periods : u.rows[p] = v.rows[p] + Fresh(v, r, p)
      /\ \A q \in Limits :
           q \in {NoQuota, r.applied.quota} /\ Covered(s, q) =>
             q = NoQuota \/ u.unlimited \/ (q > 0 /\ q <= u.issued)
      /\ u.unlimited \/ v.unlimited \/ Reserved(u) <= Reserved(v)
  BY <1>1, AccountedSound
<1> HIDE DEF v, r, late, m, u
<1>6. /\ w \in SiteRecords /\ w.rows = u.rows /\ w.desired \in Policies
      /\ w.sent = w.desired.quota /\ (w.sent # NoQuota => w.desired.period = m.period)
      /\ w.sent = NoQuota \/ w.unlimited \/ (w.sent > 0 /\ w.sent <= w.issued)
      /\ w.sent > 0 => w.sent <= w.issued
      /\ u.issued <= w.issued /\ (u.unlimited => w.unlimited)
  BY <1>4, <1>5, SnapshotSound
<1>7. m.quota > 0 /\ ~v.unlimited /\ Reserved(w) > Reserved(v) =>
        Reserved(w) + HeldBy(site, Sites \ {s}) <= m.quota - QuotaUsed(m)
  BY <1>2, <1>4, <1>5, GrownReservation
<1> HIDE DEF w
<1>8. \A q \in Limits :
        q \in {NoQuota, r.applied.quota} /\ Covered(s, q) =>
          q = NoQuota \/ w.unlimited \/ (q > 0 /\ q <= w.issued)
  <2>1. u.issued \in Int /\ w.issued \in Int /\ \A q \in Limits : q \in Int
    BY <1>5, <1>6, AbsentPolicies DEF SiteRecords
  <2> QED
    BY <1>5, <1>6, <2>1
<1> QED
  BY <1>1, <1>3, <1>5, <1>6, <1>7, <1>8 DEF v, r, late, m

(* Traffic charged to the member, his periods and the site's record, with  *)
(* an answer or without.                                                   *)
ChargedWith(s, w, reply) ==
  LET v == site[s]
      r == wire[s]
  IN /\ Reporting(s) /\ Accepted(v, r)
     /\ member' = Charged(FreshIn(v, r, Periods), Late(v, r))
     /\ closed' = Rebilled(v, r)
     /\ site' = [site EXCEPT ![s] = w] /\ wire' = [wire EXCEPT ![s] = reply]
     /\ UNCHANGED <<agent, localUse, changes, failures>>
     /\ \A p \in Periods : w.rows[p] = v.rows[p] + Fresh(v, r, p)
     /\ \A q \in Limits :
          q \in {NoQuota, r.applied.quota} /\ Covered(s, q) =>
            q = NoQuota \/ w.unlimited \/ (q > 0 /\ q <= w.issued)
     /\ RecordSound(s)' /\ WireSound(s)'

LEMMA ChargedReportKeeps ==
  ASSUME GrantsInv, NEW s \in Sites, NEW w, NEW reply,
         w \in SiteRecords /\ reply \in Reports \union Answers \union {Idle},
         ChargedWith(s, w, reply)
  PROVE  GrantsInv'
<1> DEFINE v == site[s]
           r == wire[s]
           c == member.period
<1>1. /\ Reporting(s) /\ Accepted(v, r)
      /\ site' = [site EXCEPT ![s] = w] /\ wire' = [wire EXCEPT ![s] = reply]
      /\ \A p \in Periods : w.rows[p] = v.rows[p] + Fresh(v, r, p)
      /\ \A q \in Limits :
           q \in {NoQuota, r.applied.quota} /\ Covered(s, q) =>
             q = NoQuota \/ w.unlimited \/ (q > 0 /\ q <= w.issued)
      /\ RecordSound(s)' /\ WireSound(s)'
  BY DEF ChargedWith
<1>2. /\ member' \in MemberRecords /\ member'.period = c /\ member'.pending = member.pending
      /\ QuotaUsed(member') = QuotaUsed(member) + Fresh(v, r, c)
  BY ChargedMember DEF ChargedWith
<1>3. /\ closed' = [p \in Periods |-> IF p \in Past THEN closed[p] + Fresh(v, r, p) ELSE closed[p]]
      /\ UNCHANGED <<agent, localUse, changes, failures>>
  BY DEF ChargedWith, Rebilled
<1>4. \A p \in Periods : /\ Fresh(v, r, p) \in Nat
                         /\ v.rows[p] + Fresh(v, r, p) <= agent[s].rows[p]
                         /\ r.rows[p] <= v.rows[p] + Fresh(v, r, p)
                         /\ p > c => Fresh(v, r, p) = 0
  BY <1>1, FreshTraffic
<1>5. /\ GrantsTypeOK /\ c \in Periods /\ r \in Reports
      /\ site \in [Sites -> SiteRecords] /\ closed \in [Periods -> Limits]
      /\ wire \in [Sites -> Reports \union Answers \union {Idle}]
  BY <1>1, WireTypes, GrantFacts, GrantsTypes
<1>6. \A t \in Sites : /\ site'[t] = IF t = s THEN w ELSE site[t]
                       /\ wire'[t] = IF t = s THEN reply ELSE wire[t]
  BY <1>1, <1>5
<1>7. \A p \in Periods : closed'[p] = IF closed[p] # NoQuota THEN closed[p] + Fresh(v, r, p) ELSE closed[p]
  BY <1>3 DEF Past
<1>8. \A p \in Periods : closed[p] # NoQuota => closed[p] \in Nat /\ closed[p] + Fresh(v, r, p) \in Nat
  <2>1. \A p \in Periods : closed[p] \in Limits /\ Fresh(v, r, p) \in Nat
    BY <1>4, <1>5
  <2>2. \A p \in Periods : closed[p] # NoQuota => closed[p] \in Nat
    BY <2>1, AbsentPolicies
  <2> QED
    BY <2>1, <2>2
<1> HIDE DEF v, r, c
<1>9. GrantsTypeOK'
  <2>1. closed' \in [Periods -> Limits]
    <3>1. \A p \in Periods : closed'[p] \in Limits
      BY <1>5, <1>7, <1>8, AbsentPolicies
    <3> QED
      BY <1>3, <3>1
  <2>2. site' \in [Sites -> SiteRecords]
    BY <1>1, <1>5
  <2>3. wire' \in [Sites -> Reports \union Answers \union {Idle}]
    BY <1>1, <1>5
  <2> QED
    BY <1>2, <1>3, <1>5, <2>1, <2>2, <2>3, GrantsTypes DEF GrantsTypeOK, SiteRecords, MemberRecords
<1>10. PeriodsInOrder'
  <2>1. \A p \in Periods : closed'[p] # NoQuota <=> closed[p] # NoQuota
    BY <1>7, <1>8, AbsentPolicies
  <2> QED
    BY <1>2, <1>3, <2>1 DEF GrantsInv, PeriodsInOrder, c
<1>11. ASSUME NEW p \in Periods
       PROVE  TakenBy(site', p) = TakenBy(site, p) + Fresh(v, r, p) /\ TakenBy(site, p) \in Nat
  <2>1. \A t \in Sites : site[t].rows[p] \in Nat /\ site'[t].rows[p] \in Nat
    BY <1>1, <1>5, <1>6, GrantFacts DEF SiteRecords, Rows
  <2>2. Fresh(v, r, p) \in Int
    BY <1>4
  <2>3. \A t \in Sites : site'[t].rows[p] = IF t = s THEN site[t].rows[p] + Fresh(v, r, p)
                                             ELSE site[t].rows[p]
    BY <1>1, <1>6 DEF v
  <2>4. TakenBy(site, p) \in Nat /\ \A t \in Sites, d \in Int :
          (\A x \in Sites : site'[x].rows[p] = IF x = t THEN site[x].rows[p] + d ELSE site[x].rows[p])
          => TakenBy(site', p) = TakenBy(site, p) + d
    BY <2>1, TakenSums
  <2> QED
    BY <2>2, <2>3, <2>4
<1>12. BilledOnce'
  <2>0. \A p \in Periods : localUse[p] \in Nat /\ (closed[p] # NoQuota => closed[p] = localUse[p] + TakenBy(site, p))
    BY GrantFacts DEF GrantsInv, BilledOnce
  <2>1. ASSUME NEW p \in Periods, closed'[p] # NoQuota
        PROVE  closed'[p] = localUse[p] + TakenBy(site', p)
    <3>1. closed'[p] = closed[p] + Fresh(v, r, p) /\ closed[p] = localUse[p] + TakenBy(site, p)
      BY <1>7, <2>0, <2>1
    <3> QED
      BY <1>4, <1>11, <2>0, <3>1
  <2>2. QuotaUsed(member') = localUse[c] + TakenBy(site', c)
    <3>1. QuotaUsed(member) = localUse[c] + TakenBy(site, c)
      BY DEF GrantsInv, BilledOnce, c
    <3> QED
      BY <1>2, <1>4, <1>5, <1>11, <2>0, <3>1
  <2>3. ASSUME NEW p \in Periods, NEW t \in Sites
        PROVE  agent[t].acked[p] <= site'[t].rows[p] /\ site'[t].rows[p] <= agent[t].rows[p]
    <3>1. /\ agent[t].acked[p] \in Nat /\ site[t].rows[p] \in Nat /\ agent[t].rows[p] \in Nat
          /\ agent[t].acked[p] <= site[t].rows[p] /\ site[t].rows[p] <= agent[t].rows[p]
      BY GrantFacts
    <3>2. CASE t = s
      BY <1>1, <1>4, <1>6, <3>1, <3>2 DEF v
    <3>3. CASE t # s
      BY <1>6, <3>1, <3>3
    <3> QED
      BY <3>2, <3>3
  <2> QED
    BY <1>2, <1>3, <2>1, <2>2, <2>3 DEF BilledOnce
<1>13. RecordSound(s)' /\ AgentSound(s)' /\ WireSound(s)'
  <2>1. AgentSound(s) /\ WireSound(s) /\ agent[s] \in AgentRecords
    BY GrantFacts
  <2>2. r.applied = agent[s].applied
    BY <1>1, <2>1 DEF WireSound, r
  <2>4. AgentSound(s)'
    <3>1. agent[s].quota \in Limits
      BY <2>1 DEF AgentRecords
    <3>2. agent[s].torn \/ (agent[s].quota \in {NoQuota, r.applied.quota} /\ Covered(s, agent[s].quota))
      BY <2>1, <2>2 DEF AgentSound
    <3>3. agent[s].torn \/ (agent[s].quota \in {NoQuota, agent[s].applied.quota}
            /\ (agent[s].quota = NoQuota \/ w.unlimited \/ (agent[s].quota > 0 /\ agent[s].quota <= w.issued)))
      BY <1>1, <2>2, <3>1, <3>2
    <3> QED
      BY <1>2, <1>3, <1>6, <2>1, <3>3 DEF AgentSound, Covered, c
  <2> QED
    BY <1>1, <2>4
<1>14. ASSUME NEW t \in Sites PROVE (RecordSound(t) /\ AgentSound(t) /\ WireSound(t))'
  <2>1. RecordSound(t) /\ AgentSound(t) /\ WireSound(t)
    BY DEF GrantsInv
  <2>2. CASE t = s
    BY <1>13, <2>2
  <2>3. CASE t # s
    BY <1>2, <1>3, <1>6, <2>1, <2>3
       DEF RecordSound, AgentSound, WireSound, Reporting, Answered, Covered, c
  <2> QED
    BY <2>2, <2>3
<1> QED
  BY <1>9, <1>10, <1>12, <1>14 DEF GrantsInv
------------------------------------------------------------------------
LEMMA AcceptReportKeeps == ASSUME GrantsInv, NEW s \in Sites, AcceptReport(s) PROVE GrantsInv'
<1> DEFINE v == site[s]
           w == site'[s]
           r == wire[s]
           x == [policy |-> w.desired, ack |-> r.rows]
<1>1. /\ Reporting(s) /\ Accepted(v, r)
      /\ member' = Charged(FreshIn(v, r, Periods), Late(v, r))
      /\ w \in SiteRecords /\ site' = [site EXCEPT ![s] = w]
      /\ \A p \in Periods : w.rows[p] = v.rows[p] + Fresh(v, r, p)
      /\ w.desired \in Policies /\ w.sent = w.desired.quota
      /\ w.sent # NoQuota => w.desired.period = member'.period
      /\ w.sent > 0 => w.sent <= w.issued
      /\ w.sent = NoQuota \/ w.unlimited \/ (w.sent > 0 /\ w.sent <= w.issued)
      /\ \A q \in Limits :
           q \in {NoQuota, r.applied.quota} /\ Covered(s, q) =>
             q = NoQuota \/ w.unlimited \/ (q > 0 /\ q <= w.issued)
      /\ wire' = [wire EXCEPT ![s] = x]
  BY ReportTaken
<1>2. closed' = Rebilled(v, r) /\ UNCHANGED <<agent, localUse, changes, failures>>
  BY DEF AcceptReport
<1>3. \A p \in Periods : r.rows[p] <= v.rows[p] + Fresh(v, r, p)
  BY <1>1, FreshTraffic
<1>4. /\ r \in Reports /\ member.period \in Periods
      /\ wire \in [Sites -> Reports \union Answers \union {Idle}]
  BY <1>1, WireTypes, GrantFacts, GrantsTypes
<1>5. member'.period = member.period
  BY <1>1, ChargedMember
<1>6. x \in Answers
  BY <1>1, <1>4 DEF Answers, Reports
<1>7. wire'[s] = x
  BY <1>1, <1>4
<1> HIDE DEF v, w, r
<1>8. RecordSound(s)'
  <2>1. w.sent \in Int
    BY <1>1, AbsentPolicies DEF SiteRecords
  <2> QED
    BY <1>1, <2>1 DEF RecordSound, w
<1>9. WireSound(s)'
  <2>1. "applied" \notin DOMAIN wire'[s]
    BY <1>7
  <2>2. \A p \in Periods : wire'[s].ack[p] <= w.rows[p]
    BY <1>1, <1>3, <1>7
  <2>3. wire'[s].policy.quota # NoQuota => wire'[s].policy.period \in 1 .. member.period
    <3>1. member.period \in 1 .. member.period
      BY <1>4, PeriodsFinite DEF Periods
    <3> QED
      BY <1>1, <1>5, <1>7, <3>1
  <2>4. wire'[s].policy.quota = NoQuota \/ w.unlimited
          \/ (wire'[s].policy.quota > 0 /\ wire'[s].policy.quota <= w.issued)
    BY <1>1, <1>7
  <2> HIDE DEF x
  <2> QED
    BY <1>5, <2>1, <2>2, <2>3, <2>4 DEF WireSound, Reporting, Answered, Covered, w
<1> HIDE DEF x
<1>10. ChargedWith(s, w, x)
  BY <1>1, <1>2, <1>8, <1>9 DEF ChargedWith, v, r
<1> QED
  BY <1>1, <1>6, <1>10, ChargedReportKeeps

(* A report that is charged and gets no answer.                            *)
LEMMA UnansweredReport ==
  ASSUME GrantsInv, NEW s \in Sites, LeaveUnanswered(s)
  PROVE  LET v == site[s]
             r == wire[s]
             u == Accounted(v, r, Late(v, r))
         IN /\ Reporting(s) /\ Accepted(v, r) /\ u \in SiteRecords
            /\ member' = Charged(FreshIn(v, r, Periods), Late(v, r))
            /\ closed' = Rebilled(v, r) /\ UNCHANGED <<agent, localUse, changes, failures>>
            /\ site' = [site EXCEPT ![s] = u] /\ site'[s] = u
            /\ wire' = [wire EXCEPT ![s] = Idle] /\ wire'[s] = Idle
            /\ u.unlimited \/ v.unlimited \/ Reserved(u) <= Reserved(v)
<1> DEFINE v == site[s]
           r == wire[s]
           u == Accounted(v, r, Late(v, r))
<1>1. /\ Reporting(s) /\ Accepted(v, r)
      /\ member' = Charged(FreshIn(v, r, Periods), Late(v, r))
      /\ closed' = Rebilled(v, r) /\ UNCHANGED <<agent, localUse, changes, failures>>
      /\ site' = [site EXCEPT ![s] = u] /\ wire' = [wire EXCEPT ![s] = Idle]
  BY DEF LeaveUnanswered
<1>2. u \in SiteRecords /\ (u.unlimited \/ v.unlimited \/ Reserved(u) <= Reserved(v))
  BY <1>1, AccountedSound
<1> HIDE DEF u
<1>3. site'[s] = u /\ wire'[s] = Idle
  BY <1>1, GrantsTypes DEF GrantsInv
<1> QED
  BY <1>1, <1>2, <1>3 DEF u

LEMMA LeaveUnansweredKeeps ==
  ASSUME GrantsInv, NEW s \in Sites, LeaveUnanswered(s) PROVE GrantsInv'
<1> DEFINE v == site[s]
           r == wire[s]
           u == Accounted(v, r, Late(v, r))
<1>1. /\ Reporting(s) /\ Accepted(v, r) /\ u \in SiteRecords
      /\ member' = Charged(FreshIn(v, r, Periods), Late(v, r))
      /\ closed' = Rebilled(v, r) /\ UNCHANGED <<agent, localUse, changes, failures>>
      /\ site' = [site EXCEPT ![s] = u] /\ site'[s] = u
      /\ wire' = [wire EXCEPT ![s] = Idle] /\ wire'[s] = Idle
  BY UnansweredReport
<1>2. /\ \A p \in Periods : u.rows[p] = v.rows[p] + Fresh(v, r, p)
      /\ u.desired.quota = 0 => u.sent = 0
      /\ u.desired.quota > 0 => u.desired.quota <= u.sent
      /\ u.sent > 0 => u.sent <= u.issued
      /\ \A q \in Limits :
           q \in {NoQuota, r.applied.quota} /\ Covered(s, q) =>
             q = NoQuota \/ u.unlimited \/ (q > 0 /\ q <= u.issued)
  BY <1>1, AccountedSound
<1> HIDE DEF u
<1>3. RecordSound(s)'
  BY <1>1, <1>2 DEF RecordSound
<1>4. WireSound(s)'
  BY <1>1 DEF WireSound, Reporting, Answered
<1> QED
  <2>1. ChargedWith(s, u, Idle)
    BY <1>1, <1>2, <1>3, <1>4 DEF ChargedWith
  <2> QED
    BY <1>1, <2>1, ChargedReportKeeps
-----------------------------------------------------------------------------
LEMMA GrantsStep == GrantsInv /\ [GrantsNext]_GrantsVars => GrantsInv'
<1> SUFFICES ASSUME GrantsInv, [GrantsNext]_GrantsVars PROVE GrantsInv'
  OBVIOUS
<1>1. ASSUME NEW s \in Sites,
             \/ AcceptReport(s) \/ LeaveUnanswered(s) \/ RefuseReport(s)
             \/ \E q \in Ceilings \union {NoQuota} : SetGrant(s, q)
             \/ ToggleSite(s) \/ RemoveSite(s)
             \/ SiteTraffic(s) \/ Sample(s) \/ SendReport(s) \/ LoseMessage(s)
             \/ LeaseExpires(s) \/ KeepPolicy(s) \/ AdoptPolicy(s)
             \/ RejectPolicy(s) \/ FailPolicy(s)
      PROVE  GrantsInv'
  <2>1. CASE RefuseReport(s) \/ LoseMessage(s)
    BY <2>1, WireClearedKeeps DEF RefuseReport, LoseMessage
  <2> QED
    BY <1>1, <2>1, AcceptReportKeeps, LeaveUnansweredKeeps, RecordEditsKeep, SiteTrafficKeeps,
       SampleKeeps, SendReportKeeps, LeaseExpiresKeeps, KeepPolicyKeeps, AdoptPolicyKeeps,
       RejectPolicyKeeps, FailPolicyKeeps
<1>2. CASE \E q \in Quotas : SetQuota(q)
  BY <1>2, MemberEditsKeep
<1>3. CASE StopMember
  BY <1>3, MemberEditsKeep
<1>4. CASE TurnPeriod \/ LocalTraffic
  BY <1>4, TurnPeriodKeeps, LocalTrafficKeeps
<1>5. CASE UNCHANGED GrantsVars
  <2>1. /\ UNCHANGED <<member, closed, agent, wire, localUse>> /\ site' = site
        /\ changes' = changes /\ failures' = failures
    BY <1>5 DEF GrantsVars
  <2>2. site' \in [Sites -> SiteRecords] /\ {changes, failures}' \subseteq Nat
    BY <2>1, GrantsTypes DEF GrantsInv
  <2> QED
    BY <2>1, <2>2, MemberKept, PanelFrame
<1> QED
  BY <1>1, <1>2, <1>3, <1>4, <1>5 DEF GrantsNext

(* The inductive invariant: periods close in order, each is billed what    *)
(* was measured in it, and a site's policy is what it was sent last or     *)
(* fits what is still held for it.                                         *)
THEOREM GrantsSafe == GrantsSpec => []GrantsInv
<1> QED
  BY GrantsInitInv, GrantsStep, PTL DEF GrantsSpec

(* Every period is billed what was measured in it, at any site, exactly    *)
(* once (acceptBusinessUsage, reconcileClosedBusinessUsage).               *)
THEOREM TrafficBilledOnce == GrantsSpec => []TrafficIsBilledOnce
<1> QED
  BY GrantsSafe, GrantsInvMeans, PTL

(* What a site may spend is reserved at the panel (businessSnapshot).      *)
THEOREM SitesAreCovered == GrantsSpec => []ReservationCoversSite
<1> QED
  BY GrantsSafe, GrantsInvMeans, PTL
-----------------------------------------------------------------------------
(* Only an answer raises what a site may take.                             *)
LEMMA OthersReserveNoMore ==
  ASSUME GrantsInv, GrantsNext, ~ \E t \in Sites : AcceptReport(t), NEW s \in Sites
  PROVE  ~site[s].unlimited => Reserved(site'[s]) <= Reserved(site[s])
<1>1. site \in [Sites -> SiteRecords]
  BY GrantsTypes DEF GrantsInv
<1>0. Reserved(site[s]) \in Nat
  BY <1>1, ReservedNat
<1>2. CASE UNCHANGED site
  BY <1>0, <1>2
<1>3. ASSUME NEW t \in Sites,
             (\E q \in Ceilings \union {NoQuota} : SetGrant(t, q)) \/ ToggleSite(t) \/ RemoveSite(t)
      PROVE  Reserved(site'[s]) <= Reserved(site[s])
  <2>1. /\ site'[s].issued = site[s].issued /\ site'[s].unlimited = site[s].unlimited
        /\ site'[s].used = site[s].used
    <3>1. CASE \E q \in Ceilings \union {NoQuota} : SetGrant(t, q)
      <4>1. PICK q \in Ceilings \union {NoQuota} : SetGrant(t, q)
        BY <3>1
      <4> DEFINE budget == AtLeastZero(q - Used(site[t]))
      <4>2. site' = [site EXCEPT ![t].grant = q, ![t].budget = budget]
        BY <4>1 DEF SetGrant
      <4> HIDE DEF budget
      <4> QED
        BY <1>1, <4>2 DEF SiteRecords
    <3>2. CASE ToggleSite(t)
      BY <1>1, <3>2 DEF ToggleSite, SiteRecords
    <3>3. CASE RemoveSite(t)
      BY <1>1, <3>3 DEF RemoveSite, SiteRecords
    <3> QED
      BY <1>3, <3>1, <3>2, <3>3
  <2> QED
    BY <1>0, <2>1 DEF Reserved, Used
<1>4. CASE TurnPeriod
  <2> DEFINE v == site[s]
             budget == IF v.budget = 0 /\ v.grant > 0 THEN v.grant ELSE v.budget
             grant == IF v.grant > 0 THEN Used(v) + budget ELSE v.grant
  <2>1. site'[s] = IF v.grant = NoQuota THEN v ELSE [v EXCEPT !.budget = budget, !.grant = grant]
    BY <1>1, <1>4 DEF TurnPeriod, SiteRecords
  <2> HIDE DEF budget, grant
  <2>2. /\ site'[s].issued = v.issued /\ site'[s].unlimited = v.unlimited /\ site'[s].used = v.used
    BY <1>1, <2>1 DEF SiteRecords
  <2> QED
    BY <1>0, <2>2 DEF Reserved, Used
<1>5. ASSUME NEW t \in Sites, LeaveUnanswered(t), ~site[s].unlimited
      PROVE  Reserved(site'[s]) <= Reserved(site[s])
  <2> DEFINE u == Accounted(site[t], wire[t], Late(site[t], wire[t]))
  <2>1. /\ site' = [site EXCEPT ![t] = u] /\ site'[t] = u
        /\ u.unlimited \/ site[t].unlimited \/ Reserved(u) <= Reserved(site[t])
    BY <1>5, UnansweredReport
  <2> HIDE DEF u
  <2>2. CASE s # t
    BY <1>0, <1>1, <2>1, <2>2
  <2>3. CASE s = t /\ u.unlimited
    BY <1>0, <2>1, <2>3 DEF Reserved
  <2>4. CASE s = t /\ ~u.unlimited
    BY <1>5, <2>1, <2>4
  <2> QED
    BY <2>2, <2>3, <2>4
<1> QED
  BY <1>2, <1>3, <1>4, <1>5
     DEF GrantsNext, RefuseReport, SiteTraffic, Sample, SendReport, LoseMessage, LeaseExpires,
         KeepPolicy, AdoptPolicy, RejectPolicy, FailPolicy, SetQuota, StopMember, LocalTraffic

(* A ceiling that is raised fits, with every other site's reservation, in  *)
(* what the member has left (effectiveBusinessSnapshotGrant).              *)
THEOREM IssuesStayWithinQuota == GrantsSpec => IssuedWithinQuota
<1> DEFINE Fitting == \A s \in DOMAIN site :
                     /\ member'.quota > 0 /\ ~site[s].unlimited
                     /\ Reserved(site'[s]) > Reserved(site[s])
                     => ReservedAt(Sites)' <= member'.quota - QuotaUsed(member')
<1>1. ASSUME GrantsInv, GrantsInv', [GrantsNext]_GrantsVars PROVE [Fitting]_GrantsVars
  <2> SUFFICES ASSUME GrantsNext, NEW s \in Sites, member'.quota > 0, ~site[s].unlimited,
                      Reserved(site'[s]) > Reserved(site[s])
               PROVE  ReservedAt(Sites)' <= member'.quota - QuotaUsed(member')
    <3>1. DOMAIN site = Sites
      BY <1>1, GrantsTypes DEF GrantsInv
    <3> QED
      BY <1>1, <3>1
  <2>1. \A t \in Sites : Reserved(site[t]) \in Nat /\ Reserved(site'[t]) \in Nat
    <3>1. site \in [Sites -> SiteRecords] /\ site' \in [Sites -> SiteRecords]
      BY <1>1, GrantsTypes DEF GrantsInv, GrantsTypeOK, SiteRecords
    <3> QED
      BY <3>1, ReservedNat
  <2>2. PICK t \in Sites : AcceptReport(t)
    <3>1. ~(Reserved(site'[s]) <= Reserved(site[s]))
      BY <2>1
    <3> QED
      BY <1>1, <3>1, OthersReserveNoMore
  <2>3. /\ site' = [site EXCEPT ![t] = site'[t]]
        /\ member'.quota > 0 /\ ~site[t].unlimited /\ Reserved(site'[t]) > Reserved(site[t]) =>
             Reserved(site'[t]) + HeldBy(site, Sites \ {t}) <= member'.quota - QuotaUsed(member')
    BY <1>1, <2>2, ReportTaken
  <2>4. s = t
    <3> SUFFICES ASSUME s # t PROVE FALSE
      OBVIOUS
    <3>1. site'[s] = site[s]
      BY <1>1, <2>3, GrantsTypes DEF GrantsInv
    <3> QED
      BY <2>1, <3>1
  <2>5. \A x \in Sites \ {s} : site'[x] = site[x]
    BY <1>1, <2>3, <2>4, GrantsTypes DEF GrantsInv
  <2>6. HeldBy(site', Sites) = Reserved(site'[s]) + HeldBy(site, Sites \ {s})
    BY <2>1, <2>5, HeldSums
  <2>7. ReservedAt(Sites)' = HeldBy(site', Sites)
    BY DEF ReservedAt, HeldBy
  <2> QED
    BY <2>3, <2>4, <2>6, <2>7
<1>2. GrantsSpec => [][GrantsNext]_GrantsVars
  BY DEF GrantsSpec
<1> QED
  BY <1>1, <1>2, GrantsSafe, PTL DEF IssuedWithinQuota
-----------------------------------------------------------------------------
(* Invoices.  What the database holds of an order, what scans under way have *)
(* read, and the chain they read it from.                                    *)
InvoiceType == [state : {"waiting", "superseded", "paid", "expired", "review_required"},
                attempt : {"awaiting_customer", "paid", "cancelled", "expired", "refund_required"},
                created : Blocks, expires : Nat, next : Blocks, hash : Nat \union {-1}]
BlockType == [fork : Nat, transfer : Transfers \union {Nothing}]
BillType == [state : {"pending", "completed", "cancelled", "expired"},
             linked : InvoiceAddresses \union {0}, expires : Nat, network : {"evm", "solana"}]

(* A transfer is in one block only.                                         *)
ChainTyped ==
  /\ chain \in Seq(BlockType) /\ finalHead \in 1..Len(chain) /\ Len(chain) <= LastBlock
  /\ forks \in Nat /\ {broken, frozen} \subseteq BOOLEAN
  /\ \A a, b \in OnChain : chain[a].transfer = chain[b].transfer => a = b

(* A cursor without a hash has not passed the last final block, so that the *)
(* first scan finds one.                                                    *)
OrderTyped ==
  /\ bill \in BillType /\ bill.linked <= Len(invoices)
  /\ invoices \in Seq(InvoiceType) /\ Len(invoices) <= MaxInvoices
  /\ \A i \in 1..Len(invoices) :
       /\ invoices[i].next \in 1..finalHead + 1
       /\ invoices[i].hash = -1 => invoices[i].next <= finalHead

(* A credit is judged by the terms of the invoice it was paid to.           *)
CreditsTyped ==
  \A c \in credits : /\ c.transfer \in Transfers /\ c.block \in Nat
                     /\ c.transfer.to \in 1..Len(invoices)
                     /\ c.state = CreditState(invoices[c.transfer.to], c)
ScanTyped(i, r) ==
  /\ i <= Len(invoices) /\ r \in Scans
  /\ r.next \in 1..r.head + 1 /\ r.head <= finalHead
  /\ \A x \in r.items : x.transfer.to = i
ScansTyped ==
  /\ scans \in [InvoiceAddresses -> Scans \union {Nothing}]
  /\ \A i \in InvoiceAddresses : scans[i] # Nothing => ScanTyped(i, scans[i])

(* While final blocks stay final: what a scan calls final is on the final   *)
(* chain, and nothing final in its range is missing; so are the credits,    *)
(* and nothing below an invoice's cursor is missing.  An order expires only *)
(* when its window is final.                                                *)
IsFinal(x) == /\ x.block \in OnChain /\ x.block <= finalHead
              /\ chain[x.block].transfer = x.transfer
ScanTrue(i, r) ==
  /\ \A x \in r.items : x.final => IsFinal(x)
  /\ \A b \in OnChain : r.from <= b /\ b < r.next /\ chain[b].transfer.to = i =>
       \E x \in r.items : x.final /\ x.block = b /\ x.transfer = chain[b].transfer
AllCredited(i) ==
  \A b \in OnChain :
    invoices[i].created <= b /\ b < invoices[i].next /\ chain[b].transfer.to = i =>
      \E c \in credits : c.block = b /\ c.transfer = chain[b].transfer
DecidedRightly(i) ==
  /\ invoices[i].state = "paid" => PaidOnChain(i) >= TokenPrice
  /\ i = bill.linked /\ bill.state = "expired" =>
       invoices[i].expires <= finalHead /\ PaidOnChain(i) < TokenPrice
BooksAreTrue ==
  /\ \A i \in InvoiceAddresses : scans[i] # Nothing => ScanTrue(i, scans[i])
  /\ \A c \in credits : IsFinal(c)
  /\ \A i \in 1..Len(invoices) : AllCredited(i) /\ DecidedRightly(i)

InvoicesSafe ==
  /\ ChainTyped /\ OrderTyped /\ CreditsTyped /\ ScansTyped
  /\ ~broken => BooksAreTrue
-----------------------------------------------------------------------------
(* Amounts.                                                                 *)
LEMMA TransfersFinite == IsFiniteSet(Transfers)
<1> DEFINE All == [id : 1..MaxTransfers, to : InvoiceAddresses, own : BOOLEAN, atoms : 1..TokenPrice]
           P == ((1..MaxTransfers) \X InvoiceAddresses) \X (BOOLEAN \X (1..TokenPrice))
           f == [p \in P |-> [id |-> p[1][1], to |-> p[1][2], own |-> p[2][1], atoms |-> p[2][2]]]
<1>1. MaxTransfers \in Nat /\ MaxInvoices \in Nat /\ TokenPrice \in Nat
  BY InvoicesAssumption
<1>2. IsFiniteSet(1..MaxTransfers) /\ IsFiniteSet(InvoiceAddresses) /\ IsFiniteSet(1..TokenPrice)
  BY <1>1, FS_Interval DEF InvoiceAddresses
<1>3. IsFiniteSet(BOOLEAN)
  <2>1. IsFiniteSet({TRUE}) /\ BOOLEAN = {TRUE} \union {FALSE}
    BY FS_Singleton
  <2> QED
    BY <2>1, FS_AddElement
<1>4. IsFiniteSet(P)
  <2>1. IsFiniteSet((1..MaxTransfers) \X InvoiceAddresses) /\ IsFiniteSet(BOOLEAN \X (1..TokenPrice))
    BY <1>2, <1>3, FS_Product
  <2> QED
    BY <2>1, FS_Product
<1>5. f \in Surjection(P, All)
  <2>1. f \in [P -> All]
    OBVIOUS
  <2>2. ASSUME NEW t \in All PROVE \E p \in P : f[p] = t
    <3>1. <<<<t.id, t.to>>, <<t.own, t.atoms>>>> \in P
      OBVIOUS
    <3>2. f[<<<<t.id, t.to>>, <<t.own, t.atoms>>>>] = [id |-> t.id, to |-> t.to, own |-> t.own, atoms |-> t.atoms]
      BY <3>1
    <3>3. t = [id |-> t.id, to |-> t.to, own |-> t.own, atoms |-> t.atoms]
      OBVIOUS
    <3> QED
      BY <3>1, <3>2, <3>3
  <2> QED
    BY <2>1, <2>2 DEF Surjection
<1>6. IsFiniteSet(All)
  BY <1>4, <1>5, FS_Surjection
<1>7. Transfers \in SUBSET All
  BY DEF Transfers
<1> QED
  BY <1>6, <1>7, FS_Subset

LEMMA TransferRows ==
  ASSUME NEW t \in Transfers
  PROVE  t.to \in InvoiceAddresses /\ t.own \in BOOLEAN /\ t.atoms \in Nat \ {0}
BY InvoicesAssumption DEF Transfers

LEMMA AtomsAre ==
  ASSUME NEW X, \A x \in X : x.transfer \in Transfers
  PROVE  Atoms(X) \in Nat /\ \A x \in X : x.transfer.atoms <= Atoms(X)
<1> DEFINE f == [t \in Transfers |-> t.atoms]
<1>1. PICK T \in SUBSET Transfers : T = {x.transfer : x \in X}
  OBVIOUS
<1>2. \A t \in Transfers : f[t] \in Nat
  BY TransferRows
<1>3. Atoms(X) = SumFunctionOnSet(f, T)
  BY <1>1 DEF Atoms
<1> HIDE DEF f
<1>4. SumFunctionOnSet(f, T) \in Nat /\ \A t \in T : f[t] <= SumFunctionOnSet(f, T)
  BY <1>2, TransfersFinite, SumOfNaturals
<1>5. \A x \in X : x.transfer \in T /\ f[x.transfer] = x.transfer.atoms
  BY <1>1 DEF f
<1> QED
  BY <1>3, <1>4, <1>5

(* Who has all the transfers another has has no less.                       *)
LEMMA AtomsWithin ==
  ASSUME NEW X, NEW Y, \A y \in Y : y.transfer \in Transfers,
         \A x \in X : \E y \in Y : y.transfer = x.transfer
  PROVE  Atoms(X) <= Atoms(Y)
<1> DEFINE f == [t \in Transfers |-> t.atoms]
<1>1. PICK T \in SUBSET Transfers : T = {y.transfer : y \in Y}
  OBVIOUS
<1>2. PICK R \in SUBSET T : R = {x.transfer : x \in X}
  BY <1>1
<1>3. \A t \in Transfers : f[t] \in Nat
  BY TransferRows
<1>4. Atoms(X) = SumFunctionOnSet(f, R) /\ Atoms(Y) = SumFunctionOnSet(f, T)
  BY <1>1, <1>2 DEF Atoms
<1> HIDE DEF f
<1>5. IsFiniteSet(T) /\ \A t \in T : f[t] \in Int
  BY <1>3, TransfersFinite, FS_Subset
<1>6. SumFunctionOnSet(f, T) = SumFunctionOnSet(f, R) + SumFunctionOnSet(f, T \ R)
  BY <1>5, SumSplit
<1>7. R \in SUBSET Transfers /\ T \ R \in SUBSET Transfers
  OBVIOUS
<1>8. SumFunctionOnSet(f, T) \in Nat /\ SumFunctionOnSet(f, R) \in Nat /\ SumFunctionOnSet(f, T \ R) \in Nat
  BY <1>3, <1>7, TransfersFinite, SumOfNaturals
<1> QED
  BY <1>4, <1>6, <1>8
-----------------------------------------------------------------------------
(* The chain.  A step that leaves final blocks as they are, or breaks the   *)
(* network, keeps what was booked true.                                     *)
PaidItems(i) == {chain[b] : b \in {b \in OnChain :
     /\ b <= finalHead /\ chain[b].transfer.to = i /\ chain[b].transfer.own
     /\ b >= invoices[i].created /\ b < invoices[i].expires}}
FinalKept == \A b \in 1..finalHead : chain'[b] = chain[b]

LEMMA InvoiceBounds ==
  /\ LastBlock \in Nat \ {0} /\ ScanRange \in Nat \ {0} /\ MaxInvoices \in Nat \ {0}
  /\ InvoiceWindow \in Nat \ {0} /\ TokenPrice \in Nat \ {0} /\ MaxTransfers \in Nat
  /\ Blocks = 0..LastBlock + ScanRange /\ InvoiceAddresses = 1..MaxInvoices
BY InvoicesAssumption DEF Blocks, InvoiceAddresses

LEMMA ChainFacts ==
  ASSUME ChainTyped
  PROVE  /\ Len(chain) \in Nat /\ DOMAIN chain = 1..Len(chain) /\ finalHead \in Nat
         /\ finalHead >= 1 /\ finalHead <= Len(chain) /\ Len(chain) <= LastBlock
         /\ \A b \in 1..Len(chain) : chain[b] \in BlockType
         /\ \A b \in OnChain : /\ b \in 1..Len(chain) /\ b \in Nat
                               /\ chain[b].transfer \in Transfers
<1>1. chain \in Seq(BlockType) /\ finalHead \in 1..Len(chain) /\ Len(chain) <= LastBlock
  BY DEF ChainTyped
<1>2. Len(chain) \in Nat /\ DOMAIN chain = 1..Len(chain)
  BY <1>1, LenProperties
<1>3. \A b \in 1..Len(chain) : chain[b] \in BlockType
  BY <1>1, ElementOfSeq
<1>4. \A b \in OnChain : b \in 1..Len(chain) /\ chain[b].transfer \in Transfers
  BY <1>3 DEF OnChain, Now, BlockType
<1> QED
  BY <1>1, <1>2, <1>3, <1>4

LEMMA NextChainFacts ==
  ASSUME ChainTyped'
  PROVE  /\ Len(chain') \in Nat /\ finalHead' \in Nat
         /\ finalHead' >= 1 /\ finalHead' <= Len(chain') /\ Len(chain') <= LastBlock
         /\ \A b \in OnChain' : /\ b \in 1..Len(chain') /\ b \in Nat
                                /\ chain'[b].transfer \in Transfers
<1>1. chain' \in Seq(BlockType) /\ finalHead' \in 1..Len(chain') /\ Len(chain') <= LastBlock
  BY DEF ChainTyped
<1>2. Len(chain') \in Nat
  BY <1>1, LenProperties
<1>3. \A b \in 1..Len(chain') : chain'[b] \in BlockType
  BY <1>1, ElementOfSeq
<1>4. \A b \in OnChain' : b \in 1..Len(chain') /\ chain'[b].transfer \in Transfers
  BY <1>3 DEF OnChain, Now, BlockType
<1> QED
  BY <1>1, <1>2, <1>3, <1>4

LEMMA PaidIs ==
  ASSUME ChainTyped, NEW i
  PROVE  /\ PaidOnChain(i) = Atoms(PaidItems(i)) /\ PaidOnChain(i) \in Nat
         /\ \A x \in PaidItems(i) : x.transfer \in Transfers
<1>1. PaidOnChain(i) = Atoms(PaidItems(i))
  BY DEF PaidOnChain, PaidItems
<1>2. \A x \in PaidItems(i) : x.transfer \in Transfers
  BY ChainFacts DEF PaidItems
<1>3. PICK X : X = PaidItems(i)
  OBVIOUS
<1>4. Atoms(X) \in Nat
  BY <1>2, <1>3, AtomsAre
<1> QED
  BY <1>1, <1>2, <1>3, <1>4

LEMMA PaymentsKept ==
  ASSUME ChainTyped, ChainTyped', FinalKept, finalHead <= finalHead', NEW i,
         invoices'[i].created = invoices[i].created, invoices'[i].expires = invoices[i].expires
  PROVE  /\ PaidOnChain(i) <= PaidOnChain(i)' /\ PaidOnChain(i) \in Nat /\ PaidOnChain(i)' \in Nat
         /\ invoices[i].expires \in Nat /\ invoices[i].expires <= finalHead =>
              PaidOnChain(i)' <= PaidOnChain(i)
<1>1. /\ finalHead \in Nat /\ finalHead' \in Nat /\ finalHead' <= Len(chain') /\ Len(chain') \in Nat
      /\ \A b \in OnChain : b \in 1..Len(chain) /\ b \in Nat
      /\ \A b \in OnChain' : b \in 1..Len(chain') /\ b \in Nat
  BY ChainFacts, NextChainFacts
<1>2. \A b \in 1..finalHead : chain'[b] = chain[b] /\ (b \in OnChain <=> b \in OnChain')
  <2>1. \A b \in 1..finalHead : b \in 1..Len(chain) /\ b \in 1..Len(chain')
    BY <1>1, ChainFacts
  <2> QED
    BY <2>1 DEF FinalKept, OnChain, Now
<1>3. PICK X, Y : X = PaidItems(i) /\ Y = PaidItems(i)'
  OBVIOUS
<1>4. Atoms(X) = PaidOnChain(i) /\ Atoms(Y) = PaidOnChain(i)' /\ Atoms(X) \in Nat /\ Atoms(Y) \in Nat
      /\ (\A x \in X : x.transfer \in Transfers) /\ (\A x \in Y : x.transfer \in Transfers)
  <2>1. Atoms(X) = PaidOnChain(i) /\ Atoms(X) \in Nat /\ \A x \in X : x.transfer \in Transfers
    BY <1>3, PaidIs
  <2>2. Atoms(Y) = PaidOnChain(i)'
    BY <1>3 DEF PaidOnChain, PaidItems
  <2>3. \A x \in Y : x.transfer \in Transfers
    <3>1. \A b \in OnChain' : chain'[b].transfer \in Transfers
      BY NextChainFacts
    <3> QED
      BY <1>3, <3>1 DEF PaidItems
  <2>4. Atoms(Y) \in Nat
    BY <2>3, AtomsAre
  <2> QED
    BY <2>1, <2>2, <2>3, <2>4
<1>5. \A x \in X : x \in Y
  <2> SUFFICES ASSUME NEW x \in X PROVE x \in Y
    OBVIOUS
  <2>1. PICK b \in OnChain : /\ x = chain[b] /\ b <= finalHead /\ chain[b].transfer.to = i
                             /\ chain[b].transfer.own
                             /\ b >= invoices[i].created /\ b < invoices[i].expires
    BY <1>3 DEF PaidItems
  <2>2. b \in OnChain' /\ chain'[b] = chain[b] /\ b <= finalHead'
    BY <1>1, <1>2, <2>1
  <2> QED
    BY <1>3, <2>1, <2>2 DEF PaidItems
<1>6. Atoms(X) <= Atoms(Y)
  BY <1>4, <1>5, AtomsWithin
<1>7. ASSUME invoices[i].expires \in Nat, invoices[i].expires <= finalHead PROVE Atoms(Y) <= Atoms(X)
  <2>1. \A x \in Y : x \in X
    <3> SUFFICES ASSUME NEW x \in Y PROVE x \in X
      OBVIOUS
    <3>1. PICK b \in OnChain' : /\ x = chain'[b] /\ chain'[b].transfer.to = i
                               /\ chain'[b].transfer.own
                               /\ b >= invoices[i].created /\ b < invoices[i].expires
      BY <1>3 DEF PaidItems
    <3>2. b <= finalHead /\ b \in 1..finalHead
      BY <1>1, <1>7, <3>1
    <3>3. b \in OnChain /\ chain'[b] = chain[b]
      BY <1>2, <3>1, <3>2
    <3> QED
      BY <1>3, <3>1, <3>2, <3>3 DEF PaidItems
  <2> QED
    BY <1>4, <2>1, AtomsWithin
<1> QED
  BY <1>4, <1>6, <1>7

LEMMA InvoiceRows ==
  ASSUME OrderTyped
  PROVE  /\ Len(invoices) \in Nat /\ DOMAIN invoices = 1..Len(invoices)
         /\ \A i \in 1..Len(invoices) : /\ invoices[i] \in InvoiceType /\ invoices[i].expires \in Nat
                                        /\ invoices[i].created \in Nat /\ invoices[i].next \in Nat
                                        /\ i \in InvoiceAddresses
<1>1. invoices \in Seq(InvoiceType) /\ Len(invoices) <= MaxInvoices
  BY DEF OrderTyped
<1>2. Len(invoices) \in Nat /\ DOMAIN invoices = 1..Len(invoices)
  BY <1>1, LenProperties
<1>3. \A i \in 1..Len(invoices) : invoices[i] \in InvoiceType
  BY <1>1, ElementOfSeq
<1>4. \A v \in InvoiceType : v.expires \in Nat /\ v.created \in Nat /\ v.next \in Nat
  BY InvoiceBounds DEF InvoiceType
<1> QED
  BY <1>1, <1>2, <1>3, <1>4, InvoiceBounds

LEMMA ForkStep ==
  ASSUME InvoicesSafe, ChainTyped', finalHead <= finalHead', UNCHANGED scans, UNCHANGED Database,
         ~broken' => ~broken /\ FinalKept
  PROVE  InvoicesSafe'
<1>1. ChainTyped /\ OrderTyped /\ CreditsTyped /\ ScansTyped
  BY DEF InvoicesSafe
<1>2. /\ bill' = bill /\ invoices' = invoices /\ credits' = credits /\ scans' = scans
  BY DEF Database
<1>3. finalHead \in Nat /\ finalHead' \in Nat
  BY <1>1, ChainFacts, NextChainFacts
<1>4. OrderTyped'
  <2>1. \A i \in 1..Len(invoices) : invoices[i].next \in 1..finalHead' + 1
                                    /\ (invoices[i].hash = -1 => invoices[i].next <= finalHead')
    <3> SUFFICES ASSUME NEW i \in 1..Len(invoices)
                 PROVE  invoices[i].next \in 1..finalHead' + 1
                        /\ (invoices[i].hash = -1 => invoices[i].next <= finalHead')
      OBVIOUS
    <3>1. invoices[i].next \in 1..finalHead + 1 /\ (invoices[i].hash = -1 => invoices[i].next <= finalHead)
      BY <1>1 DEF OrderTyped
    <3> QED
      BY <1>3, <3>1
  <2> QED
    BY <1>1, <1>2, <2>1 DEF OrderTyped
<1>5. CreditsTyped'
  BY <1>1, <1>2 DEF CreditsTyped, CreditState
<1>6. ScansTyped'
  <2> SUFFICES ASSUME NEW i \in InvoiceAddresses, scans[i] # Nothing PROVE ScanTyped(i, scans[i])'
    BY <1>1, <1>2 DEF ScansTyped
  <2>1. ScanTyped(i, scans[i])
    BY <1>1 DEF ScansTyped
  <2>2. scans[i].head <= finalHead'
    <3>1. scans[i].head <= finalHead /\ scans[i].head \in Int
      BY <2>1, InvoiceBounds DEF ScanTyped, Scans
    <3> QED
      BY <1>3, <3>1
  <2> QED
    BY <1>2, <2>1, <2>2 DEF ScanTyped
<1>7. ASSUME ~broken' PROVE BooksAreTrue'
  <2>1. BooksAreTrue /\ FinalKept
    BY <1>7 DEF InvoicesSafe
  <2>2. /\ finalHead <= Len(chain) /\ finalHead' <= Len(chain') /\ Len(chain) \in Nat /\ Len(chain') \in Nat
        /\ \A b \in OnChain : b \in Nat /\ b >= 1
        /\ \A b \in OnChain' : b \in Nat /\ b >= 1
    BY <1>1, ChainFacts, NextChainFacts
  <2>3. \A b \in 1..finalHead : chain'[b] = chain[b] /\ (b \in OnChain <=> b \in OnChain')
    <3>1. \A b \in 1..finalHead : b \in 1..Len(chain) /\ b \in 1..Len(chain')
      BY <1>3, <2>2
    <3> QED
      BY <2>1, <3>1 DEF FinalKept, OnChain, Now
  <2>4. \A x : IsFinal(x) => IsFinal(x)'
    BY <1>3, <2>2, <2>3 DEF IsFinal
  <2>5. ASSUME NEW i \in InvoiceAddresses, scans'[i] # Nothing PROVE ScanTrue(i, scans[i])'
    <3>1. PICK r : r = scans[i]
      OBVIOUS
    <3>2. ScanTrue(i, r) /\ ScanTyped(i, r) /\ scans'[i] = r
      BY <1>1, <1>2, <2>1, <2>5, <3>1 DEF BooksAreTrue, ScansTyped
    <3>3. r.next \in Int /\ r.next <= finalHead + 1
      BY <1>3, <3>2, InvoiceBounds DEF ScanTyped, Scans
    <3>4. \A b \in OnChain' : b < r.next => b \in OnChain /\ chain'[b] = chain[b]
      BY <1>3, <2>2, <2>3, <3>3
    <3>5. \A x \in r.items : x.final => IsFinal(x)'
      BY <2>4, <3>2 DEF ScanTrue
    <3>6. \A b \in OnChain' : r.from <= b /\ b < r.next /\ chain'[b].transfer.to = i =>
            \E x \in r.items : x.final /\ x.block = b /\ x.transfer = chain'[b].transfer
      BY <3>2, <3>4 DEF ScanTrue
    <3>7. ScanTrue(i, r)'
      BY <3>5, <3>6 DEF ScanTrue
    <3> QED
      BY <1>2, <3>1, <3>7 DEF ScanTrue
  <2>6. \A c \in credits' : IsFinal(c)'
    BY <1>2, <2>1, <2>4 DEF BooksAreTrue
  <2>7. ASSUME NEW i \in 1..Len(invoices') PROVE AllCredited(i)' /\ DecidedRightly(i)'
    <3>1. AllCredited(i) /\ DecidedRightly(i) /\ i \in 1..Len(invoices)
      BY <1>2, <2>1, <2>7 DEF BooksAreTrue
    <3>2. invoices[i].next \in Int /\ invoices[i].next <= finalHead + 1 /\ invoices[i].expires \in Nat
      <4>1. invoices[i].next \in 1..finalHead + 1
        BY <1>1, <3>1 DEF OrderTyped
      <4>2. invoices[i].expires \in Nat
        BY <1>1, <3>1, InvoiceRows
      <4> QED
        BY <1>3, <4>1, <4>2
    <3>3. AllCredited(i)'
      <4>1. \A b \in OnChain' : b < invoices[i].next => b \in OnChain /\ chain'[b] = chain[b]
        BY <1>3, <2>2, <2>3, <3>2
      <4> QED
        BY <1>2, <3>1, <4>1 DEF AllCredited
    <3>4. /\ PaidOnChain(i) <= PaidOnChain(i)' /\ PaidOnChain(i) \in Nat /\ PaidOnChain(i)' \in Nat
          /\ invoices[i].expires <= finalHead => PaidOnChain(i)' <= PaidOnChain(i)
      BY <1>1, <1>2, <2>1, <3>2, PaymentsKept
    <3>5. TokenPrice \in Nat
      BY InvoiceBounds
    <3>6. invoices[i].state = "paid" => PaidOnChain(i)' >= TokenPrice
      BY <3>1, <3>4, <3>5 DEF DecidedRightly
    <3>7. i = bill.linked /\ bill.state = "expired" =>
            invoices[i].expires <= finalHead' /\ PaidOnChain(i)' < TokenPrice
      BY <1>3, <3>1, <3>2, <3>4, <3>5 DEF DecidedRightly
    <3>8. DecidedRightly(i)'
      BY <1>2, <3>6, <3>7 DEF DecidedRightly
    <3> QED
      BY <3>3, <3>8
  <2> QED
    BY <2>5, <2>6, <2>7 DEF BooksAreTrue
<1> QED
  BY <1>4, <1>5, <1>6, <1>7 DEF InvoicesSafe

LEMMA MineStep ==
  ASSUME InvoicesSafe, NEW t \in Transfers \union {Nothing}, Mine(t)
  PROVE  InvoicesSafe'
<1>1. ChainTyped /\ chain \in Seq(BlockType) /\ forks \in Nat
  BY DEF InvoicesSafe, ChainTyped
<1>2. /\ Len(chain) \in Nat /\ finalHead \in Nat /\ finalHead >= 1 /\ finalHead <= Len(chain)
      /\ Len(chain) < LastBlock /\ LastBlock \in Nat
  BY <1>1, ChainFacts, InvoiceBounds DEF Mine, Now
<1>3. PICK e \in BlockType : e = [fork |-> forks, transfer |-> t]
  BY <1>1 DEF BlockType
<1>4. chain' = Append(chain, e) /\ UNCHANGED <<finalHead, forks, broken, scans>> /\ UNCHANGED Database
  BY <1>3 DEF Mine
<1>5. /\ chain' \in Seq(BlockType) /\ Len(chain') = Len(chain) + 1
      /\ \A b \in 1..Len(chain) : chain'[b] = chain[b]
      /\ chain'[Len(chain) + 1] = e
  BY <1>1, <1>4, AppendProperties
<1>6. PICK x : x = Len(chain) + 1
  OBVIOUS
<1>7. \A b \in OnChain' : (b \in OnChain /\ chain'[b] = chain[b]) \/ (b = x /\ t # Nothing)
  BY <1>2, <1>3, <1>5, <1>6 DEF OnChain, Now
<1>8. \A a, b \in OnChain' : chain'[a].transfer = chain'[b].transfer => a = b
  <2>1. \A a, b \in OnChain : chain[a].transfer = chain[b].transfer => a = b
    BY <1>1 DEF ChainTyped
  <2>2. t # Nothing => \A b \in OnChain : chain[b].transfer # t
    BY DEF Mine
  <2>3. chain'[x].transfer = t
    BY <1>3, <1>5, <1>6
  <2> QED
    BY <1>7, <2>1, <2>2, <2>3
<1>9. finalHead' \in 1..Len(chain') /\ Len(chain') <= LastBlock
  BY <1>2, <1>4, <1>5
<1>10. ChainTyped'
  BY <1>1, <1>4, <1>5, <1>8, <1>9 DEF ChainTyped, Database
<1>11. FinalKept
  BY <1>2, <1>5 DEF FinalKept
<1> QED
  BY <1>2, <1>4, <1>10, <1>11, ForkStep

LEMMA FinaliseStep ==
  ASSUME InvoicesSafe, NEW b \in Nat, Finalise(b)
  PROVE  InvoicesSafe'
<1>1. ChainTyped /\ Len(chain) \in Nat /\ finalHead \in Nat
  BY ChainFacts DEF InvoicesSafe
<1>2. b \in 1..Len(chain) /\ finalHead <= b
  BY <1>1 DEF Finalise, Now
<1>3. finalHead' = b /\ UNCHANGED <<chain, forks, broken, scans>> /\ UNCHANGED Database
  BY DEF Finalise
<1>4. ChainTyped'
  BY <1>1, <1>2, <1>3 DEF ChainTyped, Database, OnChain, Now
<1>5. FinalKept
  BY <1>3 DEF FinalKept
<1> QED
  BY <1>2, <1>3, <1>4, <1>5, ForkStep

LEMMA ReplaceStep ==
  ASSUME InvoicesSafe, NEW cut \in Nat, Replace(cut)
  PROVE  InvoicesSafe'
<1>1. ChainTyped /\ chain \in Seq(BlockType) /\ forks \in Nat /\ broken \in BOOLEAN
  BY DEF InvoicesSafe, ChainTyped
<1>2. Len(chain) \in Nat /\ finalHead \in Nat /\ finalHead <= Len(chain)
      /\ \A b \in 1..Len(chain) : chain[b] \in BlockType
  BY <1>1, ChainFacts
<1>3. PICK e \in BlockType : e = [fork |-> forks + 1, transfer |-> Nothing]
  <2>1. PICK n \in Nat : n = forks + 1
    BY <1>1
  <2>2. [fork |-> n, transfer |-> Nothing] \in BlockType
    BY DEF BlockType
  <2> QED
    BY <2>1, <2>2
<1>4. /\ chain' = [b \in 1..Len(chain) |-> IF b <= cut THEN chain[b] ELSE e]
      /\ UNCHANGED <<finalHead, scans>> /\ UNCHANGED Database
      /\ forks' = forks + 1 /\ broken' = (broken \/ cut < finalHead)
  BY <1>3 DEF Replace, Empty, Now
<1>5. chain' \in [1..Len(chain) -> BlockType]
  BY <1>2, <1>4
<1>6. chain' \in Seq(BlockType)
  BY <1>2, <1>5, SeqDef
<1>7. Len(chain') = Len(chain)
  <2>1. Len(chain') \in Nat /\ DOMAIN chain' = 1..Len(chain') /\ DOMAIN chain' = 1..Len(chain)
    BY <1>4, <1>6, LenProperties
  <2> QED
    BY <1>2, <2>1
<1>8. \A b \in OnChain' : b \in OnChain /\ chain'[b] = chain[b]
  BY <1>3, <1>4, <1>7 DEF OnChain, Now
<1>9. ChainTyped'
  <2>1. \A a, b \in OnChain' : chain'[a].transfer = chain'[b].transfer => a = b
    BY <1>1, <1>8 DEF ChainTyped
  <2>2. finalHead' \in 1..Len(chain') /\ Len(chain') <= LastBlock /\ forks' \in Nat
        /\ {broken', frozen'} \subseteq BOOLEAN
    BY <1>1, <1>4, <1>7 DEF ChainTyped, Database
  <2> QED
    BY <1>6, <2>1, <2>2 DEF ChainTyped
<1>10. ~broken' => ~broken /\ FinalKept
  <2> SUFFICES ASSUME ~broken' PROVE ~broken /\ FinalKept
    OBVIOUS
  <2>3. ~broken /\ ~(cut < finalHead)
    BY <1>4, Zenon
  <2>1. ~broken /\ finalHead <= cut
    BY <1>2, <2>3
  <2>2. \A b \in 1..finalHead : chain'[b] = chain[b]
    BY <1>2, <1>4, <2>1
  <2> QED
    BY <2>1, <2>2 DEF FinalKept
<1>11. finalHead <= finalHead'
  BY <1>2, <1>4
<1> QED
  BY <1>4, <1>9, <1>10, <1>11, ForkStep
-----------------------------------------------------------------------------
(* The order.  Its customer changes no invoice's terms and pays none.       *)
SameTerms(v, w) == /\ w \in InvoiceType /\ w.created = v.created /\ w.expires = v.expires
                   /\ w.next = v.next /\ w.hash = v.hash /\ (w.state = "paid" => v.state = "paid")
IsNewInvoice(v) == /\ v \in InvoiceType /\ v.created = Now /\ v.next = finalHead /\ v.state # "paid"
KeepsTerms == /\ invoices' \in Seq(InvoiceType) /\ Len(invoices') <= MaxInvoices
              /\ Len(invoices) <= Len(invoices')
              /\ \A i \in 1..Len(invoices) : SameTerms(invoices[i], invoices'[i])
              /\ \A i \in 1..Len(invoices') : i > Len(invoices) => IsNewInvoice(invoices'[i])
KeepsBill == /\ bill' \in BillType /\ bill'.linked <= Len(invoices')
             /\ bill'.state = "expired" => bill.state = "expired" /\ bill'.linked = bill.linked

LEMMA OrderStep ==
  ASSUME InvoicesSafe, KeepsTerms, KeepsBill,
         UNCHANGED <<chain, finalHead, forks, broken, credits, frozen, scans>>
  PROVE  InvoicesSafe'
<1>1. ChainTyped /\ OrderTyped /\ CreditsTyped /\ ScansTyped
  BY DEF InvoicesSafe
<1>2. /\ Len(invoices) \in Nat /\ finalHead \in Nat /\ finalHead >= 1
      /\ finalHead <= Len(chain) /\ Len(chain) \in Nat
      /\ \A i \in 1..Len(invoices) : /\ invoices[i] \in InvoiceType /\ invoices[i].expires \in Nat
                                     /\ invoices[i].created \in Nat /\ invoices[i].next \in Nat
  BY <1>1, InvoiceRows, ChainFacts
<1>3. Len(invoices') \in Nat /\ Len(invoices) <= Len(invoices')
  BY LenProperties DEF KeepsTerms
<1>4. \A i \in 1..Len(invoices) : SameTerms(invoices[i], invoices'[i])
  BY DEF KeepsTerms
<1>5. ASSUME NEW i \in 1..Len(invoices'), i \notin 1..Len(invoices) PROVE IsNewInvoice(invoices'[i])
  BY <1>2, <1>3, <1>5 DEF KeepsTerms
<1>6. ChainTyped'
  BY <1>1 DEF ChainTyped, OnChain, Now
<1>7. OrderTyped'
  <2>1. ASSUME NEW i \in 1..Len(invoices')
        PROVE  /\ invoices'[i].next \in 1..finalHead + 1
               /\ invoices'[i].hash = -1 => invoices'[i].next <= finalHead
    <3>1. CASE i \in 1..Len(invoices)
      BY <1>1, <1>4, <3>1 DEF OrderTyped, SameTerms
    <3>2. CASE i \notin 1..Len(invoices)
      BY <1>2, <1>5, <3>2 DEF IsNewInvoice
    <3> QED
      BY <3>1, <3>2
  <2> QED
    BY <2>1 DEF OrderTyped, KeepsTerms, KeepsBill
<1>8. CreditsTyped'
  <2> SUFFICES ASSUME NEW c \in credits
               PROVE  /\ c.transfer \in Transfers /\ c.block \in Nat
                      /\ c.transfer.to \in 1..Len(invoices')
                      /\ c.state = CreditState(invoices'[c.transfer.to], c)
    BY DEF CreditsTyped, CreditState
  <2>1. /\ c.transfer \in Transfers /\ c.block \in Nat
        /\ c.transfer.to \in 1..Len(invoices)
        /\ c.state = CreditState(invoices[c.transfer.to], c)
    BY <1>1 DEF CreditsTyped
  <2>2. CreditState(invoices'[c.transfer.to], c) = CreditState(invoices[c.transfer.to], c)
    BY <1>4, <2>1 DEF CreditState, SameTerms
  <2> QED
    BY <1>2, <1>3, <2>1, <2>2
<1>9. ScansTyped'
  <2> SUFFICES ASSUME NEW i \in InvoiceAddresses, scans[i] # Nothing PROVE ScanTyped(i, scans[i])'
    BY <1>1 DEF ScansTyped
  <2>1. ScanTyped(i, scans[i])
    BY <1>1 DEF ScansTyped
  <2>2. i <= Len(invoices')
    BY <1>2, <1>3, <2>1, InvoiceBounds DEF ScanTyped
  <2> QED
    BY <2>1, <2>2 DEF ScanTyped
<1>10. ASSUME ~broken' PROVE BooksAreTrue'
  <2>1. BooksAreTrue
    BY <1>10 DEF InvoicesSafe
  <2>2. ASSUME NEW i \in InvoiceAddresses, scans'[i] # Nothing PROVE ScanTrue(i, scans[i])'
    BY <2>1, <2>2 DEF BooksAreTrue, ScanTrue, IsFinal, OnChain, Now
  <2>3. \A c \in credits' : IsFinal(c)'
    BY <2>1 DEF BooksAreTrue, IsFinal, OnChain, Now
  <2>4. ASSUME NEW i \in 1..Len(invoices') PROVE AllCredited(i)' /\ DecidedRightly(i)'
    <3>1. CASE i \in 1..Len(invoices)
      <4>1. AllCredited(i) /\ DecidedRightly(i) /\ SameTerms(invoices[i], invoices'[i])
        BY <1>4, <2>1, <3>1 DEF BooksAreTrue
      <4>2. AllCredited(i)'
        BY <4>1 DEF AllCredited, SameTerms, OnChain, Now
      <4>3. PaidOnChain(i)' = PaidOnChain(i)
        BY <4>1 DEF PaidOnChain, SameTerms, OnChain, Now
      <4>4. invoices'[i].state = "paid" => PaidOnChain(i)' >= TokenPrice
        BY <4>1, <4>3 DEF DecidedRightly, SameTerms
      <4>5. bill'.state = "expired" => bill.state = "expired" /\ bill'.linked = bill.linked
        BY DEF KeepsBill
      <4>6. i = bill'.linked /\ bill'.state = "expired" =>
              invoices'[i].expires <= finalHead /\ PaidOnChain(i)' < TokenPrice
        BY <4>1, <4>3, <4>5 DEF DecidedRightly, SameTerms
      <4> QED
        BY <4>2, <4>4, <4>6 DEF DecidedRightly
    <3>2. CASE i \notin 1..Len(invoices)
      <4>1. IsNewInvoice(invoices'[i]) /\ i > Len(invoices)
        BY <1>2, <1>3, <1>5, <3>2
      <4>2. AllCredited(i)'
        <5>1. \A b \in OnChain' : b \in Nat
          BY <1>6, NextChainFacts
        <5>2. invoices'[i].created = Len(chain) /\ invoices'[i].next = finalHead
          BY <4>1 DEF IsNewInvoice, Now
        <5> QED
          BY <1>2, <5>1, <5>2 DEF AllCredited
      <4>3. ~(i = bill'.linked /\ bill'.state = "expired")
        <5>1. bill.linked <= Len(invoices) /\ bill.linked \in Nat
          BY <1>1, InvoiceBounds DEF OrderTyped, BillType
        <5> QED
          BY <1>2, <4>1, <5>1 DEF KeepsBill
      <4> QED
        BY <4>1, <4>2, <4>3 DEF DecidedRightly, IsNewInvoice
    <3> QED
      BY <3>1, <3>2
  <2> QED
    BY <2>2, <2>3, <2>4 DEF BooksAreTrue
<1> QED
  BY <1>6, <1>7, <1>8, <1>9, <1>10 DEF InvoicesSafe

LEMMA InvoiceRowsKept ==
  ASSUME OrderTyped, NEW i \in 1..Len(invoices), NEW w, SameTerms(invoices[i], w)
  PROVE  /\ [invoices EXCEPT ![i] = w] \in Seq(InvoiceType)
         /\ Len([invoices EXCEPT ![i] = w]) = Len(invoices)
         /\ \A j \in 1..Len(invoices) : SameTerms(invoices[j], [invoices EXCEPT ![i] = w][j])
<1>1. invoices \in Seq(InvoiceType) /\ w \in InvoiceType
      /\ \A j \in 1..Len(invoices) : invoices[j] \in InvoiceType
  BY InvoiceRows DEF OrderTyped, SameTerms
<1>2. /\ [invoices EXCEPT ![i] = w] \in Seq(InvoiceType)
      /\ Len([invoices EXCEPT ![i] = w]) = Len(invoices)
      /\ \A j \in 1..Len(invoices) :
           [invoices EXCEPT ![i] = w][j] = IF j = i THEN w ELSE invoices[j]
  BY <1>1, ExceptSeq
<1>3. \A j \in 1..Len(invoices) : SameTerms(invoices[j], invoices[j])
  BY <1>1 DEF SameTerms
<1> QED
  BY <1>2, <1>3

LEMMA SupersedeKeeps ==
  ASSUME OrderTyped, NEW i, i = bill.linked
  PROVE  /\ Supersede(invoices, i) \in Seq(InvoiceType)
         /\ Len(Supersede(invoices, i)) = Len(invoices)
         /\ \A j \in 1..Len(invoices) : SameTerms(invoices[j], Supersede(invoices, i)[j])
<1>1. CASE i = 0
  <2>1. \A j \in 1..Len(invoices) : invoices[j] \in InvoiceType
    BY InvoiceRows
  <2> QED
    BY <1>1, <2>1 DEF Supersede, SameTerms, OrderTyped
<1>2. CASE i # 0
  <2>1. i \in 1..Len(invoices) /\ invoices[i] \in InvoiceType
    BY <1>2, InvoiceRows, InvoiceBounds DEF OrderTyped, BillType
  <2>2. PICK s : s = IF invoices[i].state = "waiting" THEN "superseded" ELSE invoices[i].state
    OBVIOUS
  <2>3. PICK w : w = [invoices[i] EXCEPT !.state = s, !.attempt = "cancelled"]
    OBVIOUS
  <2>4. SameTerms(invoices[i], w)
    BY <2>1, <2>2, <2>3 DEF SameTerms, InvoiceType
  <2>5. Supersede(invoices, i) = [invoices EXCEPT ![i] = w]
    BY <1>2, <2>1, <2>2, <2>3, InvoiceRows DEF Supersede, InvoiceType
  <2> QED
    BY <2>1, <2>4, <2>5, InvoiceRowsKept
<1> QED
  BY <1>1, <1>2

LEMMA CreateInvoiceKeeps ==
  ASSUME InvoicesSafe, CreateInvoice
  PROVE  KeepsTerms /\ KeepsBill
<1>1. ChainTyped /\ OrderTyped
  BY DEF InvoicesSafe
<1>2. /\ Len(chain) \in Nat /\ Len(chain) <= LastBlock /\ finalHead \in 1..Len(chain)
      /\ Len(invoices) \in Nat /\ Len(invoices) < MaxInvoices /\ bill \in BillType
  BY <1>1, ChainFacts, InvoiceRows DEF CreateInvoice, OrderTyped
<1>3. PICK e : e = IF bill.linked = 0 THEN Now + InvoiceWindow ELSE bill.expires
  OBVIOUS
<1>4. e \in Nat
  BY <1>2, <1>3, InvoiceBounds DEF BillType, Now
<1>5. PICK n : n = NewInvoice(e)
  OBVIOUS
<1>6. n \in InvoiceType /\ IsNewInvoice(n)
  <2>1. Len(chain) \in Blocks /\ finalHead \in Blocks
    BY <1>2, InvoiceBounds
  <2>2. -1 \in Nat \union {-1}
    OBVIOUS
  <2> QED
    BY <1>4, <1>5, <2>1, <2>2 DEF NewInvoice, IsNewInvoice, InvoiceType, Now
<1>7. PICK vs : vs = Supersede(invoices, bill.linked)
  OBVIOUS
<1>8. /\ vs \in Seq(InvoiceType) /\ Len(vs) = Len(invoices)
      /\ \A j \in 1..Len(invoices) : SameTerms(invoices[j], vs[j])
  BY <1>1, <1>7, SupersedeKeeps
<1>9. /\ invoices' = Append(vs, n)
      /\ bill' = [bill EXCEPT !.linked = Len(invoices) + 1, !.expires = e]
      /\ UNCHANGED <<chain, finalHead, forks, broken, credits, frozen, scans>>
      /\ bill.state = "pending"
  BY <1>3, <1>5, <1>7 DEF CreateInvoice
<1>10. /\ invoices' \in Seq(InvoiceType) /\ Len(invoices') = Len(invoices) + 1
       /\ \A j \in 1..Len(invoices) : invoices'[j] = vs[j]
       /\ invoices'[Len(invoices) + 1] = n
  BY <1>6, <1>8, <1>9, AppendProperties
<1>11. KeepsTerms
  <2>1. \A j \in 1..Len(invoices') : j > Len(invoices) => j = Len(invoices) + 1
    BY <1>2, <1>10
  <2>2. Len(invoices') <= MaxInvoices /\ Len(invoices) <= Len(invoices')
    BY <1>2, <1>10, InvoiceBounds
  <2> QED
    BY <1>6, <1>8, <1>10, <2>1, <2>2 DEF KeepsTerms
<1>12. KeepsBill
  <2>1. Len(invoices) + 1 \in InvoiceAddresses
    BY <1>2, InvoiceBounds
  <2>2. bill' \in BillType /\ bill'.linked = Len(invoices) + 1 /\ bill'.state = "pending"
    BY <1>2, <1>4, <1>9, <2>1 DEF BillType
  <2> QED
    BY <1>2, <1>10, <2>2 DEF KeepsBill
<1> QED
  BY <1>11, <1>12

LEMMA CreateInvoiceStep ==
  ASSUME InvoicesSafe, CreateInvoice
  PROVE  InvoicesSafe'
BY CreateInvoiceKeeps, OrderStep DEF CreateInvoice

LEMMA CancelOrderKeeps ==
  ASSUME InvoicesSafe, CancelOrder
  PROVE  KeepsTerms /\ KeepsBill
<1>1. OrderTyped /\ bill \in BillType /\ bill.linked <= Len(invoices) /\ Len(invoices) \in Nat
      /\ \A j \in 1..Len(invoices) : invoices[j] \in InvoiceType
  BY InvoiceRows DEF InvoicesSafe, OrderTyped
<1>2. /\ bill' = [bill EXCEPT !.state = "cancelled"]
      /\ UNCHANGED <<chain, finalHead, forks, broken, credits, frozen, scans>>
  BY DEF CancelOrder
<1>3. invoices' \in Seq(InvoiceType) /\ Len(invoices') = Len(invoices)
      /\ \A j \in 1..Len(invoices) : SameTerms(invoices[j], invoices'[j])
  <2>1. CASE bill.linked = 0
    <3>1. invoices' = invoices
      BY <2>1 DEF CancelOrder
    <3> QED
      BY <1>1, <3>1 DEF SameTerms, OrderTyped
  <2>2. CASE bill.linked # 0
    <3>1. PICK i : i = bill.linked
      OBVIOUS
    <3>2. i \in 1..Len(invoices) /\ invoices[i] \in InvoiceType
      BY <1>1, <2>2, <3>1, InvoiceBounds DEF BillType
    <3>3. PICK a : a = IF invoices[i].attempt = "paid" THEN "refund_required" ELSE "cancelled"
      OBVIOUS
    <3>4. PICK w : w = [invoices[i] EXCEPT !.attempt = a]
      OBVIOUS
    <3>5. SameTerms(invoices[i], w)
      BY <3>2, <3>3, <3>4 DEF SameTerms, InvoiceType
    <3>6. invoices' = [invoices EXCEPT ![i].attempt = IF @ = "paid" THEN "refund_required" ELSE "cancelled"]
      BY <2>2, <3>1 DEF CancelOrder
    <3>7. invoices' = [invoices EXCEPT ![i] = w]
      BY <1>1, <3>2, <3>3, <3>4, <3>6, InvoiceRows
    <3> QED
      BY <1>1, <3>2, <3>5, <3>7, InvoiceRowsKept
  <2> QED
    BY <2>1, <2>2
<1>4. KeepsTerms
  BY <1>1, <1>3 DEF KeepsTerms, OrderTyped
<1>5. KeepsBill
  BY <1>1, <1>2, <1>3 DEF KeepsBill, BillType
<1> QED
  BY <1>4, <1>5

LEMMA CancelOrderStep ==
  ASSUME InvoicesSafe, CancelOrder
  PROVE  InvoicesSafe'
BY CancelOrderKeeps, OrderStep DEF CancelOrder

LEMMA ApplyReceiptStep ==
  ASSUME InvoicesSafe, ApplyReceipt
  PROVE  InvoicesSafe'
<1>1. OrderTyped /\ bill \in BillType /\ bill.linked <= Len(invoices) /\ Len(invoices) \in Nat
      /\ \A j \in 1..Len(invoices) : invoices[j] \in InvoiceType
  BY InvoiceRows DEF InvoicesSafe, OrderTyped
<1>2. /\ bill' = [bill EXCEPT !.state = "completed"] /\ invoices' = invoices
      /\ UNCHANGED <<chain, finalHead, forks, broken, credits, frozen, scans>>
  BY DEF ApplyReceipt
<1>3. KeepsTerms
  BY <1>1, <1>2 DEF KeepsTerms, OrderTyped, SameTerms
<1>4. KeepsBill
  BY <1>1, <1>2 DEF KeepsBill, BillType
<1> QED
  BY <1>2, <1>3, <1>4, OrderStep
-----------------------------------------------------------------------------
(* A scan is begun, given up or found stale.                                *)
LEMMA ScanStep ==
  ASSUME InvoicesSafe, NEW i \in InvoiceAddresses, NEW r,
         r = Nothing \/ (ScanTyped(i, r) /\ (~broken => ScanTrue(i, r))),
         scans' = [scans EXCEPT ![i] = r] \/ scans' = scans,
         UNCHANGED <<chain, finalHead, forks, broken, bill, invoices, credits>>,
         frozen' \in BOOLEAN
  PROVE  InvoicesSafe'
<1>1. ChainTyped /\ OrderTyped /\ CreditsTyped /\ ScansTyped
  BY DEF InvoicesSafe
<1>2. ChainTyped' /\ OrderTyped' /\ CreditsTyped'
  BY <1>1 DEF ChainTyped, OrderTyped, CreditsTyped, CreditState, OnChain, Now
<1>3. \A j \in InvoiceAddresses : scans'[j] # Nothing =>
        scans'[j] = scans[j] \/ (j = i /\ scans'[j] = r /\ ScanTyped(i, r) /\ (~broken => ScanTrue(i, r)))
  BY <1>1 DEF ScansTyped
<1>4. ScansTyped'
  <2>1. r \in Scans \union {Nothing}
    BY DEF ScanTyped
  <2>2. scans' \in [InvoiceAddresses -> Scans \union {Nothing}]
    BY <1>1, <2>1 DEF ScansTyped
  <2>3. ASSUME NEW j \in InvoiceAddresses, scans'[j] # Nothing PROVE ScanTyped(j, scans'[j])
    BY <1>1, <1>3, <2>3 DEF ScansTyped
  <2>4. ASSUME NEW j \in InvoiceAddresses, scans'[j] # Nothing PROVE ScanTyped(j, scans[j])'
    BY <2>3, <2>4 DEF ScanTyped
  <2> QED
    BY <2>2, <2>4 DEF ScansTyped
<1>5. ASSUME ~broken' PROVE BooksAreTrue'
  <2>1. BooksAreTrue /\ ~broken
    BY <1>5 DEF InvoicesSafe
  <2>2. ASSUME NEW j \in InvoiceAddresses, scans'[j] # Nothing PROVE ScanTrue(j, scans'[j])
    BY <1>3, <2>1, <2>2 DEF BooksAreTrue
  <2>3. ASSUME NEW j \in InvoiceAddresses, scans'[j] # Nothing PROVE ScanTrue(j, scans[j])'
    BY <2>2, <2>3 DEF ScanTrue, IsFinal, OnChain, Now
  <2>4. \A c \in credits' : IsFinal(c)'
    BY <2>1 DEF BooksAreTrue, IsFinal, OnChain, Now
  <2>5. ASSUME NEW j \in 1..Len(invoices') PROVE AllCredited(j)' /\ DecidedRightly(j)'
    <3>1. j \in 1..Len(invoices) /\ AllCredited(j) /\ DecidedRightly(j)
      BY <2>1, <2>5 DEF BooksAreTrue
    <3>2. AllCredited(j)'
      BY <3>1 DEF AllCredited, OnChain, Now
    <3>3. PaidOnChain(j)' = PaidOnChain(j)
      BY DEF PaidOnChain, OnChain, Now
    <3> QED
      BY <3>1, <3>2, <3>3 DEF DecidedRightly
  <2> QED
    BY <2>3, <2>4, <2>5 DEF BooksAreTrue
<1> QED
  BY <1>2, <1>4, <1>5 DEF InvoicesSafe

LEMMA ReadingIs ==
  ASSUME InvoicesSafe, NEW i \in 1..Len(invoices), NEW to \in Nat, to <= Len(chain), invoices[i].next <= to
  PROVE  ScanTyped(i, Reading(i, to)) /\ ScanTrue(i, Reading(i, to))
<1>1. ChainTyped /\ OrderTyped
  BY DEF InvoicesSafe
<1>2. /\ Len(chain) \in Nat /\ finalHead \in Nat /\ finalHead >= 1 /\ finalHead <= Len(chain)
      /\ Len(chain) <= LastBlock
      /\ \A b \in 1..Len(chain) : chain[b] \in BlockType
      /\ \A b \in OnChain : b \in 1..Len(chain) /\ b \in Nat /\ chain[b].transfer \in Transfers
  BY <1>1, ChainFacts
<1>3. PICK v \in InvoiceType : v = invoices[i] /\ i \in InvoiceAddresses /\ Len(invoices) \in Nat
  BY <1>1, InvoiceRows
<1>4. v.next \in 1..finalHead + 1 /\ (v.hash = -1 => v.next <= finalHead) /\ v.hash \in Nat \union {-1}
  BY <1>1, <1>3 DEF OrderTyped, InvoiceType
<1>5. PICK f : f = FinalEnd(to)
  OBVIOUS
<1>6. f \in Nat /\ f <= to /\ f <= finalHead /\ (f = to \/ f = finalHead)
  BY <1>2, <1>5 DEF FinalEnd, Smaller
<1>7. PICK n, h, its : /\ n = IF v.next <= f THEN f + 1 ELSE v.next
                       /\ h = IF v.next <= f THEN chain[f].fork ELSE v.hash
                       /\ its = {[transfer |-> chain[b].transfer, block |-> b,
                                  fork |-> chain[b].fork, final |-> b <= finalHead] :
                                  b \in {b \in OnChain \cap (v.next..to) : chain[b].transfer.to = i}}
  OBVIOUS
<1>8. Reading(i, to) = [from |-> v.next, to |-> to, head |-> finalHead, next |-> n, hash |-> h, items |-> its]
  BY <1>3, <1>5, <1>7 DEF Reading
<1>9. n \in 1..finalHead + 1
  BY <1>2, <1>4, <1>6, <1>7
<1>10. h \in Nat
  <2>1. CASE v.next <= f
    <3>1. f \in 1..Len(chain)
      BY <1>2, <1>4, <1>6, <2>1
    <3> QED
      BY <1>2, <1>7, <2>1, <3>1 DEF BlockType
  <2>2. CASE ~(v.next <= f)
    BY <1>2, <1>3, <1>4, <1>6, <1>7, <2>2
  <2> QED
    BY <2>1, <2>2
<1>11. ASSUME NEW x \in its
       PROVE  /\ x \in Items /\ x.transfer.to = i /\ x.block \in OnChain
              /\ x.final = (x.block <= finalHead) /\ chain[x.block].transfer = x.transfer
  <2>1. PICK b \in OnChain : /\ chain[b].transfer.to = i
                             /\ x = [transfer |-> chain[b].transfer, block |-> b,
                                     fork |-> chain[b].fork, final |-> b <= finalHead]
    BY <1>7
  <2>2. b \in Blocks /\ chain[b].transfer \in Transfers /\ chain[b].fork \in Nat
    BY <1>2, InvoiceBounds DEF BlockType
  <2> QED
    BY <2>1, <2>2 DEF Items
<1>12. ASSUME NEW b \in OnChain, v.next <= b, b < n, chain[b].transfer.to = i
       PROVE  \E x \in its : x.final /\ x.block = b /\ x.transfer = chain[b].transfer
  <2>1. b \in v.next..to /\ b <= finalHead
    BY <1>2, <1>4, <1>6, <1>7, <1>12
  <2>2. PICK x : x = [transfer |-> chain[b].transfer, block |-> b,
                      fork |-> chain[b].fork, final |-> b <= finalHead]
    OBVIOUS
  <2>3. x \in its
    BY <1>7, <1>12, <2>1, <2>2
  <2> QED
    BY <2>1, <2>2, <2>3
<1>13. PICK r : r = Reading(i, to)
  OBVIOUS
<1>14. r \in Scans
  <2>1. v.next \in Blocks /\ to \in Blocks /\ n \in Blocks /\ finalHead \in Blocks /\ v.next \in Int
    BY <1>2, <1>4, <1>9, InvoiceBounds
  <2>2. its \in SUBSET Items
    BY <1>11
  <2> QED
    BY <1>8, <1>10, <1>13, <2>1, <2>2 DEF Scans
<1>15. ScanTyped(i, r)
  <2>1. i <= Len(invoices)
    BY <1>3
  <2> QED
    BY <1>2, <1>8, <1>9, <1>11, <1>13, <1>14, <2>1 DEF ScanTyped
<1>16. ScanTrue(i, r)
  <2>1. r.items = its /\ r.from = v.next /\ r.next = n
    BY <1>8, <1>13
  <2>2. \A x \in its : x.final => IsFinal(x)
    BY <1>11 DEF IsFinal
  <2> QED
    BY <1>12, <2>1, <2>2 DEF ScanTrue
<1> QED
  BY <1>13, <1>15, <1>16

LEMMA ReadChainStep ==
  ASSUME InvoicesSafe, NEW i \in InvoiceAddresses, ReadChain(i)
  PROVE  InvoicesSafe'
<1>1. ChainTyped /\ OrderTyped /\ ScansTyped /\ frozen \in BOOLEAN
  BY DEF InvoicesSafe, ChainTyped
<1>2. UNCHANGED <<chain, finalHead, forks, broken, bill, invoices, credits>> /\ i <= Len(invoices)
  BY DEF ReadChain
<1>3. CASE HistoryHolds(i)
  <2>1. PICK to : /\ to = IF bill.network = "evm" THEN ScanEnd(i) ELSE SolanaScanEnd(i)
                  /\ invoices[i].next <= to
                  /\ scans' = [scans EXCEPT ![i] = Reading(i, to)] /\ frozen' = frozen
    BY <1>3 DEF ReadChain
  <2>2. i \in 1..Len(invoices) /\ invoices[i].next \in Nat
    BY <1>1, <1>2, InvoiceRows, InvoiceBounds
  <2>3. Len(chain) \in Nat /\ finalHead \in Nat /\ finalHead <= Len(chain) /\ ScanRange \in Nat /\ ScanRange >= 1
    BY <1>1, ChainFacts, InvoiceBounds
  <2>4. to \in Nat /\ to <= Len(chain)
    BY <2>1, <2>2, <2>3 DEF ScanEnd, SolanaScanEnd, Smaller, Now
  <2>5. PICK r : r = Reading(i, to)
    OBVIOUS
  <2>6. ScanTyped(i, r) /\ ScanTrue(i, r)
    BY <2>1, <2>2, <2>4, <2>5, ReadingIs
  <2> QED
    BY <1>1, <1>2, <2>1, <2>5, <2>6, ScanStep
<1>4. CASE ~HistoryHolds(i)
  <2>1. frozen' = TRUE /\ scans' = scans
    BY <1>4 DEF ReadChain
  <2> QED
    BY <1>2, <2>1, ScanStep
<1> QED
  BY <1>3, <1>4

LEMMA AbandonScanStep ==
  ASSUME InvoicesSafe, NEW i \in InvoiceAddresses, AbandonScan(i)
  PROVE  InvoicesSafe'
<1>1. /\ UNCHANGED <<chain, finalHead, forks, broken, bill, invoices, credits, frozen>>
      /\ scans' = [scans EXCEPT ![i] = Nothing]
  BY DEF AbandonScan, Database
<1>2. frozen' \in BOOLEAN
  BY <1>1 DEF InvoicesSafe, ChainTyped
<1> QED
  BY <1>1, <1>2, ScanStep
-----------------------------------------------------------------------------
(* A scan is booked.                                                        *)
FinalOf(r) == {x \in r.items : x.final}

(* What the settlement of invoice i makes of it and of the order.           *)
PaysEnough(i, cs) == Confirmed(i, cs) >= TokenPrice
SettledAs(i, r, cs, w) ==
  /\ w \in InvoiceType /\ w.created = invoices[i].created /\ w.expires = invoices[i].expires
  /\ w.next = r.next /\ w.hash = r.hash
  /\ w.state = "paid" => invoices[i].state = "paid" \/ PaysEnough(i, cs)
  /\ \/ bill' = bill
     \/ /\ bill' = [bill EXCEPT !.state = "expired"] /\ bill.linked = i
        /\ DeadlineFinal(i, r) /\ ~PaysEnough(i, cs)

(* Money that came to it in an order that is over or elsewhere is reviewed. *)
Attended(i, cs, os, w) ==
  \/ w.state \in {"paid", "review_required"} \/ (bill'.state = "pending" /\ bill'.linked = i)
  \/ /\ ~\E c \in cs : c.transfer.to = i /\ c.state = "review_required"
     /\ ~(Received(i, cs, os) /\ Confirmed(i, cs) > 0)

LEMMA SettleIs ==
  ASSUME OrderTyped, NEW i \in 1..Len(invoices), NEW r \in Scans, r.next \in Blocks,
         NEW cs, NEW os, Settle(i, r, cs, os)
  PROVE  \E w : SettledAs(i, r, cs, w) /\ Attended(i, cs, os, w) /\ invoices' = [invoices EXCEPT ![i] = w]
<1>1. PICK v \in InvoiceType : v = invoices[i]
  BY InvoiceRows
<1>2. PICK enough \in BOOLEAN : enough <=> (Confirmed(i, cs) >= TokenPrice)
  OBVIOUS
<1>3. PICK current \in BOOLEAN : current = (bill.state = "pending" /\ bill.linked = i)
  OBVIOUS
<1>4. PICK open \in BOOLEAN : open <=> (v.state \in {"waiting", "review_required"})
  OBVIOUS
<1>5. PICK review \in BOOLEAN : review = (\E c \in cs : c.transfer.to = i /\ c.state = "review_required")
  OBVIOUS
<1>6. PICK some \in BOOLEAN : some <=> (Confirmed(i, cs) > 0)
  OBVIOUS
<1>7. PICK got \in BOOLEAN : got = Received(i, cs, os)
  BY DEF Received
<1>8. PICK ends \in BOOLEAN : ends = (DeadlineFinal(i, r) /\ open /\ ~enough /\ current)
  OBVIOUS
<1>9. PICK pays \in BOOLEAN : pays = (enough /\ open /\ current /\ v.attempt = "awaiting_customer")
  OBVIOUS
<1>10. PICK stray \in BOOLEAN : stray = (v.state # "paid" /\ got /\ (~current \/ v.state \in {"superseded", "expired"}))
  OBVIOUS
<1>11. PICK s : s = IF pays THEN "paid"
               ELSE IF ends THEN IF some \/ review THEN "review_required" ELSE "expired"
               ELSE IF v.state # "paid" /\ (stray \/ review) THEN "review_required" ELSE v.state
  OBVIOUS
<1>12. PICK a : a = IF pays THEN "paid"
                   ELSE IF ends /\ v.attempt = "awaiting_customer" THEN "expired" ELSE v.attempt
  OBVIOUS
<1>13. PICK w : w = [v EXCEPT !.state = s, !.attempt = a, !.next = r.next, !.hash = r.hash]
  OBVIOUS
<1>14. invoices' = [invoices EXCEPT ![i] = w] /\ bill' = IF ends /\ ~pays THEN [bill EXCEPT !.state = "expired"] ELSE bill
  BY <1>1, <1>2, <1>3, <1>4, <1>5, <1>6, <1>7, <1>8, <1>9, <1>10, <1>11, <1>12, <1>13 DEF Settle
<1>15. w \in InvoiceType
  <2>1. s \in {"waiting", "superseded", "paid", "expired", "review_required"}
    BY <1>11 DEF InvoiceType
  <2>2. a \in {"awaiting_customer", "paid", "cancelled", "expired", "refund_required"}
    BY <1>12 DEF InvoiceType
  <2>3. r.hash \in Nat \union {-1} /\ r.next \in Blocks
    BY DEF Scans
  <2> QED
    BY <1>13, <2>1, <2>2, <2>3 DEF InvoiceType
<1>16. /\ w.created = v.created /\ w.expires = v.expires /\ w.next = r.next /\ w.hash = r.hash /\ w.state = s
  BY <1>13 DEF InvoiceType
<1>17. s = "paid" => v.state = "paid" \/ enough
  BY <1>9, <1>11
<1>18. SettledAs(i, r, cs, w)
  <2>1. w.state = "paid" => invoices[i].state = "paid" \/ PaysEnough(i, cs)
    BY <1>1, <1>2, <1>16, <1>17 DEF PaysEnough
  <2>2. \/ bill' = bill
        \/ /\ bill' = [bill EXCEPT !.state = "expired"] /\ bill.linked = i
           /\ DeadlineFinal(i, r) /\ ~PaysEnough(i, cs)
    BY <1>2, <1>3, <1>8, <1>14 DEF PaysEnough
  <2> QED
    BY <1>1, <1>15, <1>16, <2>1, <2>2 DEF SettledAs
<1>19. Attended(i, cs, os, w)
  <2> SUFFICES ASSUME s # "paid", s # "review_required", ~(bill'.state = "pending" /\ bill'.linked = i)
               PROVE  ~review /\ ~(got /\ some)
    BY <1>5, <1>6, <1>7, <1>16 DEF Attended
  <2>1. ~pays
    BY <1>11
  <2>2. CASE ends
    BY <1>11, <2>1, <2>2
  <2>3. CASE ~ends
    <3>1. ~current
      BY <1>3, <1>14, <2>3
    <3> QED
      BY <1>10, <1>11, <2>1, <2>3, <3>1
  <2> QED
    BY <2>2, <2>3
<1> QED
  BY <1>14, <1>18, <1>19

LEMMA CreditsAre ==
  ASSUME NEW i, NEW r, NEW cs, cs = Credits(i, r)
  PROVE  /\ \A c \in cs : \/ c \in credits
                          \/ \E x \in FinalOf(r) : c = Credit(invoices[i], x)
         /\ \A x \in FinalOf(r) : Credit(invoices[i], x) \in cs
         /\ \A c \in credits : c \in cs \/ \E x \in FinalOf(r) : Same(c, x)
BY DEF Credits, FinalOf

LEMMA BookedTyped ==
  ASSUME InvoicesSafe, NEW i \in 1..Len(invoices), NEW r, ScanTyped(i, r), NEW cs, cs = Credits(i, r)
  PROVE  \A c \in cs : /\ c.transfer \in Transfers /\ c.block \in Nat
                       /\ c.transfer.to \in 1..Len(invoices)
                       /\ c.state = CreditState(invoices[c.transfer.to], c)
<1> SUFFICES ASSUME NEW c \in cs
             PROVE  /\ c.transfer \in Transfers /\ c.block \in Nat
                    /\ c.transfer.to \in 1..Len(invoices)
                    /\ c.state = CreditState(invoices[c.transfer.to], c)
  OBVIOUS
<1>1. CASE c \in credits
  BY <1>1 DEF InvoicesSafe, CreditsTyped
<1>2. CASE \E x \in FinalOf(r) : c = Credit(invoices[i], x)
  <2>1. PICK x \in FinalOf(r) : c = Credit(invoices[i], x)
    BY <1>2
  <2>2. x \in Items /\ x.transfer.to = i
    BY <2>1 DEF ScanTyped, Scans, FinalOf
  <2>3. x.transfer \in Transfers /\ x.block \in Nat
    BY <2>2, InvoiceBounds DEF Items
  <2>4. /\ c.transfer = x.transfer /\ c.block = x.block
        /\ c.state = CreditState(invoices[i], x)
    BY <2>1 DEF Credit
  <2>5. CreditState(invoices[i], x) = CreditState(invoices[i], c)
    BY <2>4 DEF CreditState
  <2> QED
    BY <2>2, <2>3, <2>4, <2>5
<1> QED
  BY <1>1, <1>2, CreditsAre

LEMMA BookedReal ==
  ASSUME InvoicesSafe, ~broken, NEW i \in 1..Len(invoices), NEW r, ScanTyped(i, r), ScanTrue(i, r),
         NEW cs, cs = Credits(i, r)
  PROVE  /\ \A c \in cs : IsFinal(c)
         /\ \A c \in credits : \E d \in cs : d.transfer = c.transfer /\ d.block = c.block
         /\ \A x \in FinalOf(r) : \E d \in cs : d.transfer = x.transfer /\ d.block = x.block
<1>1. BooksAreTrue /\ ChainTyped
  BY DEF InvoicesSafe
<1>2. \A x \in FinalOf(r) : IsFinal(x) /\ Credit(invoices[i], x).transfer = x.transfer
                            /\ Credit(invoices[i], x).block = x.block
  BY DEF ScanTrue, FinalOf, Credit
<1>3. ASSUME NEW c \in cs PROVE IsFinal(c)
  <2>1. CASE c \in credits
    BY <1>1, <2>1 DEF BooksAreTrue
  <2>2. CASE \E x \in FinalOf(r) : c = Credit(invoices[i], x)
    BY <1>2, <2>2 DEF IsFinal
  <2> QED
    BY <2>1, <2>2, CreditsAre
<1>4. \A x \in FinalOf(r) : \E d \in cs : d.transfer = x.transfer /\ d.block = x.block
  BY <1>2, CreditsAre
<1>5. ASSUME NEW c \in credits PROVE \E d \in cs : d.transfer = c.transfer /\ d.block = c.block
  <2>1. CASE c \in cs
    BY <2>1
  <2>2. CASE \E x \in FinalOf(r) : Same(c, x)
    <3>1. PICK x \in FinalOf(r) : c.transfer = x.transfer
      BY <2>2 DEF Same
    <3>2. IsFinal(c) /\ IsFinal(x)
      BY <1>1, <1>2, <3>1 DEF BooksAreTrue
    <3>3. c.block = x.block
      BY <1>1, <3>1, <3>2 DEF IsFinal, ChainTyped
    <3> QED
      BY <1>4, <3>1, <3>3
  <2> QED
    BY <2>1, <2>2, CreditsAre
<1> QED
  BY <1>3, <1>4, <1>5

(* What counts as confirmed is on the final chain, and in time.             *)
ConfirmedItems(i, cs) == {c \in cs : /\ c.transfer.to = i /\ c.transfer.own
                                     /\ c.state = "confirmed"
                                     /\ c.block < invoices[i].expires}
LEMMA ConfirmedIs ==
  ASSUME NEW i, NEW cs, \A c \in cs : c.transfer \in Transfers
  PROVE  /\ Confirmed(i, cs) = Atoms(ConfirmedItems(i, cs)) /\ Confirmed(i, cs) \in Nat
         /\ \A c \in ConfirmedItems(i, cs) : c.transfer \in Transfers /\ c.transfer.atoms <= Confirmed(i, cs)
<1>1. Confirmed(i, cs) = Atoms(ConfirmedItems(i, cs))
  BY DEF Confirmed, ConfirmedItems
<1>2. \A x \in ConfirmedItems(i, cs) : x.transfer \in Transfers
  BY DEF ConfirmedItems
<1>3. PICK X : X = ConfirmedItems(i, cs)
  OBVIOUS
<1>4. Atoms(X) \in Nat /\ \A x \in X : x.transfer.atoms <= Atoms(X)
  BY <1>2, <1>3, AtomsAre
<1> QED
  BY <1>1, <1>2, <1>3, <1>4

LEMMA ConfirmedWithin ==
  ASSUME InvoicesSafe, NEW i \in 1..Len(invoices), NEW cs,
         \A c \in cs : /\ IsFinal(c) /\ c.transfer \in Transfers /\ c.block \in Nat
                       /\ c.state = CreditState(invoices[c.transfer.to], c)
  PROVE  Confirmed(i, cs) <= PaidOnChain(i)
<1>1. PICK X, Y : X = ConfirmedItems(i, cs) /\ Y = PaidItems(i)
  OBVIOUS
<1>2. Confirmed(i, cs) = Atoms(X) /\ PaidOnChain(i) = Atoms(Y)
      /\ \A y \in Y : y.transfer \in Transfers
  BY <1>1, ConfirmedIs, PaidIs DEF InvoicesSafe
<1>3. ASSUME NEW x \in X PROVE \E y \in Y : y.transfer = x.transfer
  <2>1. /\ x \in cs /\ x.transfer.to = i /\ x.transfer.own /\ x.state = "confirmed"
        /\ x.block < invoices[i].expires
    BY <1>1 DEF ConfirmedItems
  <2>2. x.block \in OnChain /\ x.block <= finalHead /\ chain[x.block].transfer = x.transfer
    BY <2>1 DEF IsFinal
  <2>3. x.block >= invoices[i].created
    BY <2>1 DEF CreditState
  <2> QED
    BY <1>1, <2>1, <2>2, <2>3 DEF PaidItems
<1> QED
  BY <1>2, <1>3, AtomsWithin

(* When all that is final was credited, what counts is all the chain pays.  *)
LEMMA ConfirmedAll ==
  ASSUME InvoicesSafe, NEW i \in 1..Len(invoices), NEW cs, NEW n \in Nat, invoices[i].expires <= n,
         \A c \in cs : /\ c.transfer \in Transfers /\ c.block \in Nat
                       /\ c.state = CreditState(invoices[c.transfer.to], c),
         \A b \in OnChain : invoices[i].created <= b /\ b < n /\ chain[b].transfer.to = i =>
           \E c \in cs : c.block = b /\ c.transfer = chain[b].transfer
  PROVE  PaidOnChain(i) <= Confirmed(i, cs)
<1>1. PICK X, Y : X = ConfirmedItems(i, cs) /\ Y = PaidItems(i)
  OBVIOUS
<1>2. Confirmed(i, cs) = Atoms(X) /\ PaidOnChain(i) = Atoms(Y)
      /\ \A x \in X : x.transfer \in Transfers
  BY <1>1, ConfirmedIs, PaidIs DEF InvoicesSafe
<1>3. invoices[i].expires \in Nat /\ invoices[i].created \in Nat
  BY InvoiceRows DEF InvoicesSafe
<1>4. \A b \in OnChain : b \in Nat
  BY ChainFacts DEF InvoicesSafe
<1>5. ASSUME NEW y \in Y PROVE \E x \in X : x.transfer = y.transfer
  <2>1. PICK b \in OnChain : /\ y = chain[b] /\ chain[b].transfer.to = i /\ chain[b].transfer.own
                             /\ b >= invoices[i].created /\ b < invoices[i].expires
    BY <1>1 DEF PaidItems
  <2>2. PICK c \in cs : c.block = b /\ c.transfer = chain[b].transfer
    BY <1>3, <1>4, <2>1
  <2>3. c.state = "confirmed"
    BY <2>1, <2>2 DEF CreditState
  <2>4. c \in X
    BY <1>1, <2>1, <2>2, <2>3 DEF ConfirmedItems
  <2> QED
    BY <2>1, <2>2, <2>4
<1> QED
  BY <1>2, <1>5, AtomsWithin

LEMMA BookedStep ==
  ASSUME InvoicesSafe, NEW i \in 1..Len(invoices), i \in InvoiceAddresses,
         NEW r, scans[i] = r, ScanTyped(i, r), ~broken => ScanTrue(i, r), r.from = invoices[i].next,
         credits' = Credits(i, r), NEW w, SettledAs(i, r, credits', w),
         invoices' = [invoices EXCEPT ![i] = w], scans' = [scans EXCEPT ![i] = Nothing],
         UNCHANGED <<chain, finalHead, forks, broken, frozen>>
  PROVE  InvoicesSafe'
<1>1. ChainTyped /\ OrderTyped /\ CreditsTyped /\ ScansTyped
  BY DEF InvoicesSafe
<1>2. /\ Len(invoices) \in Nat /\ invoices \in Seq(InvoiceType) /\ Len(invoices) <= MaxInvoices
      /\ \A j \in 1..Len(invoices) : /\ invoices[j] \in InvoiceType /\ invoices[j].expires \in Nat
                                     /\ invoices[j].created \in Nat /\ invoices[j].next \in Nat
  BY <1>1, InvoiceRows DEF OrderTyped
<1>3. /\ w \in InvoiceType /\ w.created = invoices[i].created /\ w.expires = invoices[i].expires
      /\ w.next = r.next /\ w.hash = r.hash
  BY DEF SettledAs
<1>4. /\ invoices' \in Seq(InvoiceType) /\ Len(invoices') = Len(invoices)
      /\ \A j \in 1..Len(invoices) : invoices'[j] = IF j = i THEN w ELSE invoices[j]
  BY <1>2, <1>3, ExceptSeq
<1>5. \A j \in 1..Len(invoices) : /\ invoices'[j].created = invoices[j].created
                                  /\ invoices'[j].expires = invoices[j].expires
  BY <1>3, <1>4
<1>6. /\ finalHead \in Nat /\ r.next \in Nat /\ r.next >= 1 /\ r.next <= r.head + 1 /\ r.head \in Nat
      /\ r.head <= finalHead /\ r.hash \in Nat
  <2>1. finalHead \in Nat /\ r \in Scans /\ r.next \in 1..r.head + 1 /\ r.head <= finalHead
    BY <1>1, ChainFacts DEF ScanTyped
  <2>2. r.next \in Nat /\ r.head \in Nat /\ r.hash \in Nat
    BY <2>1, InvoiceBounds DEF Scans
  <2> QED
    BY <2>1, <2>2
<1>7. bill' \in BillType /\ bill'.linked = bill.linked
      /\ (bill' = bill \/ (bill.linked = i /\ DeadlineFinal(i, r) /\ ~PaysEnough(i, credits')))
  BY <1>1 DEF SettledAs, OrderTyped, BillType
<1>8. ChainTyped'
  BY <1>1 DEF ChainTyped, OnChain, Now
<1>9. OrderTyped'
  <2>1. ASSUME NEW j \in 1..Len(invoices)
        PROVE  /\ invoices'[j].next \in 1..finalHead + 1
               /\ invoices'[j].hash = -1 => invoices'[j].next <= finalHead
    <3>1. CASE j = i
      <4>1. invoices'[j].next = r.next /\ invoices'[j].hash = r.hash
        BY <1>3, <1>4, <3>1
      <4> QED
        BY <1>6, <4>1
    <3>2. CASE j # i
      BY <1>1, <1>4, <3>2 DEF OrderTyped
    <3> QED
      BY <3>1, <3>2
  <2>2. bill.linked <= Len(invoices)
    BY <1>1 DEF OrderTyped
  <2> QED
    BY <1>2, <1>4, <1>7, <2>1, <2>2 DEF OrderTyped
<1>10. \A c \in credits' : /\ c.transfer \in Transfers /\ c.block \in Nat
                           /\ c.transfer.to \in 1..Len(invoices)
                           /\ c.state = CreditState(invoices[c.transfer.to], c)
  BY BookedTyped
<1>11. CreditsTyped'
  <2> SUFFICES ASSUME NEW c \in credits'
               PROVE  /\ c.transfer \in Transfers /\ c.block \in Nat
                      /\ c.transfer.to \in 1..Len(invoices')
                      /\ c.state = CreditState(invoices'[c.transfer.to], c)
    BY DEF CreditsTyped, CreditState
  <2>1. CreditState(invoices'[c.transfer.to], c) = CreditState(invoices[c.transfer.to], c)
    BY <1>5, <1>10 DEF CreditState
  <2> QED
    BY <1>4, <1>10, <2>1
<1>12. \A j \in InvoiceAddresses : scans'[j] # Nothing => j # i /\ scans'[j] = scans[j]
  BY <1>1 DEF ScansTyped
<1>13. ScansTyped'
  <2>1. scans' \in [InvoiceAddresses -> Scans \union {Nothing}]
    BY <1>1 DEF ScansTyped
  <2>2. ASSUME NEW j \in InvoiceAddresses, scans'[j] # Nothing PROVE ScanTyped(j, scans[j])'
    <3>1. ScanTyped(j, scans[j]) /\ scans'[j] = scans[j]
      BY <1>1, <1>12, <2>2 DEF ScansTyped
    <3> QED
      BY <1>4, <3>1 DEF ScanTyped
  <2> QED
    BY <2>1, <2>2 DEF ScansTyped
<1>14. ASSUME ~broken' PROVE BooksAreTrue'
  <2>1. BooksAreTrue /\ ~broken /\ ScanTrue(i, r)
    BY <1>14 DEF InvoicesSafe
  <2>2. ASSUME NEW j \in InvoiceAddresses, scans'[j] # Nothing PROVE ScanTrue(j, scans[j])'
    <3>1. ScanTrue(j, scans[j]) /\ scans'[j] = scans[j]
      BY <1>12, <2>1, <2>2 DEF BooksAreTrue
    <3> QED
      BY <3>1 DEF ScanTrue, IsFinal, OnChain, Now
  <2>3. PICK cs : cs = Credits(i, r) /\ cs = credits'
    OBVIOUS
  <2>4. /\ \A c \in cs : IsFinal(c)
        /\ \A c \in credits : \E d \in cs : d.transfer = c.transfer /\ d.block = c.block
        /\ \A x \in FinalOf(r) : \E d \in cs : d.transfer = x.transfer /\ d.block = x.block
    BY <2>1, <2>3, BookedReal
  <2>5. \A c \in credits' : IsFinal(c)'
    BY <2>3, <2>4 DEF IsFinal, OnChain, Now
  <2>6. ASSUME NEW j \in 1..Len(invoices), NEW b \in OnChain, invoices[j].created <= b,
               b < invoices'[j].next, chain[b].transfer.to = j
        PROVE  \E c \in cs : c.block = b /\ c.transfer = chain[b].transfer
    <3>1. CASE b < invoices[j].next
      BY <2>1, <2>4, <2>6, <3>1 DEF BooksAreTrue, AllCredited
    <3>2. CASE ~(b < invoices[j].next)
      <4>1. j = i
        BY <1>4, <2>6, <3>2
      <4>2. b \in Nat
        BY <1>1, ChainFacts
      <4>3. r.from <= b /\ b < r.next
        BY <1>2, <1>3, <1>4, <2>6, <3>2, <4>1, <4>2
      <4>4. PICK x \in r.items : x.final /\ x.block = b /\ x.transfer = chain[b].transfer
        BY <2>1, <2>6, <4>1, <4>3 DEF ScanTrue
      <4> QED
        BY <2>4, <4>4 DEF FinalOf
    <3> QED
      BY <3>1, <3>2
  <2>7. \A c \in cs : /\ c.transfer \in Transfers /\ c.block \in Nat
                      /\ c.state = CreditState(invoices[c.transfer.to], c)
    BY <1>10, <2>3
  <2>8. ASSUME NEW j \in 1..Len(invoices') PROVE AllCredited(j)' /\ DecidedRightly(j)'
    <3>1. j \in 1..Len(invoices) /\ DecidedRightly(j)
      BY <1>4, <2>1, <2>8 DEF BooksAreTrue
    <3>2. AllCredited(j)'
      BY <1>5, <2>3, <2>6, <3>1 DEF AllCredited, OnChain, Now
    <3>3. PaidOnChain(j)' = PaidOnChain(j) /\ PaidOnChain(j) \in Nat
      <4>1. PaidOnChain(j)' = PaidOnChain(j)
        BY <1>5, <3>1 DEF PaidOnChain, OnChain, Now
      <4> QED
        BY <1>1, <4>1, PaidIs
    <3>4. CASE j # i
      BY <1>4, <1>5, <1>7, <3>1, <3>2, <3>3, <3>4 DEF DecidedRightly
    <3>5. CASE j = i
      <4>1. Confirmed(i, cs) \in Nat /\ Confirmed(i, cs) <= PaidOnChain(i)
        BY <2>4, <2>7, ConfirmedIs, ConfirmedWithin
      <4>2. w.state = "paid" => PaidOnChain(i) >= TokenPrice
        <5>1. w.state = "paid" => invoices[i].state = "paid" \/ Confirmed(i, cs) >= TokenPrice
          BY <2>3 DEF SettledAs, PaysEnough
        <5>2. invoices[i].state = "paid" => PaidOnChain(i) >= TokenPrice
          BY <3>1, <3>5 DEF DecidedRightly
        <5> QED
          BY <3>3, <3>5, <4>1, <5>1, <5>2, InvoiceBounds
      <4>3. ASSUME i = bill'.linked, bill'.state = "expired"
            PROVE  invoices[i].expires <= finalHead /\ PaidOnChain(i) < TokenPrice
        <5>1. CASE bill' = bill
          BY <3>1, <3>5, <4>3, <5>1 DEF DecidedRightly
        <5>2. CASE bill' # bill
          <6>1. r.next > r.head /\ r.head > invoices[i].expires
            BY <1>7, <5>2 DEF DeadlineFinal
          <6>2. ~(Confirmed(i, cs) >= TokenPrice)
            BY <1>7, <2>3, <5>2 DEF PaysEnough
          <6>3. r.next \in Nat /\ invoices[i].expires <= r.next /\ invoices[i].expires <= finalHead
            BY <1>2, <1>6, <6>1
          <6>4. invoices'[i].next = r.next
            BY <1>3, <1>4
          <6>5. \A b \in OnChain : invoices[i].created <= b /\ b < r.next /\ chain[b].transfer.to = i =>
                  \E c \in cs : c.block = b /\ c.transfer = chain[b].transfer
            BY <2>6, <6>4
          <6>6. PaidOnChain(i) <= Confirmed(i, cs)
            BY <2>7, <6>3, <6>5, ConfirmedAll
          <6> QED
            BY <3>3, <3>5, <4>1, <6>2, <6>3, <6>6, InvoiceBounds
        <5> QED
          BY <5>1, <5>2
      <4>4. invoices'[j] = w /\ invoices'[j].expires = invoices[i].expires
        BY <1>3, <1>4, <3>5
      <4> QED
        BY <3>2, <3>3, <3>5, <4>2, <4>3, <4>4 DEF DecidedRightly
    <3> QED
      BY <3>4, <3>5
  <2> QED
    BY <2>2, <2>5, <2>8 DEF BooksAreTrue
<1> QED
  BY <1>8, <1>9, <1>11, <1>13, <1>14 DEF InvoicesSafe

LEMMA BookScanIs ==
  ASSUME InvoicesSafe, NEW i \in InvoiceAddresses, BookScan(i)
  PROVE  /\ UNCHANGED <<chain, finalHead, forks, broken>> /\ scans' = [scans EXCEPT ![i] = Nothing]
         /\ i \in 1..Len(invoices) /\ ScanTyped(i, scans[i]) /\ (~broken => ScanTrue(i, scans[i]))
         /\ \/ frozen' \in BOOLEAN /\ UNCHANGED <<bill, invoices, credits>>
            \/ /\ frozen' = frozen /\ scans[i].from = invoices[i].next
               /\ credits' = Credits(i, scans[i])
               /\ \E w : /\ SettledAs(i, scans[i], credits', w)
                         /\ Attended(i, credits', seen', w)
                         /\ invoices' = [invoices EXCEPT ![i] = w]
<1>1. UNCHANGED <<chain, finalHead, forks, broken>> /\ scans' = [scans EXCEPT ![i] = Nothing] /\ scans[i] # Nothing
  BY DEF BookScan
<1>2. PICK r : r = scans[i]
  OBVIOUS
<1>3. ScanTyped(i, r) /\ (~broken => ScanTrue(i, r)) /\ OrderTyped /\ ChainTyped
  BY <1>1, <1>2 DEF InvoicesSafe, ScansTyped, BooksAreTrue
<1>4. i \in 1..Len(invoices)
  BY <1>3, InvoiceRows, InvoiceBounds DEF ScanTyped
<1>5. CASE frozen \/ invoices[i].next # r.from
  <2>1. UNCHANGED Database
    BY <1>2, <1>5 DEF BookScan
  <2> QED
    BY <1>1, <1>2, <1>3, <1>4, <2>1 DEF Database, ChainTyped
<1>6. CASE ~(frozen \/ invoices[i].next # r.from) /\ Contradicts(r)
  <2>1. frozen' = TRUE /\ UNCHANGED <<bill, invoices, credits>>
    BY <1>2, <1>6 DEF BookScan
  <2> QED
    BY <1>1, <1>2, <1>3, <1>4, <2>1
<1>7. CASE ~(frozen \/ invoices[i].next # r.from) /\ ~Contradicts(r)
  <2>1. credits' = Credits(i, r) /\ Settle(i, r, credits', seen') /\ frozen' = frozen
    BY <1>2, <1>7 DEF BookScan
  <2>2. r \in Scans /\ r.next \in Blocks
    BY <1>3 DEF ScanTyped, Scans
  <2>3. PICK cs, os : cs = credits' /\ os = seen'
    OBVIOUS
  <2>4. Settle(i, r, cs, os)
    BY <2>1, <2>3
  <2>5. PICK w : SettledAs(i, r, cs, w) /\ Attended(i, cs, os, w) /\ invoices' = [invoices EXCEPT ![i] = w]
    BY <1>3, <1>4, <2>2, <2>4, SettleIs
  <2> QED
    BY <1>1, <1>2, <1>3, <1>4, <1>7, <2>1, <2>3, <2>5
<1> QED
  BY <1>5, <1>6, <1>7

LEMMA BookScanStep ==
  ASSUME InvoicesSafe, NEW i \in InvoiceAddresses, BookScan(i)
  PROVE  InvoicesSafe'
<1>1. PICK r : r = scans[i]
  OBVIOUS
<1>2. CASE frozen' \in BOOLEAN /\ UNCHANGED <<bill, invoices, credits>>
  <2>1. UNCHANGED <<chain, finalHead, forks, broken, bill, invoices, credits>>
        /\ scans' = [scans EXCEPT ![i] = Nothing]
    BY <1>2, BookScanIs
  <2> QED
    BY <1>2, <2>1, ScanStep
<1>3. CASE ~(frozen' \in BOOLEAN /\ UNCHANGED <<bill, invoices, credits>>)
  <2>1. /\ UNCHANGED <<chain, finalHead, forks, broken, frozen>> /\ scans' = [scans EXCEPT ![i] = Nothing]
        /\ i \in 1..Len(invoices) /\ ScanTyped(i, r) /\ (~broken => ScanTrue(i, r))
        /\ r.from = invoices[i].next /\ credits' = Credits(i, r)
        /\ \E w : SettledAs(i, r, credits', w) /\ invoices' = [invoices EXCEPT ![i] = w]
    BY <1>1, <1>3, BookScanIs
  <2>2. PICK w : SettledAs(i, r, credits', w) /\ invoices' = [invoices EXCEPT ![i] = w]
    BY <2>1
  <2> QED
    BY <1>1, <2>1, <2>2, BookedStep
<1> QED
  BY <1>2, <1>3

LEMMA InvoicesInitInv == InvoicesInit => InvoicesSafe
<1> SUFFICES ASSUME InvoicesInit PROVE InvoicesSafe
  OBVIOUS
<1>1. PICK e \in BlockType : e = [fork |-> 0, transfer |-> Nothing]
  BY DEF BlockType
<1>2. /\ chain = <<e>> /\ finalHead = 1 /\ forks = 0 /\ broken = FALSE /\ invoices = <<>>
      /\ credits = {} /\ frozen = FALSE /\ scans = [i \in InvoiceAddresses |-> Nothing]
  BY <1>1 DEF InvoicesInit
<1>3. chain \in Seq(BlockType) /\ Len(chain) = 1 /\ chain[1] = e
  BY <1>2
<1>4. OnChain = {}
  BY <1>1, <1>3 DEF OnChain, Now
<1>5. ChainTyped
  <2>1. finalHead \in 1..Len(chain) /\ Len(chain) <= LastBlock
    BY <1>2, <1>3, InvoiceBounds
  <2> QED
    BY <1>2, <1>3, <1>4, <2>1 DEF ChainTyped
<1>6. bill \in BillType /\ bill.linked = 0
  BY DEF InvoicesInit, BillType
<1>7. Len(invoices) = 0 /\ invoices \in Seq(InvoiceType) /\ \A i \in 1..Len(invoices) : FALSE
  BY <1>2
<1>8. OrderTyped
  BY <1>6, <1>7, InvoiceBounds DEF OrderTyped
<1>9. CreditsTyped /\ ScansTyped /\ BooksAreTrue
  BY <1>2, <1>7 DEF CreditsTyped, ScansTyped, BooksAreTrue
<1> QED
  BY <1>5, <1>8, <1>9 DEF InvoicesSafe

LEMMA InvoicesStep ==
  ASSUME InvoicesSafe, [InvoicesNext]_InvoicesVars
  PROVE  InvoicesSafe'
<1>1. CASE \E t \in Transfers \union {Nothing} : Mine(t)
  BY <1>1, MineStep
<1>2. CASE \E b \in 1..LastBlock : Finalise(b) \/ Replace(b)
  BY <1>2, FinaliseStep, ReplaceStep, InvoiceBounds
<1>3. CASE CreateInvoice
  BY <1>3, CreateInvoiceStep
<1>4. CASE CancelOrder
  BY <1>4, CancelOrderStep
<1>5. CASE ApplyReceipt
  BY <1>5, ApplyReceiptStep
<1>6. ASSUME NEW i \in InvoiceAddresses, ReadChain(i) \/ AbandonScan(i) \/ BookScan(i) PROVE InvoicesSafe'
  BY <1>6, ReadChainStep, AbandonScanStep, BookScanStep
<1>7. CASE UNCHANGED InvoicesVars
  <2>1. /\ UNCHANGED <<chain, finalHead, forks, broken, scans>> /\ UNCHANGED Database
    BY <1>7 DEF InvoicesVars, Database
  <2>2. ChainTyped /\ Len(chain) \in Nat /\ finalHead \in Nat
    BY ChainFacts DEF InvoicesSafe
  <2>3. ChainTyped' /\ FinalKept /\ finalHead <= finalHead'
    BY <2>1, <2>2 DEF ChainTyped, FinalKept, OnChain, Now, Database
  <2> QED
    BY <2>1, <2>3, ForkStep
<1> QED
  BY <1>1, <1>2, <1>3, <1>4, <1>5, <1>6, <1>7 DEF InvoicesNext

LEMMA InvoicesAlways == InvoicesSpec => []InvoicesSafe
<1>1. InvoicesSafe /\ [InvoicesNext]_InvoicesVars => InvoicesSafe'
  BY InvoicesStep
<1> QED
  BY <1>1, InvoicesInitInv, PTL DEF InvoicesSpec

(* The type invariant of the invoices: every credit is confirmed or waits   *)
(* for review, and no cursor has passed the last final block.               *)
THEOREM InvoicesTyped == InvoicesSpec => []InvoicesTypeOK
<1>1. ASSUME InvoicesSafe PROVE InvoicesTypeOK
  <2>1. ChainTyped /\ OrderTyped /\ CreditsTyped /\ ScansTyped
    BY <1>1 DEF InvoicesSafe
  <2>2. /\ Len(invoices) \in Nat /\ DOMAIN invoices = 1..Len(invoices) /\ finalHead \in Nat
    BY <2>1, InvoiceRows, ChainFacts
  <2>3. \A i \in DOMAIN invoices : invoices[i].next <= finalHead + 1
    BY <2>1, <2>2 DEF OrderTyped
  <2>4. \A c \in credits : c.state \in {"confirmed", "review_required"}
    BY <2>1 DEF CreditsTyped, CreditState
  <2>5. /\ chain \in Seq([fork : Nat, transfer : Transfers \union {Nothing}])
        /\ finalHead \in 0..Len(chain) /\ forks \in Nat /\ {broken, frozen} \subseteq BOOLEAN
    BY <2>1, ChainFacts DEF ChainTyped, BlockType
  <2>6. /\ bill \in [state : {"pending", "completed", "cancelled", "expired"},
                     linked : InvoiceAddresses \union {0}, expires : Nat,
                     network : {"evm", "solana"}]
        /\ invoices \in Seq([state : {"waiting", "superseded", "paid", "expired",
                                      "review_required"},
                             attempt : {"awaiting_customer", "paid", "cancelled",
                                        "expired", "refund_required"},
                             created : Blocks, expires : Nat,
                             next : Blocks, hash : Nat \union {-1}])
    BY <2>1 DEF OrderTyped, BillType, InvoiceType
  <2>7. scans \in [InvoiceAddresses -> Scans \union {Nothing}]
    BY <2>1 DEF ScansTyped
  <2> QED
    BY <2>3, <2>4, <2>5, <2>6, <2>7 DEF InvoicesTypeOK
<1>2. InvoicesSafe => InvoicesTypeOK
  BY <1>1
<1> QED
  BY <1>2, InvoicesAlways, PTL

(* While final blocks stay final, an invoice is paid only when final        *)
(* transfers in its window pay it in full, and its order expires only when  *)
(* they do not (settleCryptoInvoice), for every chain, every range of a     *)
(* scan and every number of invoices.                                       *)
THEOREM ChainDecides == InvoicesSpec => []DecidedByTheChain
<1>1. InvoicesSafe => DecidedByTheChain
  BY DEF InvoicesSafe, BooksAreTrue, DecidedRightly, DecidedByTheChain
<1> QED
  BY <1>1, InvoicesAlways, PTL

LEMMA BookedAttended ==
  ASSUME InvoicesSafe, InvoicesSafe', NEW j \in InvoiceAddresses, BookScan(j),
         NEW i \in 1..Len(invoices), invoices'[i].next > invoices[i].next,
         NEW c \in credits', c.transfer.to = i, invoices'[i].state # "paid",
         bill'.state # "pending" \/ bill'.linked # i
  PROVE  invoices'[i].state = "review_required"
<1>1. invoices \in Seq(InvoiceType) /\ invoices[i].next \in Nat /\ i \in DOMAIN invoices
      /\ CreditsTyped' /\ OrderTyped
  BY InvoiceRows DEF InvoicesSafe, OrderTyped
<1>2. invoices' # invoices
  BY <1>1
<1>3. PICK cs, os, w : /\ cs = credits' /\ os = seen' /\ Attended(j, cs, os, w)
                       /\ SettledAs(j, scans[j], cs, w) /\ cs = Credits(j, scans[j])
                       /\ invoices' = [invoices EXCEPT ![j] = w]
                       /\ j \in 1..Len(invoices) /\ ScanTyped(j, scans[j])
  BY <1>2, BookScanIs
<1>4. i = j /\ invoices'[i] = w
  BY <1>1, <1>3
<1>5. w.state # "paid" /\ (bill'.state # "pending" \/ bill'.linked # j)
  BY <1>4
<1>6. \A d \in cs : /\ d.transfer \in Transfers /\ d.block \in Nat
                    /\ d.state = CreditState(invoices[d.transfer.to], d)
  BY <1>3, BookedTyped
<1>7. CASE c.state = "review_required"
  BY <1>3, <1>4, <1>5, <1>7 DEF Attended
<1>8. CASE c.state # "review_required"
  <2>1. /\ c \in cs /\ c.transfer.to = j /\ c.transfer.own /\ c.state = "confirmed"
        /\ c.block < invoices[j].expires
    BY <1>3, <1>4, <1>6, <1>8 DEF CreditState
  <2>2. c \in ConfirmedItems(j, cs)
    BY <2>1 DEF ConfirmedItems
  <2>3. Confirmed(j, cs) \in Nat /\ c.transfer.atoms <= Confirmed(j, cs) /\ c.transfer.atoms \in Nat \ {0}
    BY <1>6, <2>2, ConfirmedIs, TransferRows
  <2>4. Confirmed(j, cs) > 0
    BY <2>3
  <2>5. Received(j, cs, os)
    BY <2>1 DEF Received
  <2> QED
    BY <1>4, <1>5, <2>4, <2>5, <1>3 DEF Attended
<1> QED
  BY <1>7, <1>8

(* When a scan moves an invoice's cursor, what was credited to an invoice   *)
(* that was not paid, of an order that is over or has gone elsewhere, waits *)
(* for review (the stray money of settleCryptoInvoice).                     *)
THEOREM NoStrayMoney == InvoicesSpec => StrayMoneyIsReviewed
<1> DEFINE Reviewed == \A i \in 1..Len(invoices) :
       (/\ invoices'[i].next > invoices[i].next
        /\ \E c \in credits' : c.transfer.to = i
        /\ invoices'[i].state # "paid"
        /\ bill'.state # "pending" \/ bill'.linked # i)
       => invoices'[i].state = "review_required"
<1>1. ASSUME InvoicesSafe, InvoicesSafe', InvoicesNext PROVE Reviewed
  <2> SUFFICES ASSUME NEW i \in 1..Len(invoices), invoices'[i].next > invoices[i].next,
                      NEW c \in credits', c.transfer.to = i, invoices'[i].state # "paid",
                      bill'.state # "pending" \/ bill'.linked # i
               PROVE  invoices'[i].state = "review_required"
    BY Zenon
  <2>1. OrderTyped /\ invoices[i].next \in Nat /\ i \in InvoiceAddresses
        /\ Len(invoices) \in Nat /\ bill \in BillType /\ bill.linked <= Len(invoices)
        /\ \A j \in 1..Len(invoices) : invoices[j] \in InvoiceType
    BY <1>1, InvoiceRows DEF InvoicesSafe, OrderTyped
  <2>2. invoices'[i].next # invoices[i].next
    BY <2>1
  <2>3. \E j \in InvoiceAddresses : BookScan(j)
    <3>1. ASSUME UNCHANGED invoices PROVE FALSE
      BY <2>2, <3>1
    <3>2. CASE \E t \in Transfers \union {Nothing} : Mine(t)
      BY <3>1, <3>2 DEF Mine, Database
    <3>3. CASE \E b \in 1..LastBlock : Finalise(b) \/ Replace(b)
      BY <3>1, <3>3 DEF Finalise, Replace, Database
    <3>4. CASE CreateInvoice
      BY <1>1, <2>2, <3>4, CreateInvoiceKeeps DEF SameTerms, KeepsTerms
    <3>5. CASE CancelOrder
      BY <1>1, <2>2, <3>5, CancelOrderKeeps DEF SameTerms, KeepsTerms
    <3>6. CASE ApplyReceipt
      BY <3>1, <3>6 DEF ApplyReceipt
    <3>7. CASE \E j \in InvoiceAddresses : ReadChain(j) \/ AbandonScan(j)
      BY <3>1, <3>7 DEF ReadChain, AbandonScan, Database
    <3> QED
      BY <1>1, <3>2, <3>3, <3>4, <3>5, <3>6, <3>7 DEF InvoicesNext
  <2> QED
    BY <1>1, <2>3, BookedAttended
<1>2. InvoicesSafe /\ InvoicesSafe' /\ [InvoicesNext]_InvoicesVars => [Reviewed]_InvoicesVars
  BY <1>1, Zenon
<1> QED
  BY <1>2, InvoicesAlways, PTL DEF InvoicesSpec, StrayMoneyIsReviewed
=============================================================================
