-------------------------- MODULE SubsystemsProofs --------------------------
(* A behaviour of the system of MCSubsystems is a behaviour of the          *)
(* subsystem it is about, so that what is proved of each of the twelve      *)
(* holds of it; and it keeps its types, whatever the constants.             *)
EXTENDS MCSubsystems, OperationsProofs, AmountsProofs, CryptoProofs

SystemVars == <<subject, AccountVars, GrantsVars, MountsVars, CoreVars,
                ExitsVars, RatesVars, InvoicesVars, WalletVars, SweepsVars,
                GateVars, OutboxVars, RestoresVars>>
-----------------------------------------------------------------------------
(* Who moves stays the same, and moves as its own specification allows.     *)
LEMMA SubjectStarts ==
  Init =>
    \/ subject = "accounts" /\ AccountsInit
    \/ subject = "grants" /\ GrantsInit
    \/ subject = "mounts" /\ MountsInit
    \/ subject = "leases" /\ CoreLeasesInit
    \/ subject = "exits" /\ ExitsInit
    \/ subject = "rates" /\ CryptoRatesInit
    \/ subject = "invoices" /\ InvoicesInit
    \/ subject = "wallets" /\ CryptoWalletsInit
    \/ subject = "sweeps" /\ SweepsInit
    \/ subject = "gate" /\ GateInit
    \/ subject = "outbox" /\ OutboxInit
    \/ subject = "restores" /\ RestoresInit
BY DEF Init

LEMMA OnlySubjectMoves ==
  ASSUME [Next]_SystemVars
  PROVE  /\ UNCHANGED subject
         /\ subject = "accounts" => [AccountsNext]_AccountVars
         /\ subject = "grants" => [GrantsNext]_GrantsVars
         /\ subject = "mounts" => [MountsNext]_MountsVars
         /\ subject = "leases" => [CoreLeasesNext]_CoreVars
         /\ subject = "exits" => [ExitsNext]_ExitsVars
         /\ subject = "rates" => [CryptoRatesNext]_RatesVars
         /\ subject = "invoices" => [InvoicesNext]_InvoicesVars
         /\ subject = "wallets" => [CryptoWalletsNext]_WalletVars
         /\ subject = "sweeps" => [SweepsNext]_SweepsVars
         /\ subject = "gate" => [GateNext]_GateVars
         /\ subject = "outbox" => [OutboxNext]_OutboxVars
         /\ subject = "restores" => [RestoresNext]_RestoresVars
<1>1. CASE UNCHANGED SystemVars
  BY <1>1 DEF SystemVars
<1>2. CASE Next
  BY <1>2 DEF Next
<1> QED
  BY <1>1, <1>2

LEMMA SubjectIsAccounts == Spec /\ subject = "accounts" => AccountsSpec
<1>1. Init /\ subject = "accounts" => AccountsInit
  BY DEF Init
<1>2. subject = "accounts" /\ [Next]_SystemVars => [AccountsNext]_AccountVars /\ (subject = "accounts")'
  BY OnlySubjectMoves
<1> QED
  BY <1>1, <1>2, PTL DEF Spec, SystemVars, AccountsSpec

LEMMA SubjectIsSiteGrants == Spec /\ subject = "grants" => GrantsSpec
<1>1. Init /\ subject = "grants" => GrantsInit
  BY DEF Init
<1>2. subject = "grants" /\ [Next]_SystemVars => [GrantsNext]_GrantsVars /\ (subject = "grants")'
  BY OnlySubjectMoves
<1> QED
  BY <1>1, <1>2, PTL DEF Spec, SystemVars, GrantsSpec

LEMMA SubjectIsMounts == Spec /\ subject = "mounts" => MountsSpec
<1>1. Init /\ subject = "mounts" => MountsInit
  BY DEF Init
<1>2. subject = "mounts" /\ [Next]_SystemVars => [MountsNext]_MountsVars /\ (subject = "mounts")'
  BY OnlySubjectMoves
<1> QED
  BY <1>1, <1>2, PTL DEF Spec, SystemVars, MountsSpec

LEMMA SubjectIsCoreLeases == Spec /\ subject = "leases" => CoreLeasesSpec
<1>1. Init /\ subject = "leases" => CoreLeasesInit
  BY DEF Init
<1>2. subject = "leases" /\ [Next]_SystemVars => [CoreLeasesNext]_CoreVars /\ (subject = "leases")'
  BY OnlySubjectMoves
<1> QED
  BY <1>1, <1>2, PTL DEF Spec, SystemVars, CoreLeasesSpec

LEMMA SubjectIsExits == Spec /\ subject = "exits" => ExitsSpec
<1>1. Init /\ subject = "exits" => ExitsInit
  BY DEF Init
<1>2. subject = "exits" /\ [Next]_SystemVars => [ExitsNext]_ExitsVars /\ (subject = "exits")'
  BY OnlySubjectMoves
<1> QED
  BY <1>1, <1>2, PTL DEF Spec, SystemVars, ExitsSpec

LEMMA SubjectIsCryptoRates == Spec /\ subject = "rates" => CryptoRatesSpec
<1>1. Init /\ subject = "rates" => CryptoRatesInit
  BY DEF Init
<1>2. subject = "rates" /\ [Next]_SystemVars => [CryptoRatesNext]_RatesVars /\ (subject = "rates")'
  BY OnlySubjectMoves
<1> QED
  BY <1>1, <1>2, PTL DEF Spec, SystemVars, CryptoRatesSpec

LEMMA SubjectIsCryptoInvoices == Spec /\ subject = "invoices" => InvoicesSpec
<1>1. Init /\ subject = "invoices" => InvoicesInit
  BY DEF Init
<1>2. subject = "invoices" /\ [Next]_SystemVars => [InvoicesNext]_InvoicesVars /\ (subject = "invoices")'
  BY OnlySubjectMoves
<1> QED
  BY <1>1, <1>2, PTL DEF Spec, SystemVars, InvoicesSpec

LEMMA SubjectIsCryptoWallets == Spec /\ subject = "wallets" => CryptoWalletsSpec
<1>1. Init /\ subject = "wallets" => CryptoWalletsInit
  BY DEF Init
<1>2. subject = "wallets" /\ [Next]_SystemVars => [CryptoWalletsNext]_WalletVars /\ (subject = "wallets")'
  BY OnlySubjectMoves
<1> QED
  BY <1>1, <1>2, PTL DEF Spec, SystemVars, CryptoWalletsSpec

LEMMA SubjectIsCryptoSweeps == Spec /\ subject = "sweeps" => SweepsSpec
<1>1. Init /\ subject = "sweeps" => SweepsInit
  BY DEF Init
<1>2. subject = "sweeps" /\ [Next]_SystemVars => [SweepsNext]_SweepsVars /\ (subject = "sweeps")'
  BY OnlySubjectMoves
<1> QED
  BY <1>1, <1>2, PTL DEF Spec, SystemVars, SweepsSpec

LEMMA SubjectIsMaintenanceGate == Spec /\ subject = "gate" => GateSpec
<1>1. Init /\ subject = "gate" => GateInit
  BY DEF Init
<1>2. subject = "gate" /\ [Next]_SystemVars => [GateNext]_GateVars /\ (subject = "gate")'
  BY OnlySubjectMoves
<1> QED
  BY <1>1, <1>2, PTL DEF Spec, SystemVars, GateSpec

LEMMA SubjectIsOutbox == Spec /\ subject = "outbox" => OutboxSpec
<1>1. Init /\ subject = "outbox" => OutboxInit
  BY DEF Init
<1>2. subject = "outbox" /\ [Next]_SystemVars => [OutboxNext]_OutboxVars /\ (subject = "outbox")'
  BY OnlySubjectMoves
<1> QED
  BY <1>1, <1>2, PTL DEF Spec, SystemVars, OutboxSpec

LEMMA SubjectIsRestores == Spec /\ subject = "restores" => RestoresSpec
<1>1. Init /\ subject = "restores" => RestoresInit
  BY DEF Init
<1>2. subject = "restores" /\ [Next]_SystemVars => [RestoresNext]_RestoresVars /\ (subject = "restores")'
  BY OnlySubjectMoves
<1> QED
  BY <1>1, <1>2, PTL DEF Spec, SystemVars, RestoresSpec

-----------------------------------------------------------------------------
(* The system does nothing that no subsystem does: a behaviour has one      *)
(* subject from its start on, and is a behaviour of that subsystem.         *)
THEOREM BehavesAsItsSubject ==
  Spec =>
    \/ subject = "accounts" /\ AccountsSpec
    \/ subject = "grants" /\ GrantsSpec
    \/ subject = "mounts" /\ MountsSpec
    \/ subject = "leases" /\ CoreLeasesSpec
    \/ subject = "exits" /\ ExitsSpec
    \/ subject = "rates" /\ CryptoRatesSpec
    \/ subject = "invoices" /\ InvoicesSpec
    \/ subject = "wallets" /\ CryptoWalletsSpec
    \/ subject = "sweeps" /\ SweepsSpec
    \/ subject = "gate" /\ GateSpec
    \/ subject = "outbox" /\ OutboxSpec
    \/ subject = "restores" /\ RestoresSpec
<1>1. Spec => Init
  BY PTL DEF Spec
<1> QED
  BY <1>1, SubjectStarts, SubjectIsAccounts, SubjectIsSiteGrants, SubjectIsMounts,
     SubjectIsCoreLeases, SubjectIsExits, SubjectIsCryptoRates,
     SubjectIsCryptoInvoices, SubjectIsCryptoWallets, SubjectIsCryptoSweeps,
     SubjectIsMaintenanceGate, SubjectIsOutbox, SubjectIsRestores, PTL
-----------------------------------------------------------------------------
(* The types of the subsystems whose invariant has them as a part.          *)
LEMMA GrantsTyped == GrantsSpec => []GrantsTypeOK
<1>1. GrantsInv => GrantsTypeOK
  BY DEF GrantsInv
<1> QED
  BY <1>1, GrantsSafe, PTL

LEMMA MountsTyped == MountsSpec => []MountsTypeOK
<1>1. MountsInv => MountsTypeOK
  BY DEF MountsInv
<1> QED
  BY <1>1, MountsSafe, PTL

LEMMA CoreLeasesTyped == CoreLeasesSpec => []CoreLeasesTypeOK
<1>1. LeaseInv => CoreLeasesTypeOK
  BY DEF LeaseInv
<1> QED
  BY <1>1, LeasesSafe, PTL

LEMMA ExitsTyped == ExitsSpec => []ExitsTypeOK
<1>1. ExitsInv => ExitsTypeOK
  BY DEF ExitsInv
<1> QED
  BY <1>1, ExitsSafe, PTL

LEMMA WalletsTyped == CryptoWalletsSpec => []CryptoWalletsTypeOK
<1>1. WalletsInv => CryptoWalletsTypeOK
  BY DEF WalletsInv
<1> QED
  BY <1>1, WalletsSafe, PTL

LEMMA GateTyped == GateSpec => []GateTypeOK
<1>1. GateInv => GateTypeOK
  BY DEF GateInv
<1> QED
  BY <1>1, GateInvariant, PTL

LEMMA OutboxTyped == OutboxSpec => []OutboxTypeOK
<1>1. OutboxInv => OutboxTypeOK
  BY DEF OutboxInv
<1> QED
  BY <1>1, OutboxSafe, PTL

LEMMA RestoresTyped == RestoresSpec => []RestoresTypeOK
<1>1. RestoreInv => RestoresTypeOK
  BY DEF RestoreInv
<1> QED
  BY <1>1, RestoresSafe, PTL

(* Every component keeps its types in the system, for all values of the     *)
(* constants: the subject's by its own theorem, the others are not asked.   *)
THEOREM TypesAlwaysOK == Spec => []TypesOK
<1>1. Spec => [](subject = "accounts" => AccountsTypeOK)
  <2>1. ~(subject = "accounts") /\ [Next]_SystemVars => ~(subject = "accounts")'
    BY OnlySubjectMoves
  <2> QED
    BY <2>1, SubjectIsAccounts, AccountsTyped, PTL DEF Spec, SystemVars
<1>2. Spec => [](subject = "grants" => GrantsTypeOK)
  <2>1. ~(subject = "grants") /\ [Next]_SystemVars => ~(subject = "grants")'
    BY OnlySubjectMoves
  <2> QED
    BY <2>1, SubjectIsSiteGrants, GrantsTyped, PTL DEF Spec, SystemVars
<1>3. Spec => [](subject = "mounts" => MountsTypeOK)
  <2>1. ~(subject = "mounts") /\ [Next]_SystemVars => ~(subject = "mounts")'
    BY OnlySubjectMoves
  <2> QED
    BY <2>1, SubjectIsMounts, MountsTyped, PTL DEF Spec, SystemVars
<1>4. Spec => [](subject = "leases" => CoreLeasesTypeOK)
  <2>1. ~(subject = "leases") /\ [Next]_SystemVars => ~(subject = "leases")'
    BY OnlySubjectMoves
  <2> QED
    BY <2>1, SubjectIsCoreLeases, CoreLeasesTyped, PTL DEF Spec, SystemVars
<1>5. Spec => [](subject = "exits" => ExitsTypeOK)
  <2>1. ~(subject = "exits") /\ [Next]_SystemVars => ~(subject = "exits")'
    BY OnlySubjectMoves
  <2> QED
    BY <2>1, SubjectIsExits, ExitsTyped, PTL DEF Spec, SystemVars
<1>6. Spec => [](subject = "rates" => CryptoRatesTypeOK)
  <2>1. ~(subject = "rates") /\ [Next]_SystemVars => ~(subject = "rates")'
    BY OnlySubjectMoves
  <2> QED
    BY <2>1, SubjectIsCryptoRates, RatesTyped, PTL DEF Spec, SystemVars
<1>7. Spec => [](subject = "invoices" => InvoicesTypeOK)
  <2>1. ~(subject = "invoices") /\ [Next]_SystemVars => ~(subject = "invoices")'
    BY OnlySubjectMoves
  <2> QED
    BY <2>1, SubjectIsCryptoInvoices, InvoicesTyped, PTL DEF Spec, SystemVars
<1>8. Spec => [](subject = "wallets" => CryptoWalletsTypeOK)
  <2>1. ~(subject = "wallets") /\ [Next]_SystemVars => ~(subject = "wallets")'
    BY OnlySubjectMoves
  <2> QED
    BY <2>1, SubjectIsCryptoWallets, WalletsTyped, PTL DEF Spec, SystemVars
<1>9. Spec => [](subject = "sweeps" => SweepsTypeOK)
  <2>1. ~(subject = "sweeps") /\ [Next]_SystemVars => ~(subject = "sweeps")'
    BY OnlySubjectMoves
  <2> QED
    BY <2>1, SubjectIsCryptoSweeps, SweepsTyped, PTL DEF Spec, SystemVars
<1>10. Spec => [](subject = "gate" => GateTypeOK)
  <2>1. ~(subject = "gate") /\ [Next]_SystemVars => ~(subject = "gate")'
    BY OnlySubjectMoves
  <2> QED
    BY <2>1, SubjectIsMaintenanceGate, GateTyped, PTL DEF Spec, SystemVars
<1>11. Spec => [](subject = "outbox" => OutboxTypeOK)
  <2>1. ~(subject = "outbox") /\ [Next]_SystemVars => ~(subject = "outbox")'
    BY OnlySubjectMoves
  <2> QED
    BY <2>1, SubjectIsOutbox, OutboxTyped, PTL DEF Spec, SystemVars
<1>12. Spec => [](subject = "restores" => RestoresTypeOK)
  <2>1. ~(subject = "restores") /\ [Next]_SystemVars => ~(subject = "restores")'
    BY OnlySubjectMoves
  <2> QED
    BY <2>1, SubjectIsRestores, RestoresTyped, PTL DEF Spec, SystemVars
<1> QED
  BY <1>1, <1>2, <1>3, <1>4, <1>5, <1>6, <1>7, <1>8, <1>9, <1>10, <1>11, <1>12,
     PTL DEF TypesOK
=============================================================================
