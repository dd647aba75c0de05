---------------------------- MODULE MCSubsystems ----------------------------
(* The twelve subsystems that share no state, checked side by side: a        *)
(* behaviour is one of subject's, and the others are idle, their variables *)
(* empty.  Sets of interchangeable values are {s1, s2} or {w1, w2}: only   *)
(* one subsystem moves, and none has more than two of them.                *)
EXTENDS Accounts, SiteGrants, Mounts, CoreLeases, Exits,
        CryptoRates, CryptoInvoices, CryptoWallets, CryptoSweeps,
        MaintenanceGate, Outbox, Restores, TLC

CONSTANTS s1, s2, w1, w2  \* model values

VARIABLE subject  \* the subsystem that moves

Symmetry == Permutations({s1, s2}) \union Permutations({w1, w2})
Void == <<>>
-----------------------------------------------------------------------------
NoAccounts ==
  /\ account = Void /\ hashes = Void /\ sessions = Void /\ emailTokens = Void
  /\ asked = Void /\ asking = Void /\ writer = Void
NoSiteGrants ==
  /\ member = Void /\ closed = Void /\ site = Void /\ agent = Void
  /\ wire = Void /\ localUse = Void /\ changes = Void /\ failures = Void
NoMounts ==
  /\ holder = Void /\ mount = Void /\ hostLimit = Void /\ child = Void
  /\ childCore = Void /\ requests = Void /\ results = Void /\ spent = Void
  /\ edits = Void
NoCoreLeases ==
  /\ coreKind = Void /\ coreTime = Void /\ delegate = Void /\ listed = Void
  /\ userTable = Void /\ panel = Void /\ wrapper = Void /\ untold = Void
  /\ overstay = Void
NoExits ==
  /\ resource = Void /\ node = Void /\ source = Void /\ publicOn = Void
  /\ probing = Void /\ heavy = Void
NoCryptoRates ==
  /\ moment = Void /\ paySettings = Void /\ work = Void /\ alarm = Void
  /\ invoiced = NotInvoiced
NoCryptoInvoices ==
  /\ chain = Void /\ finalHead = Void /\ forks = Void /\ broken = Void
  /\ bill = Void /\ invoices = Void /\ credits = Void /\ seen = Void
  /\ frozen = Void /\ scans = Void
NoCryptoWallets ==
  /\ cryptoWallet = Void /\ history = Void /\ allocated = Void
  /\ exporting = Void /\ backups = Void /\ born = Void /\ given = Void
  /\ charge = Void
NoCryptoSweeps ==
  /\ sweeps = Void /\ signed = Void /\ fate = Void /\ sweeping = Void
NoGate ==
  /\ fence = Void /\ alive = Void /\ group = Void /\ crew = Void
  /\ skipped = Void /\ activeWork = Void /\ visit = Void /\ inFlight = Void
  /\ collecting = Void /\ fetching = Void /\ reading = Void
  /\ acknowledged = FALSE
NoOutbox ==
  /\ notices = {} /\ bound = Void /\ usable = Void /\ sale = Void
  /\ outbox = Void /\ mailer = Void /\ handed = Void
NoRestores ==
  /\ pro = Void /\ live = Void /\ database = Void /\ spares = Void
  /\ run = 0 /\ before = Void /\ step = Void /\ todo = Void
  /\ answer = "none" /\ unsure = TRUE

Init ==
  \/ /\ subject = "accounts" /\ AccountsInit
     /\ NoSiteGrants /\ NoMounts /\ NoCoreLeases /\ NoExits /\ NoCryptoRates
     /\ NoCryptoInvoices /\ NoCryptoWallets /\ NoCryptoSweeps /\ NoGate
     /\ NoOutbox /\ NoRestores
  \/ /\ subject = "grants" /\ GrantsInit
     /\ NoAccounts /\ NoMounts /\ NoCoreLeases /\ NoExits /\ NoCryptoRates
     /\ NoCryptoInvoices /\ NoCryptoWallets /\ NoCryptoSweeps /\ NoGate
     /\ NoOutbox /\ NoRestores
  \/ /\ subject = "mounts" /\ MountsInit
     /\ NoAccounts /\ NoSiteGrants /\ NoCoreLeases /\ NoExits
     /\ NoCryptoRates /\ NoCryptoInvoices /\ NoCryptoWallets
     /\ NoCryptoSweeps /\ NoGate /\ NoOutbox /\ NoRestores
  \/ /\ subject = "leases" /\ CoreLeasesInit
     /\ NoAccounts /\ NoSiteGrants /\ NoMounts /\ NoExits /\ NoCryptoRates
     /\ NoCryptoInvoices /\ NoCryptoWallets /\ NoCryptoSweeps /\ NoGate
     /\ NoOutbox /\ NoRestores
  \/ /\ subject = "exits" /\ ExitsInit
     /\ NoAccounts /\ NoSiteGrants /\ NoMounts /\ NoCoreLeases
     /\ NoCryptoRates /\ NoCryptoInvoices /\ NoCryptoWallets
     /\ NoCryptoSweeps /\ NoGate /\ NoOutbox /\ NoRestores
  \/ /\ subject = "rates" /\ CryptoRatesInit
     /\ NoAccounts /\ NoSiteGrants /\ NoMounts /\ NoCoreLeases /\ NoExits
     /\ NoCryptoInvoices /\ NoCryptoWallets /\ NoCryptoSweeps /\ NoGate
     /\ NoOutbox /\ NoRestores
  \/ /\ subject = "invoices" /\ InvoicesInit
     /\ NoAccounts /\ NoSiteGrants /\ NoMounts /\ NoCoreLeases /\ NoExits
     /\ NoCryptoRates /\ NoCryptoWallets /\ NoCryptoSweeps /\ NoGate
     /\ NoOutbox /\ NoRestores
  \/ /\ subject = "wallets" /\ CryptoWalletsInit
     /\ NoAccounts /\ NoSiteGrants /\ NoMounts /\ NoCoreLeases /\ NoExits
     /\ NoCryptoRates /\ NoCryptoInvoices /\ NoCryptoSweeps /\ NoGate
     /\ NoOutbox /\ NoRestores
  \/ /\ subject = "sweeps" /\ SweepsInit
     /\ NoAccounts /\ NoSiteGrants /\ NoMounts /\ NoCoreLeases /\ NoExits
     /\ NoCryptoRates /\ NoCryptoInvoices /\ NoCryptoWallets /\ NoGate
     /\ NoOutbox /\ NoRestores
  \/ /\ subject = "gate" /\ GateInit
     /\ NoAccounts /\ NoSiteGrants /\ NoMounts /\ NoCoreLeases /\ NoExits
     /\ NoCryptoRates /\ NoCryptoInvoices /\ NoCryptoWallets
     /\ NoCryptoSweeps /\ NoOutbox /\ NoRestores
  \/ /\ subject = "outbox" /\ OutboxInit
     /\ NoAccounts /\ NoSiteGrants /\ NoMounts /\ NoCoreLeases /\ NoExits
     /\ NoCryptoRates /\ NoCryptoInvoices /\ NoCryptoWallets
     /\ NoCryptoSweeps /\ NoGate /\ NoRestores
  \/ /\ subject = "restores" /\ RestoresInit
     /\ NoAccounts /\ NoSiteGrants /\ NoMounts /\ NoCoreLeases /\ NoExits
     /\ NoCryptoRates /\ NoCryptoInvoices /\ NoCryptoWallets
     /\ NoCryptoSweeps /\ NoGate /\ NoOutbox

Next ==
  /\ UNCHANGED subject
  /\ \/ /\ subject = "accounts" /\ AccountsNext
        /\ UNCHANGED <<GrantsVars, MountsVars, CoreVars, ExitsVars, RatesVars,
                      InvoicesVars, WalletVars, SweepsVars, GateVars,
                      OutboxVars, RestoresVars>>
     \/ /\ subject = "grants" /\ GrantsNext
        /\ UNCHANGED <<AccountVars, MountsVars, CoreVars, ExitsVars,
                      RatesVars, InvoicesVars, WalletVars, SweepsVars,
                      GateVars, OutboxVars, RestoresVars>>
     \/ /\ subject = "mounts" /\ MountsNext
        /\ UNCHANGED <<AccountVars, GrantsVars, CoreVars, ExitsVars,
                      RatesVars, InvoicesVars, WalletVars, SweepsVars,
                      GateVars, OutboxVars, RestoresVars>>
     \/ /\ subject = "leases" /\ CoreLeasesNext
        /\ UNCHANGED <<AccountVars, GrantsVars, MountsVars, ExitsVars,
                      RatesVars, InvoicesVars, WalletVars, SweepsVars,
                      GateVars, OutboxVars, RestoresVars>>
     \/ /\ subject = "exits" /\ ExitsNext
        /\ UNCHANGED <<AccountVars, GrantsVars, MountsVars, CoreVars,
                      RatesVars, InvoicesVars, WalletVars, SweepsVars,
                      GateVars, OutboxVars, RestoresVars>>
     \/ /\ subject = "rates" /\ CryptoRatesNext
        /\ UNCHANGED <<AccountVars, GrantsVars, MountsVars, CoreVars,
                      ExitsVars, InvoicesVars, WalletVars, SweepsVars,
                      GateVars, OutboxVars, RestoresVars>>
     \/ /\ subject = "invoices" /\ InvoicesNext
        /\ UNCHANGED <<AccountVars, GrantsVars, MountsVars, CoreVars,
                      ExitsVars, RatesVars, WalletVars, SweepsVars, GateVars,
                      OutboxVars, RestoresVars>>
     \/ /\ subject = "wallets" /\ CryptoWalletsNext
        /\ UNCHANGED <<AccountVars, GrantsVars, MountsVars, CoreVars,
                      ExitsVars, RatesVars, InvoicesVars, SweepsVars,
                      GateVars, OutboxVars, RestoresVars>>
     \/ /\ subject = "sweeps" /\ SweepsNext
        /\ UNCHANGED <<AccountVars, GrantsVars, MountsVars, CoreVars,
                      ExitsVars, RatesVars, InvoicesVars, WalletVars,
                      GateVars, OutboxVars, RestoresVars>>
     \/ /\ subject = "gate" /\ GateNext
        /\ UNCHANGED <<AccountVars, GrantsVars, MountsVars, CoreVars,
                      ExitsVars, RatesVars, InvoicesVars, WalletVars,
                      SweepsVars, OutboxVars, RestoresVars>>
     \/ /\ subject = "outbox" /\ OutboxNext
        /\ UNCHANGED <<AccountVars, GrantsVars, MountsVars, CoreVars,
                      ExitsVars, RatesVars, InvoicesVars, WalletVars,
                      SweepsVars, GateVars, RestoresVars>>
     \/ /\ subject = "restores" /\ RestoresNext
        /\ UNCHANGED <<AccountVars, GrantsVars, MountsVars, CoreVars,
                      ExitsVars, RatesVars, InvoicesVars, WalletVars,
                      SweepsVars, GateVars, OutboxVars>>

Spec == Init /\ [][Next]_<<subject, AccountVars, GrantsVars, MountsVars, CoreVars,
                            ExitsVars, RatesVars, InvoicesVars, WalletVars, SweepsVars,
                            GateVars, OutboxVars, RestoresVars>>
-----------------------------------------------------------------------------
(* The type invariant of each subsystem.                                   *)
TypesOK ==
  /\ subject = "accounts" => AccountsTypeOK
  /\ subject = "grants" => GrantsTypeOK
  /\ subject = "mounts" => MountsTypeOK
  /\ subject = "leases" => CoreLeasesTypeOK
  /\ subject = "exits" => ExitsTypeOK
  /\ subject = "rates" => CryptoRatesTypeOK
  /\ subject = "invoices" => InvoicesTypeOK
  /\ subject = "wallets" => CryptoWalletsTypeOK
  /\ subject = "sweeps" => SweepsTypeOK
  /\ subject = "gate" => GateTypeOK
  /\ subject = "outbox" => OutboxTypeOK
  /\ subject = "restores" => RestoresTypeOK
=============================================================================
