\* Twelve subsystems side by side; each at the bounds the README names.
SPECIFICATION Spec
CONSTANTS
  s1 = s1
  s2 = s2
  w1 = w1
  w2 = w2
  \* Accounts
  Members = {u1}
  Mailboxes = {m1}
  Links = {s1, s2}
  Visitors = {w1, w2}
  MaxPasswords = 2
  MaxRequests = 3
  EmailRequired = FALSE
  \* SiteGrants
  Sites = {s1, s2}
  FirstQuota = 1
  Quotas = {0}
  Ceilings = {0}
  FirstGranted = 1
  LastPeriod = 2
  MaxTraffic = 1
  MaxUpsets = 1
  \* Mounts
  PlanQuota = 2
  LocalNodes = TRUE
  LastCycle = 2
  LastSequence = 2
  MaxEdits = 1
  \* CoreLeases
  MountedUsers = {u1}
  GuardGrace = 1
  LeaseTime = 1
  MaxCoreTime = 3
  MaxLeaseRevisions = 1
  \* Exits
  Slots = {r1}
  Addresses = {x1}
  Feeds = {f1}
  ImportSources = {w1, w2}
  ManualNodes = {n1}
  \* CryptoRates
  Prices = {701, 2500}
  OwnerPrices = {701}
  Step = 10
  Ages = {1}
  LowestPrice = 300
  HighestPrice = 2000
  OrderCost = 497
  Units = 10
  LastMoment = 1
  MaxRevisions = 3
  MaxWorking = 2
  \* CryptoInvoices
  TokenPrice = 2
  MaxInvoices = 2
  InvoiceWindow = 2
  ScanRange = 2
  ScanSlots = 1
  LastBlock = 3
  MaxTransfers = 1
  MaxForks = 1
  FinalityBreaks = TRUE
  \* CryptoWallets
  Panels = {pA, pB}
  Origin = pA
  IndexLimit = 2
  Networks = {"evm"}
  MaxWallets = 2
  MaxBackups = 1
  MaxSkipped = 0
  \* CryptoSweeps
  Sources = {s1, s2}
  Dry = {s1, s2}
  SweepWorkers = {w1, w2}
  MaxSweeps = 1
  FundingGas = 4
  \* MaintenanceGate
  DataWorkers = {w1, w2}
  GateVisits = {s1, s2}
  \* Outbox
  Mails = {m1}
  Inboxes = {s1, s2}
  MailWorkers = {w1, w2}
  MaxTries = 3
  MaxRounds = 1
  \* Restores
  MaxRestores = 2
SYMMETRY Symmetry
CHECK_DEADLOCK FALSE
INVARIANTS
  TypesOK
  SpentLinksWereCurrent
  ReservationCoversSite
  TrafficIsBilledOnce
  PeriodWithinQuota
  LeaseEndsService
  ExitsInUse
  InvoicesArePricedSafely
  DecidedByTheChain
  IndexGivenOnce
  WalletsIntact
  SignedCanExecute
  SweepsAgree
  FrozenIsQuiet
  MailsReachTheirOwner
  RestoreIsWhole
PROPERTIES
  IssuedWithinQuota
  StrayMoneyIsReviewed
