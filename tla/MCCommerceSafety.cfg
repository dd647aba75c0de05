SPECIFICATION Spec
CONSTANTS
  A = A
  B = B
  gift = gift
  code = code
  debit = debit
  NoOrder = NoOrder
  NoPlan = NoPlan
  Orders = {o1, o2}
  Plans <- TwoPlans
  Price <- Priced
  Days <- Finite
  PurchaseLimit = 0
  Credits <- OneCode
  Codes <- OneCode
  Value <- CodeValue
  Sites = {s1}
  Limit = 4
  OrderTTL = 1
  ProvisionTTL = 1
  Horizon = 4
  MaxInterventions = 1
SYMMETRY OrderSymmetry
CHECK_DEADLOCK FALSE
INVARIANTS HeldMatchesOrder LedgerMatchesOrder StoppedWhileSwitching QuotaOfOnePeriod
PROPERTIES WalletPromise
