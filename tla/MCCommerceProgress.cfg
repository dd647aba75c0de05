SPECIFICATION FairSpec
CONSTANTS
  A = A
  B = B
  gift = gift
  code = code
  debit = debit
  NoOrder = NoOrder
  NoPlan = NoPlan
  Orders = {o1}
  Plans <- TwoPlans
  Price <- Priced
  Days <- Finite
  PurchaseLimit = 0
  Credits <- ThreeCredits
  Codes <- NoCredit
  Value <- ThreeValues
  Sites = {s1}
  Limit = 3
  OrderTTL = 1
  ProvisionTTL = 1
  Horizon = 3
  MaxInterventions = 2
CHECK_DEADLOCK FALSE
PROPERTIES FrozenMoneyMoves RefundIsPaid ResetEnds
