SPECIFICATION Spec
CONSTANTS
  A = A
  B = B
  gift = gift
  code = code
  debit = debit
  NoOrder = NoOrder
  NoPlan = NoPlan
  Orders = {o1, o2}
  Plans <- TwoPlans
  Price <- Free
  Days <- Finite
  PurchaseLimit = 0
  Credits <- NoCredit
  Codes <- NoCredit
  Value <- NoValue
  Sites = {s1}
  Limit = 4
  OrderTTL = 1
  ProvisionTTL = 1
  Horizon = 4
  MaxInterventions = 0
SYMMETRY OrderSymmetry
CHECK_DEADLOCK FALSE
INVARIANTS RefundedServesNothing
