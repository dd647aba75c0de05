SPECIFICATION Spec
CONSTANTS
  A = A
  B = B
  gift = gift
  code = code
  debit = debit
  NoOrder = NoOrder
  NoPlan = NoPlan
  Orders = {o1, o2, o3}
  Plans <- TwoPlans
  Price <- Free
  Days <- Finite
  PurchaseLimit = 2
  Credits <- OneGift
  Codes <- NoCredit
  Value <- GiftValue
  Sites = {s1}
  Limit = 4
  OrderTTL = 2
  ProvisionTTL = 1
  Horizon = 4
  MaxInterventions = 0
SYMMETRY OrderSymmetry
CHECK_DEADLOCK FALSE
INVARIANTS EachOrderServesOnce
PROPERTIES ServiceTimeConserved RenewalExtendsItsPlan
