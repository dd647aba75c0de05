SPECIFICATION Spec
CONSTANTS
  None = None
  Orders = {o1}
  Topups = {}
  Txns = {t1}
  Price = 2
  Due <- MCDue
  Amounts = {1, 2}
  Stripe = {t1}
  OrderTTL = 1
  TopupTTL = 1
  Horizon = 2
  MaxHooks = 1
  MaxCrashes = 0
CHECK_DEADLOCK FALSE
INVARIANTS PaidOrderIsNotExpired
