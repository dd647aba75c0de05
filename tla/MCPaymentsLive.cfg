SPECIFICATION FairSpec
CONSTANTS
  None = None
  Orders = {o1}
  Topups = {p1}
  Txns = {t1}
  Price = 1
  Due <- MCDue
  Amounts = {1}
  Stripe = {t1}
  OrderTTL = 1
  TopupTTL = 1
  Horizon = 2
  MaxHooks = 1
  MaxCrashes = 1
CHECK_DEADLOCK FALSE
INVARIANTS CreditedOnce
PROPERTIES PaymentIsAnswered RefundGetsVerdict
