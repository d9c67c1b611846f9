SPECIFICATION Spec
CONSTANTS
  p1 = p1
  p2 = p2
  k1 = k1
  k2 = k2
  NoKey = NoKey
  Payer = {p1, p2}
  Key = {k1, k2}
  KeyOf <- SameKey
  Delivery = {d1, d2}
  Message <- ProviderMessages
  Amount = 2
  PolicyAmounts = {0, 1}
INVARIANTS IInv ConfirmedIsPaid OneRefundPaid ReconciledIsSettled RevenueIsKept
PROPERTIES ImplementsLifecycle
SYMMETRY SameKeySymmetry
CHECK_DEADLOCK FALSE
