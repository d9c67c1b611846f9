SPECIFICATION FairSpec
CONSTANTS
  p1 = p1
  k1 = k1
  d1 = d1
  d2 = d2
  NoKey = NoKey
  Payer = {p1}
  Key = {k1}
  KeyOf <- OneKey
  Delivery = {d1, d2}
  Message <- ProviderMessages
  Amount = 2
  PolicyAmounts = {0, 1}
  BatchSize = 2
  Backlogs = {1}
PROPERTIES PendingResolves RefundsArePaid DeliveredSuccessSettles
CHECK_DEADLOCK FALSE
