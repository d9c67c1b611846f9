SPECIFICATION Spec
CONSTANTS
  p1 = p1
  p2 = p2
  k1 = k1
  k2 = k2
  NoKey = NoKey
  Payer = {p1}
  Key = {k1, k2}
  KeyOf <- NewKey
  Delivery = {d1}
  Message <- PaygateMessages
  Amount = 2
  PolicyAmounts = {0, 1}
INVARIANT OneRefundRow
CHECK_DEADLOCK FALSE
