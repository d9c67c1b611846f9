SPECIFICATION RefundSpec
CONSTANTS
  p0 = p0
  p1 = p1
  p2 = p2
  p3 = p3
  b1 = b1
  b2 = b2
  none = none
  Policy = {p0, p1, p2, p3}
  Seeded = {p0}
  Booking = {b1, b2}
  NoPolicy = none
  TiersOf <- Tiers
  Rates = {15, 77}
  Moments <- Instants
  StartOf <- Start
  Duration <- Slots
  Gear <- Equipped
SYMMETRY Replacements
INVARIANTS IInv RefundWithinPrice
PROPERTIES CopyTaken OfferStands WaitingNeverPays
CHECK_DEADLOCK FALSE
