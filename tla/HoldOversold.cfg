SPECIFICATION Spec
CONSTANTS
  b1 = b1
  b2 = b2
  b3 = b3
  none = none
  Booking = {b1, b2, b3}
  Room <- Rooms
  Equipment = {1, 2}
  VenueOf <- Venues
  Request <- Requests
  NoRequest = none
  Capacities = {1, 2}
  MaxEdits = 0
  LatePayer = {b1, b2, b3}
  Outcomes = {"PENDING_PAYMENT", "CONFIRMED", "CANCELLED"}
  RowSet <- RowSets
  Window <- Windows
SYMMETRY HoldRequests
INVARIANT EquipmentNotOversold
CHECK_DEADLOCK FALSE
