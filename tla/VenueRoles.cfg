CONSTANTS
  v1 = v1  v2 = v2  v3 = v3
  root = root  boss = boss  guest = guest  fresh = fresh
  x1 = x1  x2 = x2  e1 = e1  e2 = e2
  None = None
  Venue = {v1, v2, v3}
  User = {root, boss, guest, fresh}
  Room = {x1, x2}
  Equipment = {e1, e2}
  Request = {q1, q2}
  Setting = {"weekdays", "always"}
  Minutes = {1, 2}
  DefaultLimits <- DefaultLimitsMC
  Grant <- GrantMC
  OpenVenues = {v1, v2}
  KnownUsers = {root, boss, guest}
  InitialRoles <- InitialRolesMC
  InitialRoom <- InitialRoomMC
  InitialEquipment <- InitialEquipmentMC
SYMMETRY RequestSymmetry
SPECIFICATION Spec
CHECK_DEADLOCK FALSE
PROPERTY ReplacedCompletely
