SPECIFICATION FairSpec
CONSTANTS
  Tab = {t1, t2}
  u1 = u1
  u2 = u2
  k1 = k1
  k2 = k2
  User <- MCUser
  NoUser = NoUser
  Token <- MCToken
  NoToken = NoToken
  Owner <- MCOwner
  MaxReloads = 1
  MaxCalls = 1
INVARIANTS IInv SettledShowsOwner
PROPERTIES RestoreEnds
CHECK_DEADLOCK FALSE
