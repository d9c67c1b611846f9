SPECIFICATION PagesSpec
CONSTANTS
  MaxMounts = 2
  MaxPays = 2
  MaxAnswers = 2
  v1 = v1
  v2 = v2
  Venue <- MCVenue
  Defaults = Defaults
  FirstRoles <- MCRoles
  MaxSelects = 2
  MaxClicks = 2
INVARIANTS IInv RestsOnTruth SavesOwnVenue
PROPERTIES UpdatesAutomatically RemovalKeepsOthers
CHECK_DEADLOCK FALSE
