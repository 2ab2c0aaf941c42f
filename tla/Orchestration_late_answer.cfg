SPECIFICATION Spec
CONSTANTS
  lead = lead
  dev = dev
  User = User
  Staff <- Staffs
  Addressed <- OnlyLead
  Removable <- Nobody
  MaxDepth = 1
  MaxPerRoot = 20
  Careful = FALSE
  MaxTasks = 2
  MaxMessages = 6
  MaxStaged = 2
  MaxUserTurns = 1
  MaxAsks = 1
  MaxKills = 0
  MaxFails = 0
  MaxDups = 0
  MaxCrashes = 0
  MaxForeign = 0
  MaxKinds = 2
  MaxElsewhere = 0
INVARIANT AtMostOneInFlight
CHECK_DEADLOCK FALSE
