SPECIFICATION FairSpec
CONSTANTS
  lead = lead
  dev = dev
  User = User
  Staff <- Staffs
  Addressed <- OnlyLead
  Removable <- Nobody
  MaxDepth = 1
  MaxPerRoot = 20
  Careful = TRUE
  MaxTasks = 1
  MaxMessages = 7
  MaxStaged = 2
  MaxUserTurns = 1
  MaxAsks = 0
  MaxKills = 1
  MaxFails = 0
  MaxDups = 0
  MaxCrashes = 0
  MaxForeign = 0
  MaxKinds = 2
  MaxElsewhere = 0
PROPERTY WorkEndsInResult
CHECK_DEADLOCK FALSE
