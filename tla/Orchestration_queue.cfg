SPECIFICATION CooperativeSpec
CONSTANTS
  lead = lead
  dev = dev
  User = User
  Staff <- Staffs
  Addressed <- OnlyLead
  Removable <- Nobody
  MaxDepth = 1
  MaxPerRoot = 20
  Careful = TRUE
  MaxTasks = 2
  MaxMessages = 6
  MaxStaged = 2
  MaxUserTurns = 1
  MaxAsks = 0
  MaxKills = 0
  MaxFails = 0
  MaxDups = 0
  MaxCrashes = 0
  MaxForeign = 0
  MaxKinds = 2
  MaxElsewhere = 0
PROPERTY QueuedTaskCompletes
CHECK_DEADLOCK FALSE
