SPECIFICATION Spec
CONSTANTS
  lead = lead
  dev = dev
  User = User
  Staff <- Staffs
  Addressed <- OnlyLead
  Removable <- OnlyDev
  MaxDepth = 1
  MaxPerRoot = 20
  Careful = TRUE
  MaxTasks = 3
  MaxMessages = 2
  MaxStaged = 1
  MaxUserTurns = 1
  MaxAsks = 1
  MaxKills = 1
  MaxFails = 1
  MaxDups = 1
  MaxCrashes = 1
  MaxForeign = 1
  MaxKinds = 2
  MaxElsewhere = 1
INVARIANTS
  LockNotLeaked
  InFlightWithinFaults
  StampedBeforeDispatch
  WorkingHasOwner
CHECK_DEADLOCK FALSE
