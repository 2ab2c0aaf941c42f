SPECIFICATION Spec
CONSTANTS
  lead = lead
  dev = dev
  User = User
  Staff <- Staffs
  Removable <- Nobody
  Addressed <- Staffs
  MaxDepth = 2
  MaxPerRoot = 20
  Careful = TRUE
  MaxTasks = 2
  MaxMessages = 4
  MaxStaged = 2
  MaxUserTurns = 1
  MaxAsks = 1
  MaxKills = 0
  MaxFails = 0
  MaxDups = 0
  MaxCrashes = 0
  MaxForeign = 0
  MaxKinds = 2
  MaxElsewhere = 0
SYMMETRY Symmetry
INVARIANTS
  TypeOK
  AtMostOneInFlight
  NoQueueBehindFreeLock
  WorkingHasOwner
PROPERTY ImplementsQueue
CHECK_DEADLOCK FALSE
