SPECIFICATION Spec
CONSTANTS
  Ids <- TwoIds
  Installations <- Moves
  MaxCommands = 3
  MaxCrashes = 1
  MaxWrites = 2
INVARIANTS
  TypeOK
  StampedIsLatest
  NewIsSound
CHECK_DEADLOCK FALSE
PROPERTIES
  NothingDestroyed
  ImportsOneExport
  
  GetsUp
