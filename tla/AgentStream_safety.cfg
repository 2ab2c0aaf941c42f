SPECIFICATION Spec
CONSTANTS
  p1 = p1
  p2 = p2
  Prompt <- TwoPrompts
  Payloads <- ClaudeAndCodex
  Threads = 1
  SeenLimit = 1
  Window = 1
  MaxTurns = 3
  MaxWire = 1
  MaxFaults = 1
INVARIANTS
  TypeOK
  NoParallelRun
  KilledMeansLost
  LiveTurnStaysOpen
CHECK_DEADLOCK FALSE
PROPERTIES
  ImplementsReplies
