SPECIFICATION Spec
CONSTANTS
  p1 = p1
  p2 = p2
  Prompt <- OnePrompt
  Payloads <- AnyPayload
  Threads = 1
  SeenLimit = 1
  Window = 1
  MaxTurns = 1
  MaxWire = 1
  MaxFaults = 3
CHECK_DEADLOCK FALSE
PROPERTIES
  StreamEnds
  AnswerShown
