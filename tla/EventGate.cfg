SPECIFICATION Spec
CONSTANTS
  send = send
  d1 = d1
  g1 = g1
  g2 = g2
  v1 = v1
  v2 = v2
  h = h
  Sends <- OneSend
  Deletes <- OneDelete
  Gates <- TwoGates
  Vetoes <- TwoVetoes
  Hooks <- OneHook
  Setups <- PairsOfRows
INVARIANTS
  TypeOK
  FuturesAreAwaited
  AskedOnce
PROPERTIES
  ImplementsInterception
  EveryRequestEnds
  QueueDrains
CHECK_DEADLOCK FALSE
