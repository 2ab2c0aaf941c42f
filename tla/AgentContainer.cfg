SPECIFICATION Spec
CONSTANTS
  prompt = prompt
  Prompts <- OnePrompt
  MaxSlots = 1
  MaxEvents = 1
  MaxFaults = 1
INVARIANTS
  TypeOK
  ArchivedStaysDown
  SlotFiresOnce
PROPERTIES
  
  GoneComesBack
  QueuedIsTaken
CHECK_DEADLOCK FALSE
