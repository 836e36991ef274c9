SPECIFICATION RuntimeSpec
CONSTANTS
  Parts = {"standalone"}
  MaxReqs = 2
  MaxIds = 1
  MaxEvents = 0
  MaxCalls = 0
  Blocks = {}
  MaxQueued = 1
  RawChunks <- Keystrokes
  CookedChunks <- Pasted
  MaxChunks = 4
  MaxWaiting = 1
  MaxCaptures = 0
INVARIANT DrainedOnExit
CHECK_DEADLOCK FALSE
