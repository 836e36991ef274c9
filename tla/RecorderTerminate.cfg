SPECIFICATION RuntimeSpec
CONSTANTS
  Parts = {"recorder"}
  MaxReqs = 0
  MaxIds = 0
  MaxEvents = 2
  MaxCalls = 1
  Blocks = {}
  MaxQueued = 1
  RawChunks <- Keystrokes
  CookedChunks <- Pasted
  MaxChunks = 4
  MaxWaiting = 1
  MaxCaptures = 0
INVARIANT ClientRecorderSurvives
CHECK_DEADLOCK FALSE
