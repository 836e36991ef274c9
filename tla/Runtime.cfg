SPECIFICATION RuntimeFairSpec
CONSTANTS
  Parts = {"standalone", "recorder", "service", "console"}
  MaxReqs = 3
  MaxIds = 2
  MaxEvents = 3
  MaxCalls = 3
  Blocks = {b1, b2}
  MaxQueued = 1
  RawChunks <- Keystrokes
  CookedChunks <- Pasted
  MaxChunks = 4
  MaxWaiting = 1
  MaxCaptures = 2
INVARIANTS
  LineAsTyped  TasksRunOnce DestructedOnce EventsFlushedOnce 
  BlocksHeldOnce  DestructorDrains
 
CHECK_DEADLOCK FALSE
