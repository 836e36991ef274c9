SPECIFICATION RmiSpec
CONSTANTS
  Parts = {"server"}
  Conns = {c1}
  NoConn = NoConn
  NumWorkers = 1
  Groups = {}
  MaxIds = 1
  MaxReqs = 1
  Drains = TRUE
  MaxRequests = 0
  Reserved = 0
  MaxEvents = 0
  MaxSessions = 0
  MaxWire = 0
INVARIANT AllTornDownAfterStop
CHECK_DEADLOCK FALSE
