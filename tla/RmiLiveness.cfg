SPECIFICATION RmiFairSpec
CONSTANTS
  Parts = {"server", "client"}
  Conns = {c1, c2}
  NoConn = NoConn
  NumWorkers = 1
  Groups = {}
  MaxIds = 1
  MaxReqs = 1
  Drains = FALSE
  MaxRequests = 3
  Reserved = 3
  MaxEvents = 1
  MaxSessions = 1
  MaxWire = 1
PROPERTIES SessionsServed StopReturns ClientSettles
CHECK_DEADLOCK FALSE
