SPECIFICATION RmiSpec
CONSTANTS
  Parts = {"client"}
  Conns = {c1}
  NoConn = NoConn
  NumWorkers = 1
  Groups = {}
  MaxIds = 1
  MaxReqs = 1
  Drains = TRUE
  MaxRequests = 2
  Reserved = 2
  MaxEvents = 0
  MaxSessions = 2
  MaxWire = 1
INVARIANT FreshConnection
CHECK_DEADLOCK FALSE
