SPECIFICATION RmiSpec
CONSTANTS
  Parts = {"server", "client"}
  Conns = {c1, c2}
  NoConn = NoConn
  NumWorkers = 1
  Groups = {1}
  MaxIds = 2
  MaxReqs = 3
  Drains = TRUE
  MaxRequests = 2
  Reserved = 1
  MaxEvents = 2
  MaxSessions = 2
  MaxWire = 1
SYMMETRY ConnSymmetry
INVARIANTS
  TypeOK TornDownOnce DestructedOnce GroupsReachTheirObjects AnsweredOnce
  PromisesSetOnce NoFutureForgotten EventsInOrder
CHECK_DEADLOCK FALSE
