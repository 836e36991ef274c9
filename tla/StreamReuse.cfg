SPECIFICATION LinksSpec
CONSTANTS
  Parts = {"stream"}
  Kinds = {"tcp"}
  Lengths = {0, 2, 3}
  MaxFrame = 3
  MaxFrames <- MCReuseFrames
  Reuse = TRUE
  TlsSetups <- MCTlsSetups
  TermLengths = {0, 4}
  ChunkRawBytes = 3
  MaxCapture = 12
  OscNoise <- MCOscNoise
  MarkerNoise <- MCMarkerNoise
  MaxTermFrames = 0
  MaxNoise = 0
  MaxFaults = 0
  Sessions = {"s1", "s2"}
  BridgeWorkers = {1}
  WorkerOf <- MCWorkerOf
  MaxRelays = 0
  MaxUpEvents = 0
  MaxStarts = 0
INVARIANT FramesWhole
CHECK_DEADLOCK FALSE
