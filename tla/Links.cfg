SPECIFICATION LinksFairSpec
CONSTANTS
  Parts = {"stream", "wire", "threads", "bridge"}
  Kinds = {"tcp", "tls", "pipe", "memory", "iostream"}
  Lengths = {0, 1, 2}
  MaxFrame = 1
  MaxFrames <- MCMaxFrames
  Reuse = FALSE
  TlsSetups <- MCTlsSetups
  TermLengths = {0, 4}
  ChunkRawBytes = 3
  MaxCapture = 12
  OscNoise <- MCOscNoise
  MarkerNoise <- MCMarkerNoise
  MaxTermFrames = 2
  MaxNoise = 1
  MaxFaults = 1
  Sessions = {"s1", "s2"}
  BridgeWorkers = {1}
  WorkerOf <- MCWorkerOf
  MaxRelays = 1
  MaxUpEvents = 2
  MaxStarts = 1
INVARIANTS   NoEmitAfterTeardown  NoOrphans
PROPERTIES StreamRefines  StreamsSettle TermStopsReturn RelaysEnd
CHECK_DEADLOCK FALSE
