SPECIFICATION ResultSpec
CONSTANTS
  MaxResults = 3
  QueueMax = 2
  MaxWorkers = 2
  Fruitless = {2}
  InflightPolls = 1
  Streams = {1, 2, 3}
  Undecryptable = {2}
  MaxPoints = 5
  MaxWrite = 3
  BatchSize = 3
  MaxBuffer = 4
  Threshold = 2
  Bad = {1, 3}
  ServerStates = {"up", "flaky", "down"}
INVARIANTS
  FinalCycleBuffered
  Accounting
  NoSilentLoss
  OnlyBadRejected
  InOrder
PROPERTIES
  ShutdownCompletes
  EventuallyStreaming
  WritesResume
