SPECIFICATION ToolSpec
CONSTANTS
  MCTargets = {1, 2, 3, 4}
  MCCollectors = {"c0", "c1", "c2"}
  MCMaxPerShard = {1, 3}
  BmcRacks = {"r1"}
  OperatorRacks = {"r2"}
  NameRack = "r1"
  DefaultHeight = "h6"
  Heights = {"h8"}
  Refreshed = TRUE
  Start = 0
  Stop = 3
  ChunkSizes = {0, 2}
  MaxRetries = 1
  MaxRows = 2
  LargeThreshold = 1
INVARIANTS
  SliceWithinCap
  SlicesCoverFleet
  OnlyFullCollectorsAreSkipped
  OutputExact
PROPERTIES
  OperatorPlacementKept
  PlacementSettles
CHECK_DEADLOCK FALSE
