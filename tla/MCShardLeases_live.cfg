SPECIFICATION FairSpec
CONSTANTS
  p1 = p1
  p2 = p2
  NoId = NoId
  NoProc = NoProc
  Procs = {p1, p2}
  Targets = {1, 2}
  MaxOrdinal = 0
  Switchable = {}
  Unreliable = {p1}
  Dynamic = {p1, p2}
  Pinned = {p1, p2}
  MaxPerShard = 2
  TTL = 1
  MemberTTL = 1
  MaxWait = 0
  MaxStall = 1
  Score <- MCScore
PROPERTIES
  EnabledTargetsCovered
