SPECIFICATION Spec
CONSTANTS
  p1 = p1
  p2 = p2
  NoId = NoId
  NoProc = NoProc
  Procs = {p1, p2}
  Targets = {1}
  MaxOrdinal = 1
  Switchable = {}
  Unreliable = {p1, p2}
  Dynamic = {p1, p2}
  Pinned = {}
  MaxPerShard = 2
  TTL = 2
  MemberTTL = 1
  MaxWait = 1
  MaxStall = 9
  Score <- MCScore
PROPERTIES
  FreshSlotKept
  FreshLeaseKept
SYMMETRY MCSymmetry
