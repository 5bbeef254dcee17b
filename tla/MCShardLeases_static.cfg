SPECIFICATION Spec
CONSTANTS
  p1 = p1
  p2 = p2
  NoId = NoId
  NoProc = NoProc
  Procs = {p1, p2}
  Targets = {1, 2, 3}
  MaxOrdinal = 0
  Switchable = {1, 2}
  Unreliable = {p1, p2}
  Dynamic = {}
  Pinned = {}
  MaxPerShard = 2
  TTL = 2
  MemberTTL = 2
  MaxWait = 1
  MaxStall = 2
  Score <- MCScore
INVARIANTS
  StaticWithinCap
  StaticLeasesStayFresh
SYMMETRY MCSymmetry
