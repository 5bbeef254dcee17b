SPECIFICATION Spec
CONSTANTS
  p1 = p1
  p2 = p2
  NoId = NoId
  NoProc = NoProc
  Procs = {p1, p2}
  Targets = {1}
  MaxOrdinal = 1
  Switchable = {1}
  Unreliable = {p1, p2}
  Dynamic = {p1, p2}
  Pinned = {}
  MaxPerShard = 2
  TTL = 2
  MemberTTL = 1
  MaxWait = 1
  MaxStall = 2
  Score <- MCScore
INVARIANTS
  IdentityHeld
  NoDoubleOwnership
PROPERTIES
  ImplementsOwnership
SYMMETRY MCSymmetry
