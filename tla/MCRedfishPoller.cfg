SPECIFICATION Spec
CONSTANTS
  None = None
  Targets = {t1}
  Switchable = {t1}
  Malformed = {}
  Manual = {t1}
  MaxConcurrent = 1
  BreakerThreshold = 1
  SseToo = TRUE
  DbErrors = TRUE
  Requests = {m1, m2}
  Clients = {c1, c2, c3}
  Locks = {l1, l2, l3}
SYMMETRY Names
VIEW ClientView
INVARIANTS
  NoClientLeak
  OneClientPerTarget
