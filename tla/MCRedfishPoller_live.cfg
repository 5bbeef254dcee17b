SPECIFICATION FairSpec
CONSTANTS
  None = None
  Targets = {t1, t2}
  Switchable = {t1}
  Malformed = {t2}
  Manual = {}
  MaxConcurrent = 1
  BreakerThreshold = 1
  SseToo = FALSE
  DbErrors = TRUE
  Requests = {}
  Clients = {c1}
  Locks = {l1}
INVARIANTS
  LatestStatusWins
PROPERTIES
  EveryTargetPolled
