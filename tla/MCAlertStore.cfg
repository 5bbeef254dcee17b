SPECIFICATION StoreSpec
CONSTANTS
    p1 = p1
    p2 = p2
    e1 = e1
    e2 = e2
    Receives <- MCReceives
    Stopping = {p1}
    Procs = {p1, p2}
    Events = {e1, e2}
    Dated = {e1, e2}
    Streamed = {e2}
    Unstorable = {e2}
    RateLimit = 1
    QueueSize = 1
    BatchSize = 2
    KeepBatches = 1
    Workers = {w1, w2}
    Alerts = {1}
    MaxAttempts = 2
    DecodeBatch = 1
INVARIANTS
    NoSilentLoss
    StoredOnce
PROPERTIES
    AlertsLeaveMemory
    TerminalFinal
    PendingEnds
