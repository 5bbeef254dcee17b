SPECIFICATION FairSpec
CONSTANTS
    e1 = e1
    e2 = e2
    e3 = e3
    p1 = p1
    p2 = p2
    Procs = {p1, p2}
    Events = {e1, e2, e3}
    Created <- MCCreated
    Form <- MCForm
    Unwanted = {}
    NewestFirst = TRUE
    MaxEntries = 2
INVARIANTS
    CursorPassesOnlyRead
PROPERTIES
    EntriesEventuallyRead
