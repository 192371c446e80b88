CONSTANTS
    Clients = {c1, c2}
    Global = Global
    None = None
    InBraces = FALSE
    MaxLists = 2
    MaxJobs = 2
SPECIFICATION FairSpec
INVARIANTS RefsExact FreeIsSafe
PROPERTY QueuesDrain
CHECK_DEADLOCK FALSE
