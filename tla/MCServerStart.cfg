CONSTANTS
    Clients = {c1, c2, c3}
    Starters = {c1, c2, c3}
    None = None
    MaxFaults = 1
SPECIFICATION FairSpec
INVARIANTS OneServer ServerReachable
PROPERTY ConnectReturns
CHECK_DEADLOCK FALSE
