CONSTANTS
    Clients = {c1, c2, c3}
    Starters = {c1, c2, c3}
    None = None
    MaxFaults = 1
SPECIFICATION Spec
INVARIANT HeldMeansStarting
CHECK_DEADLOCK FALSE
