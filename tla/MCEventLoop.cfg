CONSTANTS
    Events = {e1, e2}
    Signals = {s1}
    MaxCalls = 6
SPECIFICATION FairSpec
INVARIANTS NoDangling NothingStale SignalsWake
PROPERTY EventsHappen
CHECK_DEADLOCK FALSE
