SPECIFICATION Spec
CONSTANTS
    NSessions = 2
    w1 = w1
    w2 = w2
    Windows <- MCWindows
    Clients = {1, 2}
    NoDetach = {2}
    Options <- MCOptions
    BaseIndex = 0
    Beyond = {}
    MaxIdx = 2
    MaxLinks = 4
SYMMETRY Symmetry
INVARIANTS
    RefsExact
    CurrentAndLast
    GroupShares
    ClientsAttached
