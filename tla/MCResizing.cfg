SPECIFICATION Spec
CONSTANTS
    Sizes = {1, 2}
    c1 = c1
    c2 = c2
    Clients <- MCClients
    Starting <- MCStarting
    s1 = s1
    s2 = s2
    w1 = w1
    w2 = w2
    Sessions = {s1, s2}
    Windows = {w1, w2}
    Watched = w1
    WindowsOf <- MCWindowsOf
    Steered = {w1}
    Types = {"latest", "smallest"}
    None = None
    DefaultSize = 1
    Doings = {"attach", "switch", "key", "terminal", "flags", "suspend", "detach", "lost", "select", "manual", "option", "process", "control"}
    MaxChanges = 4
CHECK_DEADLOCK FALSE
INVARIANTS
    SizesFresh
    QueueLeads
PROPERTIES
    PaneDriven
    SizesSettle
