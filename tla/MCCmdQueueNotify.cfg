CONSTANTS
    Clients = {c1}
    Global = Global
    None = None
    InBraces = FALSE
    MaxLists = 3
    MaxJobs = 1
SPECIFICATION Spec
INVARIANT NotificationsKept
CHECK_DEADLOCK FALSE
