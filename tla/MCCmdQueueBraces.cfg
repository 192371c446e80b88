CONSTANTS
    Clients = {c1}
    Global = Global
    None = None
    InBraces = TRUE
    MaxLists = 3
    MaxJobs = 2
SPECIFICATION Spec
CHECK_DEADLOCK FALSE
PROPERTY OnlyTheSequenceStops
