CONSTANTS
    Clients = {c1}
    Global = Global
    None = None
    InBraces = FALSE
    MaxLists = 4
    MaxJobs = 1
SPECIFICATION Spec
INVARIANTS WakersAreValid ErrorsStopTheirList ListsInOrder
PROPERTY SleepsWhenIdle
CHECK_DEADLOCK FALSE
