SPECIFICATION Spec
CONSTANTS
    p1 = p1
    p2 = p2
    Panes <- MCPanes
    Modes = {"off", "NOOUTPUT", "link", "respawn"}
    OtherClient = FALSE
    Shared = TRUE
    Low = 1
    High = 3
    Minimum = 1
    Beyond = {}
    MaxBytes <- MCMaxBytes
    MaxLines = 1
    MaxCommands = 1
CHECK_DEADLOCK FALSE
INVARIANTS
    BlocksMatch
PROPERTIES
    KeepsPromise
    OutputEnds
