SPECIFICATION Spec
CONSTANTS
    p1 = p1
    p2 = p2
    Panes <- MCPane
    Modes = {}
    OtherClient = FALSE
    Shared = TRUE
    Low = 1
    High = 3
    Minimum = 1
    Beyond = {"skipped"}
    MaxBytes <- MCPaneBytes
    MaxLines = 1
    MaxCommands = 2
CHECK_DEADLOCK FALSE
INVARIANT
    NeverShort
