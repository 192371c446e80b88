SPECIFICATION Spec
CONSTANTS
    Panes = {1}
    Jobs = {11}
    Pids = {101, 102}
    Remains = {0, 2, 3}
    Pipes = {"out", "in"}
    Beyond = {}
CHECK_DEADLOCK FALSE
INVARIANT
    EventLive
