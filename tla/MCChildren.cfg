SPECIFICATION Spec
CONSTANTS
    Panes = {1}
    Jobs = {11}
    Pids = {101, 102}
    Remains = {0, 2, 3}
    Pipes = {"out", "in"}
    Beyond = {"used again"}
CHECK_DEADLOCK FALSE
INVARIANTS
    StatusIsOwn
    JobResult
PROPERTIES
    PanesSettle
    JobsEnd
