CONSTANTS
    Files = {3, 4}
    MaxPrint = 1
    MaxReads = 2
SPECIFICATION FairFileSpec
INVARIANTS OutputComplete SuccessMeansSent
PROPERTIES OperationsEnd ClientsExit
CHECK_DEADLOCK FALSE
