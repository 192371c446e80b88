CONSTANTS
    Files = {3}
    MaxPrint = 2
    MaxReads = 1
SPECIFICATION FileSpec
INVARIANT CancelsKnown
CHECK_DEADLOCK FALSE
