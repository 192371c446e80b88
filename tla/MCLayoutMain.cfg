SPECIFICATION Spec
CONSTANTS
    Word = 65536
    MaxPanes = 4
    WindowSizes <- MCWindowSizes
    Hints <- MCHints
    Changes <- MCChanges
    MainSizes = {3}
    OtherSizes = {0, 3}
    Customs <- MCCustoms
    Unsafe = {"main"}
INVARIANT
    Tiling
