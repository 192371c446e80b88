CONSTANTS
    Clients = {c1, c2}
    Global = Global
    Channels = {a, b}
SPECIFICATION Spec
SYMMETRY Symmetry
INVARIANTS WaitersOnce NothingLost NoNeedlessWait MutualExclusion
