CONSTANTS
    x = x  y = y
    Recording = {x, y}
    UmaskStrips = TRUE
    MaxRoots = 5
    MaxStops = 2
    MaxErrors = 2
SPECIFICATION LiveSpec
INVARIANTS PhaseTruthful NeverEmptyHanded Resumable
PROPERTIES InstalledStays Converges
CHECK_DEADLOCK FALSE
