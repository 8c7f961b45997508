CONSTANTS
    Recording = {x, y, z}
    UmaskStrips = TRUE
    MaxStops = 3
    MaxErrors = 2
SPECIFICATION LiveSpec
INVARIANTS PhaseTruthful FailedForCause
PROPERTIES Converges
CHECK_DEADLOCK FALSE
