CONSTANTS
    Task = {"t1", "t2"}
    Scene <- TwoTaskScenes
    None = None
    MaxCrashes = 2
    MaxConversions = 1
SPECIFICATION LiveSpec
INVARIANTS NothingRemoved ReceiptTruthful
PROPERTIES EntriesKept RecoveryConverges
CHECK_DEADLOCK FALSE
