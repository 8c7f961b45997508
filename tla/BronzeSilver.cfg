CONSTANTS
    s1 = s1  s2 = s2
    Serial = {s1, s2}
    Place = {1, 2}
    Limit = {1}
    NoRow = NoRow
    MaxArrivals = 3
    MaxRollbacks = 2
SPECIFICATION LiveSpec
INVARIANTS NothingLost ReadyTruthful TrackedUnlessUndone
PROPERTIES UndoneMovesTakenOver
CHECK_DEADLOCK FALSE
