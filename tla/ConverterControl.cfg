CONSTANTS
    s1 = s1
    s2 = s2
    r1 = r1
    r2 = r2
    Serial = {s1, s2}
    Request = {r1, r2}
    MaxErrors = 1
    MaxStops = 1
SPECIFICATION LiveSpec
INVARIANTS StateReadable
PROPERTIES OutcomesKept ProgressSettles
CHECK_DEADLOCK FALSE
