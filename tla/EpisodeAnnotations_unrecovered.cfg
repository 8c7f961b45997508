CONSTANTS
    r1 = r1
    r2 = r2
    r3 = r3
    a = a
    b = b
    Request = {r1, r2, r3}
    Episode = {a, b}
    Ask <- AloneAsk
    Sidecar = {a}
    MaxAnswers = 1
    MaxStops = 1
    MaxErrors = 1
SPECIFICATION LiveSpec
PROPERTIES CrashRecoverable
CHECK_DEADLOCK FALSE
