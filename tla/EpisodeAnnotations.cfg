CONSTANTS
    r1 = r1
    r2 = r2
    r3 = r3
    a = a
    b = b
    Request = {r1, r2, r3}
    Episode = {a, b}
    Ask <- MCAsk
    Sidecar = {a}
    MaxAnswers = 1
    MaxStops = 1
    MaxErrors = 2
SPECIFICATION Spec
INVARIANTS AnswersFresh FileTruthful StatsCurrent DataSetKept
CHECK_DEADLOCK FALSE
