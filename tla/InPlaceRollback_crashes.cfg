CONSTANTS
    f1 = f1  f2 = f2
    File <- TwoFiles
    Job = {1, 2, 3}
    Op <- MCOp
    NoDir = NoDir  NoJob = NoJob
    MaxFaults = 3
SPECIFICATION Spec
INVARIANTS Recoverable CompletedEditsStay StampedOnce
PROPERTIES ImplementsAtomicEdit
CHECK_DEADLOCK FALSE
