CONSTANTS
    p1 = p1  p2 = p2  c1 = c1  c2 = c2  k1 = k1
    NoKey = NoKey  NoWorker = NoWorker  NoJob = NoJob  NoRequest = NoRequest
    Job = {1, 2}
    Type = {"convert"}
    Key = {k1}
    CancelAware = {"convert"}
    Conversion = {"convert"}
    Proc = {p1, p2}
    WorkerId = {"converter"}
    Id <- ReplicaId
    Handles <- ConverterHandles
    Client = {c1, c2}
    Canceller = {c2}
    Posts <- KeyedPosts
    MaxCrashes = 1
    MaxDbFailures = 1
SPECIFICATION LiveSpec
INVARIANTS OneActivePerKey ClaimIsExclusive SingleExecution StrandedByFault
PROPERTIES ImplementsLifecycle JobsSettle
