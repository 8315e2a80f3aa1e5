SPECIFICATION CampaignSpec
CONSTANTS
    p1 = p1
    A = A
    B = B
    C = C
    x1 = x1
    x2 = x2
    x3 = x3
    NoRows = NoRows
    Partitions <- Three
    Workers = 2
    Contents = {A, B, C}
    Procs <- One
    Commands = {"run", "qualify", "verify", "recover"}
    Failures = {"crash", "error", "stop"}
    MaxMutations = 2
    MutateAlways = TRUE
    Order <- ThreeInOrder
    Cases = {"operator", "before-write", "after-business-write", "mutation", "cancellation"}
INVARIANT QualifiedMeansRecordedSource
INVARIANT RaisesOnlyShortOfWorkers
PROPERTY EverythingEnds
CHECK_DEADLOCK FALSE
