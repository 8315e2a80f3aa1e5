SPECIFICATION Spec
CONSTANTS
    p1 = p1
    p2 = p2
    Procs <- Two
    MaxSeq = 2
    MaxClock = 1
    MinElapsed = 0
    MinCompleted = 2
    BatchSizes = {2}
    Commands = {"recorded", "campaign"}
    Failures = {"crash", "clock"}
SYMMETRY Symmetry
INVARIANT FrontierIsDelivered
INVARIANT SuccessIsUnique
