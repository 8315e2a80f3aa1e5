SPECIFICATION FairSpec
CONSTANTS
    p1 = p1
    p2 = p2
    Procs <- One
    MaxSeq = 3
    MaxClock = 3
    MinElapsed = 3
    MinCompleted = 2
    BatchSizes = {1, 2}
    Commands <- Drivers
    Failures = {"crash", "io", "child", "guard"}
INVARIANT RunsOnceInOrder
INVARIANT AcceptedMeansDelivered
INVARIANT DisagreementLosesNothing
PROPERTY ImplementsLedger
PROPERTY CampaignEnds
