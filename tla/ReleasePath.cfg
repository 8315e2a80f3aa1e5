SPECIFICATION FairSpec
CONSTANTS
    ExactVersions <- OneExact
    NoEvidence = NoEvidence
    NoClosure = NoClosure
    NoCheckout = NoCheckout
    FaultCost = 2
    MaxCommits = 3
    Languages = {"rust"}
    Required = {"reviewed"}
    Sarifs <- SomeSarifs
    MaxScans = 2
    MaxPolls = 2
    FirstTree <- Start
    Edits = {"work", "record", "workload", "helper", "ungated"}
    Applied <- Apply
    Touches <- Touch
    MaxEvents = 3
INVARIANTS
    GateSound
    MainSound
    EvidenceSurvives
    ReleaseSound
PROPERTIES
    SoundHeadPasses
    PreflightEnds
CHECK_DEADLOCK FALSE
