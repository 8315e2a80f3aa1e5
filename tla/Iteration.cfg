SPECIFICATION FairIterationSpec
CONSTANTS
    p1 = p1
    p2 = p2
    A = A
    B = B
    Empty = Empty
    Verifier = Verifier
    Imports = {"daily"}
    Modes = {"cursor", "paging"}
    Procs = {p1, p2}
    Contents = {Empty, A, B}
    RowCount <- MCRowCount
    BlankRow <- MCBlankRow
    Commands = {"run", "recover"}
    Failures = {"crash", "error"}
    ChunkSizes = {1}
    FailPoints <- CrashPoints
    MaxAttempts = 2
    FencesStaleCommits = FALSE
    Failing = {"observer", "timeout", "marker", "source"}
    Plans = {"Clean", "BeforeCommit", "AfterCommit"}
    Canonical = A
    CrashChunk = 2
    ChunkSize = 1
CHECK_DEADLOCK FALSE
PROPERTIES
    RelaunchChangesNothing
    IterationEndsAndReleases
INVARIANTS
    AcceptedMeansRecovered
    NoSurvivor
