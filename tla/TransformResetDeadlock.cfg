SPECIFICATION FairSpec
CONSTANTS
    p1 = p1
    p2 = p2
    A = A
    B = B
    Empty = Empty
    Imports = {"daily"}
    Modes = {"cursor"}
    Procs = {p1, p2}
    Contents = {Empty, A}
    RowCount <- SmallRowCount
    BlankRow <- SmallBlankRow
    Commands = {"run", "reset"}
    Failures = {}
    ChunkSizes = {1}
    FailPoints <- NoFailPoints
    MaxAttempts = 1
    FencesStaleCommits = FALSE
CHECK_DEADLOCK FALSE
PROPERTIES
    GuardIsReleased
