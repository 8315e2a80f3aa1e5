SPECIFICATION Spec
CONSTANTS
    p1 = p1
    p2 = p2
    A = A
    B = B
    Empty = Empty
    Imports = {"daily"}
    Modes = {"cursor"}
    Procs = {p1, p2}
    Contents = {Empty, A}
    RowCount <- SmallRowCount
    BlankRow <- SmallBlankRow
    Commands = {"run", "recover", "reset"}
    Failures = {"crash", "error"}
    ChunkSizes = {1}
    FailPoints <- UnknownAtChunk2
    MaxAttempts = 3
    FencesStaleCommits = TRUE
SYMMETRY ProcSymmetry
INVARIANTS
    TypeOK
    BusinessRowsMatchCheckpoints
    OnlyLatestIsUnfinished
    ResumesBehindDeliveredRows
PROPERTIES
    FinishedStaysFinished
    ImplementsExactlyOnceImport
