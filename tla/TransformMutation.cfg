SPECIFICATION Spec
CONSTANTS
    p1 = p1
    p2 = p2
    A = A
    B = B
    Empty = Empty
    Imports = {"daily"}
    Modes = {"cursor", "paging"}
    Procs = {p1, p2}
    Contents = {A, B, Empty}
    RowCount <- MCRowCount
    BlankRow <- MCBlankRow
    Commands = {"run", "reset"}
    Failures = {"crash"}
    ChunkSizes = {2}
    FailPoints <- NoFailPoints
    MaxAttempts = 1
    FencesStaleCommits = FALSE
SYMMETRY ProcSymmetry
INVARIANTS
    ModesNeverInterleave
    RowsComeFromTheirDigest
    CompletedMeansWholeSource
