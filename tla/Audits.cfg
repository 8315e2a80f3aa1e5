SPECIFICATION FairSpec
CONSTANTS
    TypeLabels <- Types
    Structural <- StructuralTypes
    Known <- AllLabels
    NoType = NoType
    Workloads = {"w1"}
    Breakable = {"w1", "labels"}
    PageSize = 2
    Backlog <- OnePullRequest
    Opened <- SomeItems
    Titles <- SomeTitles
    HandLabels = {"type:security"}
    MaxEvents = 2
INVARIANT TypeOK
INVARIANT OneOwnedIssue
INVARIANT ReportHolds
INVARIANT CleanMeansAllRead
PROPERTY AuditsSettle
