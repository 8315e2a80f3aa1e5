SPECIFICATION OperatedSpec
CONSTANTS
    p1 = p1
    p2 = p2
    A = A
    B = B
    C = C
    x1 = x1
    x2 = x2
    x3 = x3
    NoRows = NoRows
    Partitions <- Three
    Workers = 2
    Contents = {A, B}
    Procs <- One
    Commands = {"run", "recover"}
    Failures = {"crash"}
    MaxMutations = 0
    MutateAlways = FALSE
PROPERTY RelaunchCompletes
