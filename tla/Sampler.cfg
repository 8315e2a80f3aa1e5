SPECIFICATION Spec
CONSTANTS
    Plans = {"clean", "crash"}
    Failures = {"execution", "probe", "sampler"}
    MaxPeriodic = 2
INVARIANT SuccessIsFullySampled
INVARIANT PeriodicNamesLatestRole
INVARIANT SamplerFailureIsReported
PROPERTY IterationEnds
