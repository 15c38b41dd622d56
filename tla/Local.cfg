SPECIFICATION FairSpec
CONSTANTS
    Pickers = {"cd", "cp"}
    Kinds <- SomeKinds
    Names <- ThreeNames
    BatchSize = 2
    StatWorkers = {1}
    GoMaxProcs = 2
    Failures <- AllFailures
INVARIANTS
    SuccessIsComplete
    PoolInv
PROPERTIES
    EnumerationReturns
CHECK_DEADLOCK FALSE
