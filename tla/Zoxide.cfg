SPECIFICATION MCSpec
CONSTANTS
    Callers = {c1, c2}
    NoCaller = NoCaller
    Failures <- AllFailures
    Policies <- BothPolicies
    MaxBytes = 5
    MaxRows = 2
    MaxRowBytes = 2
    MaxLength = 6
    Locations <- AllLocations
INVARIANTS
    OneLiveProcess
    NothingLeftBehind
    FailuresHaveAReason
    OutputDecides
    FirstsAreMerged
PROPERTIES
    CallsReturn
CHECK_DEADLOCK FALSE
