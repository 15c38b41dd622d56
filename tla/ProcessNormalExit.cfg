SPECIFICATION Spec
CONSTANTS
    Containments <- AllContainments
    Failures = {}
CHECK_DEADLOCK FALSE
INVARIANT
    NormalExitIsNoError
