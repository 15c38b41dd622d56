CONSTANTS
    Callbacks = {c1, c2}
    MaxHandlers = 1
    Closers = {k1, k2}
    NoCallback = none
SPECIFICATION Spec
INVARIANT NoWorkAfterClose
INVARIANT AcknowledgedTruthfully
INVARIANT RoomForOwnFinalization
PROPERTY EverythingEnds
CHECK_DEADLOCK FALSE
