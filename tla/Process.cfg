SPECIFICATION FairSpec
CONSTANTS
    Containments <- AllContainments
    Failures = {"observer", "source", "sink"}
INVARIANTS
    NeverStrikesStranger
    WaitJoinsEverything
PROPERTIES
    ExitBeatsLateCancel
    WaitReturns
CHECK_DEADLOCK FALSE
