SPECIFICATION FairSpec
CONSTANTS
    Calls = {c1, c2}
    NoCall = NoCall
    MaxGeneration = 2
INVARIANTS
    ActorInv
PROPERTIES
    ImplementsPromise
    RetiredNeverPublished
    NobodyIsStuck
CHECK_DEADLOCK FALSE
