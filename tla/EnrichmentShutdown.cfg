SPECIFICATION FairSpec
CONSTANTS
    Events = {e1}
    NoEvent = NoEvent
    Environment = {"fzf exits", "parent ends", "caller gone"}
INVARIANTS
    TraceTellsWhatHappened
PROPERTIES
    OnlyLaunchViewEnriched
    CleanupJoins
CHECK_DEADLOCK FALSE
