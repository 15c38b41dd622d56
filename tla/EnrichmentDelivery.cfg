SPECIFICATION FairSpec
CONSTANTS
    Events = {e1, e2}
    NoEvent = NoEvent
    Environment = {"fzf exits", "lost finalization", "load timeout"}
INVARIANTS
    GateExclusion
    ViewIsCurrent
PROPERTIES
    ReleasedWhenShown
    EventsProceed
CHECK_DEADLOCK FALSE
