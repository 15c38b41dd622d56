CONSTANTS
    App = app
    Others = {other}
    Picker = "cp"
    Totals <- MCTotals
    MaxSelected = 1
    PageSize = 1
    MaxPages = 2
    ReadinessTimeout = 1
    RetryWindow = 1
    MaxCalls = 1
    MaxFaults = 2
    MaxChanges = 2
SPECIFICATION SidecarSpec
INVARIANT NoWorkAfterWait
PROPERTY RetriesAreBounded
PROPERTY LabelConverges
PROPERTY WaitsReturn
CHECK_DEADLOCK FALSE
