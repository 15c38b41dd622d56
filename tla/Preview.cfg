CONSTANTS
    p1 = p1
    p2 = p2
    k1 = k1
    k2 = k2
    k3 = k3
    None = none
    Procs = {p1, p2}
    Keys = {k1, k2, k3}
    Files = {1, 2, 3, 4, 5}
    MaxEntries = 1
    MaxAttempts = 2
    Candidates <- MCCandidates
    Hints = {"pdf", "zip"}
    Installed = {"file", "pdftoppm", "kitten", "chafa"}
    Pipes = {k3}
    MaxPreviews = 3
    MaxTroubles = 1
SPECIFICATION Spec
INVARIANT OnlyWholeArtefacts
INVARIANT ReturnsLeaveNothing
INVARIANT HonestTelemetry
PROPERTY EveryPreviewEnds
CHECK_DEADLOCK FALSE
