CONSTANTS
    a = a
    b = b
    Names = {a, b}
    None = None
    FileName = file
    Calls = {1, 2}
    Queries <- MCQueries
    MaxPresses = 4
    MaxLate = 1
    MaxMarks = 1
    Markable = {"..", "name"}
    MaxLosses = 1
SPECIFICATION FairSpec
INVARIANT Agreement
INVARIANT AcceptanceIsHonoured
INVARIANT PublishedAddsKeepTheirDirectories
PROPERTY EveryPressEnds
CHECK_DEADLOCK FALSE
