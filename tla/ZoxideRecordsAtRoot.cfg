SPECIFICATION RecordsSpec
CONSTANTS
    MaxBytes = 5
    MaxRows = 2
    MaxRowBytes = 2
    MaxLength = 2
    Locations = {"root"}
CHECK_DEADLOCK FALSE
INVARIANT
    ScreenMatchesSnapshot
