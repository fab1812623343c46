\* See README.md, section Runs.
SPECIFICATION Spec
CONSTANTS
    Names <- CrateNames
    Marks <- CrateMarks
    Contents = {c1, c2}
    None = None
    Torn = Torn
    ReadTicks = 2
    MaxClock = 4
    MaxEdits = 2
    MaxScans = 2
INVARIANT FilteredKeepTheirEntry
CHECK_DEADLOCK FALSE
