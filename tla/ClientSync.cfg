\* See README.md, section Runs.
SPECIFICATION FairSpec
CONSTANTS
    Paths <- OnePath
    Content = {1, 2, 3, 4, 5}
    Absent = 0
    Commands = {c1, c2}
    None = None
    NoFile = NoFile
    Reverts = FALSE
    MaxStarts = 3
    MaxEdits = 2
    MaxFaults = 1
INVARIANTS
    TypeOK
    AgreedIsBehind
PROPERTIES
    NeverBackwards
    CommandsEnd
CHECK_DEADLOCK FALSE
