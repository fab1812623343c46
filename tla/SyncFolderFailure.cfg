\* See README.md, section Runs.
SPECIFICATION Spec
CONSTANTS
    Paths <- NestedPaths
    Above <- NestedAbove
    Rank <- NestedRank
    Content = {v1}
    Absent = Absent
    Dir = Dir
    Broken = Broken
    NoFile = NoFile
    None = None
    EditsWhileApplying = FALSE
    MaxSyncs = 2
    MaxEdits = 1
    MaxFaults = 0
INVARIANTS
    FailureRestores
CHECK_DEADLOCK FALSE
