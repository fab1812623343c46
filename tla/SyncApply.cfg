\* See README.md, section Runs.
SPECIFICATION Spec
CONSTANTS
    Paths <- NestedPaths
    Above <- NestedAbove
    Rank <- NestedRank
    Content = {v1, v2}
    Absent = Absent
    Dir = Dir
    Broken = Broken
    NoFile = NoFile
    None = None
    EditsWhileApplying = FALSE
    MaxSyncs = 2
    MaxEdits = 1
    MaxFaults = 2
INVARIANTS
    TypeOK
    BackupsHold
PROPERTIES
    RolledBackIsWhole
    AppliedAtomically
CHECK_DEADLOCK FALSE
