\* See README.md, section Runs.
SPECIFICATION FairSpec
CONSTANTS
    Paths <- NestedPaths
    Above <- NestedAbove
    Rank <- NestedRank
    Content = {v1, v2}
    Absent = Absent
    Dir = Dir
    Broken = Broken
    NoFile = NoFile
    None = None
    EditsWhileApplying = TRUE
    MaxSyncs = 2
    MaxEdits = 1
    MaxFaults = 1
INVARIANTS
    NeverBroken
    StuckOnlyIfDisturbed
    NoPartialsLeft
PROPERTIES
    Settles
    Recovers
CHECK_DEADLOCK FALSE
