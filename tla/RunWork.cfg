\* See README.md, section Runs.
SPECIFICATION FairSpec
CONSTANTS
    Runs = {r1, r2}
    Syncs = {s1}
    Stops = {q1}
    None = None
    MaxFaults = 1
    MaxBoots = 1
INVARIANTS
    TypeOK
    RunOwnsCopy
    StopKills
PROPERTIES
    RecordsSettle
CHECK_DEADLOCK FALSE
