\* See README.md, section Runs.
SPECIFICATION Spec
CONSTANTS
    Runs = {r1}
    Syncs = {s1}
    Stops = {q1}
    None = None
    MaxFaults = 1
    MaxBoots = 0
INVARIANTS
    StoppedIsOver
CHECK_DEADLOCK FALSE
