\* See README.md, section Runs.
SPECIFICATION FairSpec
CONSTANTS
    AtProject = {p1}
    AtHome = {h1, h2}
    Stops = {q1}
    Unlinks = {u1}
    Others = {o1}
    None = None
    MaxFaults = 1
INVARIANTS
    OneHomeSession
    LivingIsListed
    UnlinkWaits
PROPERTIES
    AttachAnswered
CHECK_DEADLOCK FALSE
