\* See README.md, section Runs.
SPECIFICATION FairSpec
CONSTANTS
    Boxes = {b1, b2}
    Measured = {b1}
    None = None
    Candidates <- OneAddress
    Iroh = "iroh"
    HISTORY = 1
    MaxJobs = 2
    Place <- AllAtB1
    MaxEvents = 2
    b1 = b1
INVARIANTS ToldOnce
PROPERTIES WarnsOnce ShownAgain FinishesAreTold
CHECK_DEADLOCK FALSE
