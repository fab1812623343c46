\* See README.md, section Runs.
SPECIFICATION Spec
CONSTANTS
    Targets = {t1}
    None = None
    MaxCuts = 1
    Boxes = {b1, b2}
    EnvBox = b1
    Commands = {c1, c2}
    MaxCommands = 3
INVARIANTS
    LinksLead
    SecretsListed
    DefaultSaved
    LinkedWorks
    UnlinkedIsClean
    SecretsReachable
CHECK_DEADLOCK FALSE
