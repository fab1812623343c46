\* See README.md, section Runs.
SPECIFICATION FairSpec
CONSTANTS
    Clients = {a, b}
    None = None
    WrongCodeLimit = 3
    MaxCodes = 2
    MaxTries = 4
    MaxUnlinks = 1
INVARIANTS
    GuessesLimited
    CodesWorkOnce
    ToldIsAuthorized
PROPERTIES
    OldCodesAreDead
    ExchangeEnds
CHECK_DEADLOCK FALSE
