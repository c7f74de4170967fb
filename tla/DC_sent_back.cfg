SPECIFICATION Spec
CONSTANTS
    a = a  b = b  c = c  d = d  e = e  w1 = w1  w2 = w2  w3 = w3
    Unit <- Chain
    Required = {a, d, e}
    Deps <- ChainDeps
    Rank <- PolicyRank
    Worker = {w1, w2}
    MidCommit = {}
    External = {}
    MaxAttempts = 3
    MaxQueue = 0
    MaxFaults = 0
    MaxIngests = 0
    MaxMoves = 1
    BypassDataCheck = FALSE
    Clock = {}
PROPERTY ScreeningPassedFromScreening
CHECK_DEADLOCK FALSE
