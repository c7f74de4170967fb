SPECIFICATION Spec
CONSTANTS
    a = a  b = b  c = c  d = d  e = e  w1 = w1  w2 = w2  w3 = w3
    Unit <- Table
    Required <- Table
    Deps <- TableDeps
    Rank <- PolicyRank
    Worker = {w1, w2, w3}
    MidCommit = {}
    External = {}
    MaxAttempts = 3
    MaxQueue = 0
    MaxFaults = 0
    MaxIngests = 0
    MaxMoves = 0
    BypassDataCheck = FALSE
    Clock = {}
SYMMETRY Symmetry
INVARIANT FollowupsCarried
PROPERTY KeepsThePromise
CHECK_DEADLOCK FALSE
