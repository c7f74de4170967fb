SPECIFICATION FairSpec
CONSTANTS
    a = a  b = b  c = c  d = d  e = e  w1 = w1  w2 = w2  w3 = w3
    Unit <- Join
    Required = {d}
    Deps <- JoinDeps
    Rank <- PolicyRank
    Worker = {w1, w2}
    MidCommit = {a}
    External = {}
    MaxAttempts = 1
    MaxQueue = 0
    MaxFaults = 0
    MaxIngests = 0
    MaxMoves = 0
    BypassDataCheck = FALSE
    Clock = {"stale"}
INVARIANT TypeOK
PROPERTIES NeverRedone RunTerminates
CHECK_DEADLOCK FALSE
