SPECIFICATION FairSpec
CONSTANTS
    a = a  b = b  c = c  d = d  e = e  w1 = w1  w2 = w2  w3 = w3
    Unit <- Pair
    Required = {d}
    Deps <- PairDeps
    Rank <- PolicyRank
    Worker = {w1, w2}
    MidCommit = {}
    External = {d}
    MaxAttempts = 2
    MaxQueue = 0
    MaxFaults = 1
    MaxIngests = 1
    MaxMoves = 1
    BypassDataCheck = TRUE
    Clock = {"sla"}
INVARIANTS  ClaimExclusive 
PROPERTIES AdvanceOnlyWhenReady RunTerminates
CHECK_DEADLOCK FALSE
