SPECIFICATION FairSpec
CONSTANTS
    c1 = c1
    c2 = c2
    c3 = c3
    k1 = k1
    k2 = k2
    NoConn = NoConn
    NoCall = NoCall
    Calls = {c1, c2, c3}
    Conns = {k1}
    Backend = "postgresql"
    Timed = TRUE
    NestedAudits = TRUE
    ResultFilter = TRUE
    MaxStm = 2
INVARIANTS ConnectionsConserved SuccessIsDurable
PROPERTY EveryCallReturns
