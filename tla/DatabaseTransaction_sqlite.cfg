SPECIFICATION Spec
CONSTANTS
    c1 = c1
    c2 = c2
    c3 = c3
    k1 = k1
    k2 = k2
    NoConn = NoConn
    NoCall = NoCall
    Calls = {c1, c2, c3}
    Conns = {k1, k2}
    Backend = "sqlite3"
    Timed = FALSE
    NestedAudits = TRUE
    ResultFilter = FALSE
    MaxStm = 2
INVARIANTS TypeOK
PROPERTIES ImplementsAtomicCalls ReturnedClean
CHECK_DEADLOCK FALSE
