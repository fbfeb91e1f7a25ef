SPECIFICATION Spec
CONSTANTS
    plain = plain
    ssl = ssl
    p1 = p1
    p2 = p2
    p3 = p3
    s1 = s1
    s2 = s2
    NoConn = NoConn
    Deaf = {}
    Acceptors = {plain, ssl}
    SSLAcceptors = {ssl}
    Conns <- MCConns
    Owner <- MCOwner
    MaxConn <- MCMaxConn
    GlobalMax = 3
    SizeRange = 8
SYMMETRY Symmetry
INVARIANTS TypeOK CountsExact LimitsRespected ListedIsLive NoSilentDetach
