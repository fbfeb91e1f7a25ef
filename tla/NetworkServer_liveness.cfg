SPECIFICATION FairSpec
CONSTANTS
    plain = plain
    ssl = ssl
    p1 = p1
    p2 = p2
    p3 = p3
    s1 = s1
    s2 = s2
    NoConn = NoConn
    Deaf = {p2}
    Acceptors = {plain, ssl}
    SSLAcceptors = {ssl}
    Conns <- MCSmallConns
    Owner <- MCSmallOwner
    MaxConn <- MCMaxConn
    GlobalMax = 2
    SizeRange = 8
PROPERTY StopReachesAll
