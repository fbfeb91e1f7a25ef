SPECIFICATION FairSpec
CONSTANTS
    t1 = t1
    t2 = t2
    t3 = t3
    t4 = t4
    o1 = o1
    o2 = o2
    Threads = {t1, t2, t3, t4}
    Objects = {o1, o2}
INVARIANTS Conservation NoLostWakeup
PROPERTY ObjectNotIdle
