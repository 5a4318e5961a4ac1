SPECIFICATION FairSpec
CONSTANTS
    Threads = {t1, t2}
    Hosts = {h1}
    Sessions = {s1, s2}
    Ports = {22}
    Unset = Unset
    None = None
    Interrupts = 1
INVARIANTS OneUser HandedAuthenticated SessionMatchesRequest PooledClean
PROPERTY IdleConnectionEnds
