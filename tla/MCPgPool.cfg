SPECIFICATION FairSpec
CONSTANTS
    Threads = {t1, t2, t3, t4}
    Conns = {c1, c2}
    MaxHeld = 1
INVARIANTS
    NoLostWakeup
    NotAllWaiting
    WaitsOnlyForHolders
PROPERTIES
    ImplementsConnPool
    SleepersGetConnections
