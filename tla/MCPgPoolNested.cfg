SPECIFICATION Spec
CONSTANTS
    Threads = {t1, t2, t3}
    Conns = {c1, c2, c3}
    MaxHeld = 2
INVARIANT NotAllWaiting
