CONSTANTS
    t1 = t1
    t2 = t2
    t3 = t3
    t4 = t4
    Threads = {t1, t2, t3, t4}
    Null = Null
    Spins = 1
SPECIFICATION FairSpec
VIEW Live
INVARIANTS TypeOK MutualExclusion QueueLock QueueExact
PROPERTIES Progress
CHECK_DEADLOCK FALSE
