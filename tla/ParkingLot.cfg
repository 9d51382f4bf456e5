\* Four threads on one mutex and one condition; three on two of each, with crossing hashes.
CONSTANTS
    t1 = t1  t2 = t2  t3 = t3  t4 = t4  m1 = m1  m2 = m2  c1 = c1  c2 = c2
    Threads = {t1, t2, t3, t4}
    Mutexes = {m1, m2}
    Conds = {c1, c2}
    BucketOf <- Crossing
    Program <- AnyCall
    NoThread = NoThread
    NoMutex = NoMutex
    NoCond = NoCond
SPECIFICATION MCSpec
VIEW LiveState
INVARIANTS TypeOK MutualExclusion NoStrandedWaiter WordsExact NoBucketDeadlock NoDanglingQueueData
PROPERTIES ProgressWhenShared MonitorSpec
CHECK_DEADLOCK FALSE
