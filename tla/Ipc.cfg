CONSTANTS
    Procs = {c, p}
    Creator = c
    NoProc = NoProc
    PAGE_SIZE = 4
    Counts = {1, 4}
    MaxBytes = 5
    LockThreads = {t1, t2, t3}
    LockUses = 2
    SemProcs = {q1, q2, q3}
    SemCreators = {q1, q2}
    SemFiles = {1, 2}
    SemTries = 2
    SemWaiters = {q1}
    SemInitial = 1
    SemPosts = 2
SPECIFICATION MCSpec
INVARIANTS InOrder NoSleepInVain 
PROPERTIES HangupReturns Exclusive  OpenReturns
CHECK_DEADLOCK FALSE
