SPECIFICATION MCSpec
CONSTANTS
    t1 = t1
    t2 = t2
    Tasks = {t1, t2}
    NR_BUFFERS = 2
    Blocks <- ThreeBlocks
    MaxWrites = 2
    Calls <- TwoCalls
    Syncers = {t1}
    Errors = {"READ"}
INVARIANT ReadsLatest
