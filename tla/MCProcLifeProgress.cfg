SPECIFICATION FairSpec
CONSTANTS
    NCPU = 1
    MAX_PROCESSES = 3
    MAX_THREADS = 3
    MaxPid = 4
    MaxHandles = 0
    PROC_WAIT_PASSES = 2
    Creators = {1, 2}
    NULL = NULL
PROPERTIES OrphanFreed WaitReturns
CHECK_DEADLOCK FALSE
