SPECIFICATION Spec
CONSTANTS
    NCPU = 1
    MAX_PROCESSES = 3
    MAX_THREADS = 3
    MaxPid = 3
    MaxHandles = 0
    PROC_WAIT_PASSES = 2
    Creators = {1, 2}
    NULL = NULL
INVARIANTS ThreadListed
CHECK_DEADLOCK FALSE
