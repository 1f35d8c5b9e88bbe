\* Two CPUs, smart migration.
CONSTANTS
    NCPU = 2
    MAX_THREADS = 2
    NPROC = 2
    Policy = "smart"
    Threshold = 0
    Joinable = {0, 1}
    NULL = NULL
SPECIFICATION Spec
INVARIANTS CurrentBound DeadCounted
CHECK_DEADLOCK FALSE
