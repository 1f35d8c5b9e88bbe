\* Two CPUs with the shipped StrictProcessSeparation.
CONSTANTS
    NCPU = 2
    MAX_THREADS = 3
    NPROC = 2
    Policy = "strict"
    Threshold = 0
    Joinable = {0, 1, 2}
    NULL = NULL
SPECIFICATION Spec
INVARIANTS StackExclusive
CHECK_DEADLOCK FALSE
