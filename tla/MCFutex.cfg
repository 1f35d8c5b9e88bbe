SPECIFICATION Spec
CONSTANTS
    NCPU = 1
    MAX_THREADS = 3
    NPROC = 2
    Addrs = {a1, a2}
    MAX_FUTEX_ENTRIES = 1
    NULL = NULL
INVARIANTS EntryHeld TidWaiterWoken
SYMMETRY Symmetry
CHECK_DEADLOCK FALSE
