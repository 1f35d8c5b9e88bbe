\* One CPU, three thread slots, two processes.
CONSTANTS
    NCPU = 1
    MAX_THREADS = 3
    NPROC = 2
    Policy = "strict"
    Threshold = 0
    Joinable = {2}
    NULL = NULL
SPECIFICATION FairSpec
INVARIANTS ReapCounted NoUserAfterTeardown JoinerWoken
PROPERTIES DeadStaysDead LiveDestroyedByStaleJoin ExitedIsReaped
CHECK_DEADLOCK FALSE
