CONSTANTS
    MAX_THREADS = 2
    Bare = {b1, b2}
    b1 = b1
    b2 = b2
    NULL = NULL
SPECIFICATION FairSpec
INVARIANTS RwExclusion NoPanic NoLostWakeup
PROPERTIES SleepersWoken
