CONSTANTS
    Procs = {p1, p2}
    Threads = {t1, t2}
    KERNEL = kernel
    Slots = {s1, s2, s3}
    Inline = {s3}
    Names = {n1}
    ENTITY_REF_MAX = 2
    ENTITY_MAX_HANDLES = 2
    ENTITY_MAX_NS_NODES = 1
    SHIFT = 1
    WIDTH = 3
    MaxEntities = 2
    NULL = NULL
SPECIFICATION Spec
INVARIANTS RefsCounted NoDangling HookOnce FreeExact ExitReleases
SYMMETRY Symmetry
CHECK_DEADLOCK FALSE
