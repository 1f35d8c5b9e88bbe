SPECIFICATION Spec
CONSTANTS
    Threads = {t1, t2, t3}
    Procs = {server, client}
    Servers = {server}
    Clients = {client}
    Services = {s1}
    Eps = {e1, e2}
    IPC_QUEUE_MESSAGES = 1
    IPC_MAX_SESSIONS = 2
    IPC_MAX_WAITERS = 1
    IPC_CANCEL_SLOTS = 1
    ServerNonblock = {FALSE}
    ClientNonblock = {TRUE, FALSE}
    Counts = {2}
    Waits = {"forever", "zero", "timed"}
    Ids = {i1, i2}
    Repliers = {"SERVER"}
    NULL = NULL
INVARIANTS RefsCounted Sessions CarriedCounted NoLostWakeup LateReplyDropped WaitersHeld
SYMMETRY Symmetry
CHECK_DEADLOCK FALSE
