SPECIFICATION Spec
CONSTANTS
    IPC_QUEUE_MESSAGES = 3
    Requests = {1, 2}
    MaxLength = 1
    NULL = NULL
INVARIANTS RingExact
PROPERTY ImplementsQueue
