CONSTANTS
    Clients = {c1, c2}
    Owner = c1
    Workers = {w1}
    NoThread = NoThread
    MaxEvents = 3
    HandlerQueues = TRUE
SPECIFICATION Spec
\* A handler that queues while Drain holds the lock stops the service for
\* good (md_wait_cycle); this run checks what holds in every state reached.
CHECK_DEADLOCK FALSE
INVARIANTS NoDispatchAfterRelease
