CONSTANTS
    Clients = {c1, c2}
    Owner = c1
    Workers = {w1}
    NoThread = NoThread
    MaxEvents = 3
    HandlerQueues = TRUE
SPECIFICATION Spec
INVARIANTS NoWaitCycle
