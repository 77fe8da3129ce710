CONSTANTS
    Clients = {c1, c2}
    Owner = c1
    Workers = {w1}
    NoThread = NoThread
    MaxEvents = 3
    HandlerQueues = FALSE
SPECIFICATION Spec
INVARIANTS TypeOK NoDispatchAfterRelease
PROPERTIES  ImplementsEventService
