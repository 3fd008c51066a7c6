CONSTANTS
    Handlers = {h1, h2}
    Tasks = {task1, task2}
    Users = {}
    Addresses = {address1}
    None = None
    Window = 2
    Second = 2
    ApiLimit = 1
    AuthLimit = 1
    MaxSkew = 1
    MaxLag = 1
    Faults = {"outage", "timeout", "evict"}
    MaxUnread = 1
    MaxTime = 5
    MaxRequests = 3
SPECIFICATION Spec
SYMMETRY Symmetry
CHECK_DEADLOCK FALSE
INVARIANTS
    TypeOK
    WindowLimit
    CounterOutlivesWindow
    RefusalDeserved
