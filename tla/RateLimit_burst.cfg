CONSTANTS
    Handlers = {h1, h2}
    Tasks = {task1}
    Users = {}
    Addresses = {address1}
    None = None
    Window = 4
    Second = 2
    ApiLimit = 1
    AuthLimit = 1
    MaxSkew = 0
    MaxLag = 2
    Faults = {}
    MaxUnread = 0
    MaxTime = 8
    MaxRequests = 3
SPECIFICATION Spec
CHECK_DEADLOCK FALSE
INVARIANT
    BurstTwice
