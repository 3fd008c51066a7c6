CONSTANTS
    Handlers = {h1, h2}
    Mailboxes = {ann, bob, cid}
    Bases <- MCBases
    ProjectKeys = {key1}
    None = None
    Faults = {"crash"}
    MaxRequests = 4
SPECIFICATION FairSpec
CHECK_DEADLOCK FALSE
INVARIANTS
    TypeOK
    OneAccountPerMailbox
    RegistrationAtomic
    OnlyRacesFail
PROPERTY
    EveryRequestAnswered
