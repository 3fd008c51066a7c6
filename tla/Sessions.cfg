CONSTANTS
    Orgs = {o1, o2}
    Roles = {"owner", "member"}
    WriteRoles = {"owner"}
    Protected = {"dashboard", "projects"}
    Aheads = {0, 1}
    Ttl = 2
    None = None
    MaxClock = 2
    MaxChanges = 2
SPECIFICATION Spec
INVARIANTS
    TypeOK
    ContextHeld
    TurnedAwayForCause
    SignedOutIsShown
    LogoutHolds
PROPERTIES
    ComesToRest
