CONSTANTS
    Handlers = {h1, h2}
    Statuses = {"OPEN", "INVESTIGATING", "RESOLVED", "CLOSED"}
    Terminal = {"RESOLVED", "CLOSED"}
    Severities = {sev1, sev2}
    Null = Null
    Unset = Unset
    MaxClock = 1
SPECIFICATION Spec
SYMMETRY Symmetry
INVARIANTS
    ResolvedAtConsistent
