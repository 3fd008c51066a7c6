CONSTANTS
    Incidents = {1, 2}
    Starts = {1, 2}
    Statuses = {"OPEN", "RESOLVED"}
    Terminal = {"RESOLVED"}
    Filters = {"", "OPEN_ONLY"}
    Limit = 1
    Recent = 1
    Loads = {l1, l2}
    None = None
SPECIFICATION Spec
INVARIANTS
    TypeOK
    DashboardAgrees
    PageWithinTotal
    ShownFits
    WalkComplete
    PastEndCause
    LoadingAwaited
SYMMETRY Symmetry
