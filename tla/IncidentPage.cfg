CONSTANTS
    org1 = org1
    project1 = project1
    None = None
    Undecodable = Undecodable
    Handlers = {h1, h2}
    Orgs <- MCOrgs
    Projects <- MCProjects
    ProjectOrg <- MCProjectOrg
    Incidents = {inc1}
    Me = org1
    Here = inc1
    TTL = 1
    Faults = {"outage", "crash"}
    MaxClock = 1
    MaxVersion = 1
    MaxDelayed = 1
SPECIFICATION PageSpec
INVARIANTS
    PageTypeOK
    OwnUpdateShown
    ControlReturns
PROPERTIES
    EventuallyCurrent
