CONSTANTS
    org1 = org1
    org2 = org2
    project1 = project1
    None = None
    Undecodable = Undecodable
    Handlers = {h1, h2}
    Orgs <- MCOrgs
    Projects <- MCProjects
    ProjectOrg <- MCProjectOrg
    Incidents = {inc1}
    TTL = 2
    Faults = {}
    MaxClock = 0
    MaxVersion = 1
    MaxDelayed = 1
SPECIFICATION Spec
SYMMETRY Symmetry
INVARIANTS
    AffectedKeysDeleted
