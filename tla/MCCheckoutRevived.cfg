CONSTANTS
    o1 = o1
    o2 = o2
    p1 = p1
    Orgs = {o1, o2}
    Loaded = {p1}
    NoId = NoId
    NoOrg = NoOrg
    Orders <- StopOrKeep
    Profiles <- ProfilesHere
    Pledges <- PledgesHere
    MaxAttempts = 2
    MaxRequests = 2
    MaxScreens = 2
    MaxItems = 2
    Faults = {}
    CanRefuse = TRUE
    CanLeave = TRUE
    CanSignOut = FALSE
SPECIFICATION Spec
PROPERTY ChosenOrganisationsGetIt
CHECK_DEADLOCK FALSE
