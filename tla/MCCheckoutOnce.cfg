CONSTANTS
    o1 = o1
    o2 = o2
    p1 = p1
    Orgs = {o1, o2}
    Loaded = {p1}
    NoId = NoId
    NoOrg = NoOrg
    Orders <- AllOrders
    Profiles <- ProfilesHere
    Pledges <- PledgesHere
    MaxAttempts = 1
    MaxRequests = 1
    MaxScreens = 1
    MaxItems = 2
    Faults = {}
    CanRefuse = FALSE
    CanLeave = FALSE
    CanSignOut = FALSE
SPECIFICATION Spec
INVARIANT DonateOnceIsNoPledge
CHECK_DEADLOCK FALSE
