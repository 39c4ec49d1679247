CONSTANTS
    o1 = o1
    o2 = o2
    p1 = p1
    Orgs = {o1, o2}
    Loaded = {p1}
    NoId = NoId
    NoOrg = NoOrg
    Orders <- AllOrders
    Profiles <- ProfilesHere
    Pledges <- PledgesHere
    MaxAttempts = 2
    MaxRequests = 2
    MaxScreens = 2
    MaxItems = 2
    Faults = {"lost_reply", "sheet_timeout"}
    CanRefuse = TRUE
    CanLeave = TRUE
    CanSignOut = TRUE
SPECIFICATION Spec
INVARIANT TypeOK
INVARIANT ShownMeansSaved
INVARIANT WritesFollowCharge
INVARIANT BucketKeptUntilSaved
INVARIANT SpinnerHasCause
INVARIANT OneAttemptAtATime
INVARIANT ShownMeansStored
PROPERTY CheckoutSettles
CHECK_DEADLOCK FALSE
