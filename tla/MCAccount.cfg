CONSTANTS
    Users = {a, b}
    None = None
    MaxAmount = 2
    MaxQueue = 2
    MaxWrites = 1
    MaxRequests = 1
    MaxForms = 2
    CanFail = TRUE
    CanExpire = TRUE
SPECIFICATION Spec
SYMMETRY Donors
INVARIANT TypeOK
INVARIANT NothingOfOthers
INVARIANT CacheIsStored
