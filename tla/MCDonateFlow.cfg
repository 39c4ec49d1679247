CONSTANTS
    o1 = o1
    o2 = o2
    Orgs = {o1, o2}
    None = None
    Targets <- TargetsHere
    MaxAmount = 2
    MaxTips = 1
    MaxPledges = 3
    MaxCheckouts = 1
    Profiles <- NewDonor
    FirstPledges <- OnePledge
    CanFail = TRUE
SPECIFICATION Spec
INVARIANT TypeOK
INVARIANT GateIsFresh
INVARIANT LoadedPledgesHandedOver
INVARIANT SavedAmountIsKept
INVARIANT RowsAreDistinct
PROPERTY OnceListsTarget
CHECK_DEADLOCK FALSE
