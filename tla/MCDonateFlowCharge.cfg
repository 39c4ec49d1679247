CONSTANTS
    o1 = o1
    o2 = o2
    Orgs = {o1, o2}
    None = None
    Targets <- OneTarget
    MaxAmount = 2
    MaxTips = 1
    MaxPledges = 3
    MaxCheckouts = 1
    Profiles <- NewDonor
    FirstPledges <- NoPledges
    CanFail = FALSE
SPECIFICATION Spec
INVARIANT MonthlyIsCharged
CHECK_DEADLOCK FALSE
