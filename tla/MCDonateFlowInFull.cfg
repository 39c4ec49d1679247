CONSTANTS
    o1 = o1
    o2 = o2
    Orgs = {o1, o2}
    None = None
    Targets <- OneTarget
    MaxAmount = 2
    MaxTips = 0
    MaxPledges = 3
    MaxCheckouts = 1
    Profiles <- PayingDonor
    FirstPledges <- OnePledge
    CanFail = FALSE
SPECIFICATION Spec
INVARIANT HandedOverInFull
CHECK_DEADLOCK FALSE
