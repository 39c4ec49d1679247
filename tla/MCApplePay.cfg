CONSTANTS
    MaxAttempts = 2
    MaxRequests = 3
    Faults = {"lost_reply", "odd_json", "sheet_timeout"}
SPECIFICATION PaySpec
INVARIANT PayTypeOK
INVARIANT SuccessIsCharged
INVARIANT OneChargePerSheet
PROPERTY SheetNeverHangs
CHECK_DEADLOCK FALSE
