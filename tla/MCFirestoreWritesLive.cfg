CONSTANTS
    Users = {a, b}
    Refused <- SecondOfEach
    kMaxPendingWrites = 3
    MaxWrites = 3
    MaxTasks = 2
    MaxChanges = 1
    MaxFaults = 1
    MaxRestarts = 0
SPECIFICATION Spec
INVARIANT RejectionHasCause
PROPERTY EveryWriteAnswered
CHECK_DEADLOCK FALSE
