CONSTANTS
    Users = {a, b}
    Refused <- FirstOfEach
    kMaxPendingWrites = 2
    MaxWrites = 3
    MaxTasks = 2
    MaxChanges = 2
    MaxFaults = 1
    MaxRestarts = 1
SPECIFICATION SafeSpec
SYMMETRY Accounts
INVARIANT TypeOK
INVARIANT PipelineIsPrefix
INVARIANT AssertionsHold
INVARIANT HandlerHasBatch
INVARIANT AnswersInOrder
INVARIANT OwnCredentials
INVARIANT Converged
PROPERTY ImplementsWriteQueue
CHECK_DEADLOCK FALSE
