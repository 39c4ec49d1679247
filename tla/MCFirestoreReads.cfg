CONSTANTS
    Docs = {d, e}
    Denied = {e}
    Cached <- CachedUnlessDenied
    MaxGets = 2
    MaxVersion = 2
    MaxFaults = 1
SPECIFICATION Spec
INVARIANT TypeOK
INVARIANT AnsweredOnce
INVARIANT FreshAnswer
INVARIANT ResponsesCounted
INVARIANT AssertionsHold
PROPERTY EveryGetAnswered
CHECK_DEADLOCK FALSE
