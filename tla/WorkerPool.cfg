SPECIFICATION FairSpec
CONSTANTS
    MaxConcurrent = 2
    Interval = 2
    PollInterval = 1
    Memory = 4
INVARIANT TypeOK
INVARIANT RateBound
INVARIANT NoDeliveryAbandoned
PROPERTY StopEnds
PROPERTY KeepsPolling
CHECK_DEADLOCK FALSE
