SPECIFICATION FairSpec
CONSTANTS
    Keys = {k1, k2}
    Workers = {w1, w2}
    Results = {r1, r2}
    NoResult = NoResult
    MaxAttempts = 2
    MaxReclaims = 1
    MaxInserts = 2
PROPERTY ImplementsOutcome
PROPERTY OutcomeProgress
INVARIANTS
    TypeOK
    Coherent
    OneWakePerSettlement
    WakeAfterSettlement
    WakeAccounted
    DeliveriesDistinct
    DeliveriesBounded
    FailsOnlyWhenSpent
CHECK_DEADLOCK FALSE
