SPECIFICATION FairSpec
CONSTANTS
    Procs = {p1, p2, p3}
    Newest = 3
    MaxCrashes = 1
INVARIANT TypeOK
INVARIANT AppliedOnce
PROPERTY SchemaAsWritten
PROPERTY Starts
CHECK_DEADLOCK FALSE
