SPECIFICATION FairSpec
CONSTANTS
    Drafts = {"auto", "refund"}
    MaxSignals = 1
    MaxCrashes = 0
    MaxLostWakes = 1
PROPERTY TicketReachesFinalization
PROPERTY ResolvedTicketsComplete
CHECK_DEADLOCK FALSE
