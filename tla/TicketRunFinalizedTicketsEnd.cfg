SPECIFICATION FairSpec
CONSTANTS
    Drafts = {"auto", "refund"}
    MaxSignals = 1
    MaxCrashes = 0
    MaxLostWakes = 0
PROPERTY FinalizedTicketsEnd
CHECK_DEADLOCK FALSE
