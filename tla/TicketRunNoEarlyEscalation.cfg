SPECIFICATION Spec
CONSTANTS
    Drafts = {"auto", "refund"}
    MaxSignals = 0
    MaxCrashes = 0
    MaxLostWakes = 0
INVARIANT NoEarlyEscalation
CHECK_DEADLOCK FALSE
