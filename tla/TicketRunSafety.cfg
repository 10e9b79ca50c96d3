SPECIFICATION Spec
CONSTANTS
    Drafts = {"auto", "low_confidence", "refund"}
    MaxSignals = 2
    MaxCrashes = 1
    MaxLostWakes = 0
INVARIANT TypeOK
INVARIANT RefundNeedsApproval
INVARIANT ExclusiveDispatch
INVARIANT AwaitedTaskExists
INVARIANT DecisionNotReversed
INVARIANT ResolvedMeansFinalized
PROPERTY ImplementsTicketLife
CHECK_DEADLOCK FALSE
