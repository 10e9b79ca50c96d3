SPECIFICATION FinalizeSpec
CONSTANTS
    Keys = {k1, k2}
    Workers = {w1, w2}
    Results = {TRUE, FALSE}
    NoResult = NoResult
    MaxAttempts = 2
    MaxReclaims = 1
    MaxInserts = 2
    RefundKeys = {k1}
SYMMETRY SlotSymmetry
INVARIANTS
    FinalizeTypeOK
    EffectsAtMostOnce
    RefundBeforeReply
    DoneMeansEffects
CHECK_DEADLOCK FALSE
