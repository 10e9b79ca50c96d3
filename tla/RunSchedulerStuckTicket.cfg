SPECIFICATION FairSpec
CONSTANTS
    N = 2
    Runners = {r1}
    MaxFaults = 0
    MaxBehind = 0
PROPERTY StuckTicketBlocksNoOther
CHECK_DEADLOCK FALSE
