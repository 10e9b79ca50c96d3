SPECIFICATION FairSpec
CONSTANTS
    N = 2
    Runners = {r1, r2}
    MaxFaults = 1
    MaxBehind = 1
INVARIANT TypeOK
INVARIANT OneRunnerPerTicket
PROPERTY HoldersKeepEnded
PROPERTY EveryTicketServed
CHECK_DEADLOCK FALSE
