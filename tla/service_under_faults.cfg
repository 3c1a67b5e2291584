CONSTANTS
    n1 = n1
    n2 = n2
    n3 = n3
    NoNode = NoNode
    Node <- TwoNodes
    Version <- SameBuild
    HashRank <- Rank
    Load <- Balanced
    BootProbe = 2
    HeartbeatPeriod = 3
    MasterTimeout = 9
    MaxDelay = 0
    MaxStart = 0
    MaxStop = 0
    Timely = TRUE
    CalmBoot = FALSE
    StartMayFail = FALSE
    StopMayFail = FALSE
    Limits <- NetworkAndCrash
    MaxBacklog = 4
SPECIFICATION ObservedSpec
INVARIANTS OverlapIsBrief NeverUnreadForLong NoMessageSkipped
