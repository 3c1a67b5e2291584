CONSTANTS
    n1 = n1
    n2 = n2
    n3 = n3
    NoNode = NoNode
    Node <- TwoNodes
    Version <- SameBuild
    HashRank <- Rank
    Load <- Balanced
    BootProbe = 2
    HeartbeatPeriod = 2
    MasterTimeout = 6
    MaxDelay = 0
    MaxStart = 0
    MaxStop = 1
    Timely = TRUE
    CalmBoot = FALSE
    StartMayFail = FALSE
    StopMayFail = FALSE
    Limits <- Setbacks
    MaxBacklog = 4
SPECIFICATION FairSpec
INVARIANTS ConsumerOnlyUnderTenure
PROPERTIES SurfaceEndsUpWithOneReader
