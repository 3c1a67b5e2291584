CONSTANTS
    n1 = n1
    n2 = n2
    n3 = n3
    NoNode = NoNode
    Node <- ThreeNodes
    Version <- Upgrade
    HashRank <- Rank
    Load <- Balanced
    BootProbe = 2
    HeartbeatPeriod = 2
    MasterTimeout = 4
    MaxDelay = 0
    MaxStart = 0
    MaxStop = 0
    Timely = TRUE
    CalmBoot = TRUE
    StartMayFail = FALSE
    StopMayFail = FALSE
    Limits <- ThreeBoots
    MaxBacklog = 4
SPECIFICATION Spec
INVARIANTS SingleConsumer
