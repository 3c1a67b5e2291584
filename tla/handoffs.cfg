CONSTANTS
    n1 = n1
    n2 = n2
    n3 = n3
    NoNode = NoNode
    Node <- TwoNodes
    Version <- Upgrade
    HashRank <- Rank
    Load <- Overloaded
    BootProbe = 2
    HeartbeatPeriod = 3
    MasterTimeout = 9
    MaxDelay = 0
    MaxStart = 0
    MaxStop = 1
    Timely = TRUE
    CalmBoot = TRUE
    StartMayFail = FALSE
    StopMayFail = FALSE
    Limits <- Departures
    MaxBacklog = 4
SPECIFICATION Spec
INVARIANTS SingleConsumer ResignIsHonest
PROPERTIES ReadInTurns StopIsFinal
