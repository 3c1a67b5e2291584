CONSTANTS
    a = a
    b = b
    c = c
    p = p
    q = q
    r = r
    None = None
    Caller = {a, b, c}
    Process = {p, q}
    Pid <- TwoInOneProcess
    Inode <- Inodes
    Reuse = FALSE
    MayFreeze = FALSE
    TakerMayDie = TRUE
    QueueTimesOut = TRUE
    MaxCrashes = 1
SPECIFICATION FairSpec
INVARIANTS TypeOK OneHolder QueueMoves
PROPERTIES OrphanIsCleared
