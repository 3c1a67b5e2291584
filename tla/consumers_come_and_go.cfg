CONSTANTS
    None = None
    Consumer = {c1, c2}
    MaxElections = 2
    MaxTurns = 2
SPECIFICATION FairSpec
INVARIANTS TypeOK ResignIsTrue UpFirstDownLast HoldsNoEmptySeat NothingOutlivesTheManager
PROPERTIES UnregisteredGoesQuiet
CHECK_DEADLOCK FALSE
