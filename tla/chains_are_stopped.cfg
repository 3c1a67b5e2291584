CONSTANTS
    Chains = 3
    MaxActive = 2
    MaxFixes = 1
    RetryLimit = 1
    MaxCancels = 1
    Deployments <- Defaults
SPECIFICATION FairSpec
INVARIANTS TypeOK EveryPhaseHasItsWorker CapacityIsKept QueueIsServed OwnerKnowsTheEnd
PROPERTIES VerdictIsFinal NobodyIsLeftWaiting
CHECK_DEADLOCK FALSE
