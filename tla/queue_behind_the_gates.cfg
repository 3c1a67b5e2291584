CONSTANTS
    Chains = 3
    MaxActive = 2
    MaxFixes = 1
    RetryLimit = 1
    MaxCancels = 0
    Deployments <- Defaults
SPECIFICATION FairSpec
PROPERTIES ChainsEnd
CHECK_DEADLOCK FALSE
