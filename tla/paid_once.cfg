CONSTANTS
    j1 = j1
    j2 = j2
    model = model
    None = None
    Job = {j1, j2}
    ModelOf <- OneModel
    MaxJobs = {1, 2}
    Ends = {"completed"}
    MaxBacklog = 1
    MaxFailures = 1
    MaxCrashes = 1
SPECIFICATION FairSpec
INVARIANTS PaidOnce HeardIsKept
PROPERTIES OutcomeStands CalledOffInTime JobsEnd
