CONSTANTS
    api = api
    docs = docs
    tests = tests
    Whole = Whole
    Deliverable = {api, docs, tests}
    MaxFixes = 1
    RetryLimit = 1
    Flaky <- Integrators
SPECIFICATION FairSpec
INVARIANTS WholeOfPassedParts OneWorkerPerPart
PROPERTIES ComesToRest
CHECK_DEADLOCK FALSE
