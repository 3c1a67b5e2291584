CONSTANTS
    api = api
    docs = docs
    tests = tests
    Whole = Whole
    Deliverable = {api, docs, tests}
    MaxFixes = 1
    RetryLimit = 1
    Flaky <- Role
SPECIFICATION Spec
INVARIANTS WholeOfPassedParts
CHECK_DEADLOCK FALSE
