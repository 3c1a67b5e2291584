CONSTANTS
    edit = edit
    write = write
    NoAsk = 0
    Ask <- Records
    Caller = {1, 2}
    KeyOf <- TwoKeys
    Covers <- SameTool
    Answers = {"approved"}
    MaxBacklog = 1
    MaxFailures = 1
    MaxCrashes = 1
SPECIFICATION FairSpec
INVARIANTS NobodyForgotten HeardIsKept OnePrompt
PROPERTIES VerdictStands TimedAsksEnd
CHECK_DEADLOCK FALSE
