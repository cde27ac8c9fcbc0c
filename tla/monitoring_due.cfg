SPECIFICATION FairSpec
CONSTANTS
    Jobs = {j1}
    Workers = {w1}
    MaxReceive = 3
    Failures = FALSE
    Prompt = TRUE
    NoJob = NoJob
PROPERTIES DueScheduleServed
CHECK_DEADLOCK FALSE
