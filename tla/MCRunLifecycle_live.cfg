\* Nothing crashes; the worker and the requests are fair.
CONSTANTS
    Runs = {r1}
    Workers = {w1}
    Requests = {q1}
    MaxJobs = 2
    PreflightRetries = 1
    GenerateRetries = 1
    Crashes = {}
    NoRun = NoRun
SPECIFICATION FairSpec
PROPERTIES
    QueueDrains
    StagesEnd
\* The system may stop: every job id is used and every run deleted.
CHECK_DEADLOCK FALSE
