\* What the code does not do: NoStageAfterStop.
CONSTANTS
    Runs = {r1}
    Workers = {w1}
    Requests = {q1}
    MaxJobs = 3
    PreflightRetries = 2
    GenerateRetries = 1
    Crashes = {}
    NoRun = NoRun
SPECIFICATION Spec
PROPERTY NoStageAfterStop
CHECK_DEADLOCK FALSE
