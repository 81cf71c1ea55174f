\* Two workers and two requests on one run.
CONSTANTS
    Runs = {r1}
    Workers = {w1, w2}
    Requests = {q1, q2}
    MaxJobs = 2
    PreflightRetries = 1
    GenerateRetries = 1
    Crashes = {"worker", "web"}
    NoRun = NoRun
SPECIFICATION Spec
INVARIANTS
    ClaimsAreExclusive
    CompleteIsWhole
PROPERTIES
    ImplementsQueue
\* The system may stop: every job id is used and every run deleted.
CHECK_DEADLOCK FALSE
