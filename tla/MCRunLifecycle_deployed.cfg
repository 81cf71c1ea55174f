\* Two runs of one site, the one worker that is deployed, crashes of both processes.
CONSTANTS
    Runs = {r1, r2}
    Workers = {w1}
    Requests = {q1}
    MaxJobs = 2
    PreflightRetries = 1
    GenerateRetries = 1
    Crashes = {"worker", "web"}
    NoRun = NoRun
SPECIFICATION Spec
SYMMETRY RunSymmetry
INVARIANTS
    TypeOK
    ReviewGate
    NoStrandedRun
    NothingWithoutARun
\* The system may stop: every job id is used and every run deleted.
CHECK_DEADLOCK FALSE
