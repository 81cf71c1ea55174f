SPECIFICATION Spec
CONSTANTS
    Urls = {a}
    MaxHttp = 1
    MaxBrowser = 1
    Delay = 0
    AllowBrowser = TRUE
    HasFirecrawl = FALSE
    MaxClock = 0
INVARIANTS JsFindingIsEarned
CHECK_DEADLOCK FALSE
