SPECIFICATION PromptSpec
CONSTANTS
    Urls = {a, b, c}
    MaxHttp = 1
    MaxBrowser = 1
    Delay = 1
    AllowBrowser = TRUE
    HasFirecrawl = FALSE
    MaxClock = 3
SYMMETRY AnyOrder
INVARIANTS RequestsApart
CHECK_DEADLOCK FALSE
