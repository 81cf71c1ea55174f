SPECIFICATION FairSpec
CONSTANTS
    Urls = {a, b}
    MaxHttp = 1
    MaxBrowser = 1
    Delay = 1
    AllowBrowser = TRUE
    HasFirecrawl = TRUE
    MaxClock = 1
INVARIANTS
    SlotsApart
    NothingSpentOnASettledPage
    StatsAddUp
PROPERTIES
    EveryPageEnds
CHECK_DEADLOCK FALSE
