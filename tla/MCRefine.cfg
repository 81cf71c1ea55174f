\* Two requests in flight, a site that is checked again, an edit that is discarded.
\* The system may stop: all calls are made.
CONSTANTS
    page = page
    endpoint = endpoint
    Urls <- Site
    Probes <- WithOrWithoutEndpoint
    Labels <- Mentions
    Facts = {fact}
    Turns = {t1, t2}
    Ceiling = 1
    MaxAsked = 1
    MaxStored = 2
    MaxCalls = 3
SPECIFICATION Spec
SYMMETRY TurnsAlike
INVARIANTS
    NothingAskedIsLost
    FactsFollowTheOperations
    EvidenceBacksTheFile
    OvershootIsBounded
    EveryCallIsOnRecord
CHECK_DEADLOCK FALSE
