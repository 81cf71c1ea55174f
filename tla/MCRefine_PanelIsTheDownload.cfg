\* What the code does not do: PanelIsTheDownload.
CONSTANTS
    page = page
    endpoint = endpoint
    Urls <- Site
    Probes <- WithOrWithoutEndpoint
    Labels <- Mentions
    Facts = {fact}
    Turns = {t1}
    Ceiling = 2
    MaxAsked = 1
    MaxStored = 1
    MaxCalls = 1
SPECIFICATION Spec
INVARIANT PanelIsTheDownload
CHECK_DEADLOCK FALSE
