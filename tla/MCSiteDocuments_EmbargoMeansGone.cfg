\* What the code does not do: EmbargoMeansGone.
CONSTANTS
    secret = secret
    public = public
    Urls <- Pages
    Embargoes <- EmbargoOrNone
    Uploads <- EmbargoOrNone
    Runs = {r}
    Chats = {c}
    WantsFull = TRUE
    MaxJobs = 1
    MaxCalls = 1
SPECIFICATION Spec
INVARIANT EmbargoMeansGone
CHECK_DEADLOCK FALSE
