\* One run, its job and a repetition of it, a chat edit, the edit form, the brief.
\* The system may stop: the job is used up and no page is there to edit.
CONSTANTS
    secret = secret
    public = public
    Urls <- Pages
    Embargoes <- EmbargoOrNone
    Uploads <- EmbargoOrNone
    Runs = {r}
    Chats = {c}
    WantsFull = TRUE
    MaxJobs = 2
    MaxCalls = 1
SPECIFICATION Spec
INVARIANTS
    EmbargoReachesEverything
    FileShowsTheRows
    EditsArePaidFor
PROPERTIES
    RevisionHoldsWhatStood
CHECK_DEADLOCK FALSE
