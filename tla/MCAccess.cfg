\* A client with two links, two requests and an export; a claim, a Google sign-in
\* and an admin's form at once.  The system may stop: time and tokens are used up.
CONSTANTS
    Domains = {d1}
    Links = {l1, l2}
    Strangers = {}
    Requests = {q1, q2}
    Exports = {e1}
    NoLink = NoLink
    NoExport = NoExport
    DefaultDays = 1
    MaxDays = 1
    Cap = 1
    ExportLife = 2
    SlotWait = 1
    RenderTimeout = 0
    Rate = 1
    Burst = 1
    MaxKeys = 1
    DaysAsked <- Default
    MaxClock = 1
    Emails = {owner, colleague}
    Allowed = {owner, colleague}
    Browsers = {b1, b2}
    NoAccount = NoAccount
    NoBrowser = NoBrowser
    NoEmail = NoEmail
    Sso = TRUE
SPECIFICATION AccessSpec
SYMMETRY Alike
INVARIANTS
    NothingAfterTheEnd
    LiveLinksBounded
    ThrottleHolds
    OwnPageOpens
    ClaimedOnce
CHECK_DEADLOCK FALSE
