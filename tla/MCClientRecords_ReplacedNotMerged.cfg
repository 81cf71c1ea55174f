\* The same instances; two uploads that cross leave rows of both.
SPECIFICATION AllSpec
CONSTANTS
    Alphabet <- TheAlphabet
    Shapes <- NoShapes
    JunkParts = {}
    Assets = {}
    CollapseMin = 3
    Tiers <- TheTiers
    Plenty = 1
    SampleThreshold = 1
    SampleSize = 2
    MaxDelay = 4
    Tracking = {"utm"}
    WrongDimensions = {"queries"}
    Limits <- TheLimits
    Decile = 2
    ExemplarLimit = 2
    UtilityNames = {"tags.xml"}
    Uploads = {u1, u2}
    Files <- TheFiles
    Sites <- TheSites
    Answers <- TheAnswers
    Replies <- TheReplies
    MaxAnswers = 2
    MaxRuns = 2
    StaticLayer1 = {"semantic-html", "roles", "labels", "aria-roles", "unique-ids"}
    DashboardKeys = {"webmcp", "web-bot-auth"}
    Findings <- TheFindings
    Markers = {m1, m2}
    Nobody = Nobody
    Labels = {"", "name"}
    Pushes <- ThePushes
    Deliveries = {d1, d2, d3}
    NoAudit = NoAudit
    MaxRetractions = 1
SYMMETRY Alike
INVARIANT
    ReplacedNotMerged
CHECK_DEADLOCK FALSE
