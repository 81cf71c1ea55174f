SPECIFICATION Spec
CONSTANTS
    Alphabet <- TheAlphabet
    Shapes <- TheShapes
    JunkParts = {"tag"}
    Assets = {"doc.pdf"}
    CollapseMin = 3
    Tiers <- TheTiers
    Plenty = 1
    SampleThreshold = 1
    SampleSize = 1
    MaxDelay = 4
    Sites <- TheSites
    Conventional <- TheConventional
    Numbered = {"1"}
    NameSize <- TheNames
    Batch = 2
    MaxSitemaps = 5
    MaxDepth = 1
    Answers <- TheAnswers
    Replies <- SomeReplies
    Ceilings = {0, 2}
    Configured = 3
    Embargoes <- TheEmbargoes
INVARIANTS
    WalkIsWhole
    FetchesOnlyWhatItMay
    OnlyTheReviewLeavesPagesOut
