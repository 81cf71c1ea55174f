\* The same sites; what the linter says of the program's own files.
CONSTANTS
    IdentityWords <- Identity
    ContactWords <- Contact
    Openers <- Calls
    Superlatives <- Claims
    MaxTitle = 2
    MinDescription = 2
    MaxDescription = 4
    Bodies <- Body
    Inventories <- Sites
    Templates <- Kinds
    DefaultPattern = "catalog"
    Alphabet <- Names
    Copies <- Texts
    Summaries = {}
    FullAsked = {TRUE}
    MinWords = 50
    MaxSimilar = 90
    MinRepeat = 3
    RepeatThreshold = 1
    MaxSize = 60
    NoteReserve = 4
    MaxEdits = 2
    Bracketed <- Parentheses
    StrandedWords <- Stranded
    AuthWords <- Auth
    LocalePairs <- Spellings
    MinBlock = 3
    MaxShares = 3
    MinPage = 30
    MaxTokens = 50
SPECIFICATION Spec
INVARIANT
    OwnFilePasses
CHECK_DEADLOCK FALSE
