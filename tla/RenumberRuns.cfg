SPECIFICATION Spec
CONSTANTS
    Ids <- MCIds
    Kind <- MCKind
    IdPrefix <- MCIdPrefix
    NEntries = 4
    Slug <- MCSlug
    NoSlug = ""
    SlugPrefix <- MCSlugPrefix
    FirstNames <- MCFirstNames
    Files <- MCFiles
    NoFile = "no file"
    Home <- MCHome
    Binary = {"four"}
    FirstTexts <- MCFirstTexts
    FirstTracked <- MCFirstTracked
    Calls <- MCCalls
    EditIds = {"REQ-120"}
    MaxRuns = 2
    MaxEdits = 1
INVARIANT TypeOK
INVARIANT WholeFiles
INVARIANT AppliedIsComplete
PROPERTY RewrittenAfterMove
