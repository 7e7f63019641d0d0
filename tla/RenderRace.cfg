SPECIFICATION Spec
CONSTANTS
    Procs = {p, q}
    NoTmp = NoTmp
    NAgents = 3
    Present = {1, 3}
    Tier <- MCTier
    Shipped <- MCShipped
    Name <- MCName
    Classes = {"reviewer", "explorer"}
    ModelValues <- MCModelValues
    Words <- MCWords
    FirstTexts <- MCFirstTexts
    EditTexts <- MCEditTexts
    Configs <- MCConfigs
    MaxEdits = 2
    MaxStarts = 2
INVARIANT TypeOK
INVARIANT FilesWhole
INVARIANT RenderedIsClean
INVARIANT CheckPredictsRender
