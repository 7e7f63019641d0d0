CONSTANTS
    r1 = r1  r2 = r2  r3 = r3  api = api  web = web
    Reqs = {r1, r2, r3}
    Repos = {api, web}
    Touched <- MixedTouched
    Claimed <- MixedTouched
    Pos <- InOrder
    Lex <- ReverseLex
    Published <- InOrder
    Leftover = {"none"}
    Faults = {"throw"}
    AutoRebaseMaxAttempts = 1
SPECIFICATION FairSpec
INVARIANTS TypeOK SerialOverClaimedRepos
PROPERTIES CrossRepoWaitsForBarrier HaltSurvives ResumedBehindCleared EveryHeldIsTried SprintEnds
