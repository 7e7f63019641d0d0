CONSTANTS
    r1 = r1  r2 = r2  r3 = r3  api = api  web = web
    Reqs = {r2, r3}
    Repos = {api, web}
    Touched <- PairTouched
    Claimed <- PairTouched
    Pos <- PairOrder
    Lex <- PairOrder
    Published <- PairOrder
    Leftover = {"none", "OPEN", "MERGED"}
    Faults = {"partial", "throw", "outside"}
    AutoRebaseMaxAttempts = 1
SPECIFICATION Spec
INVARIANTS MergedIsTrue
PROPERTIES LedgerSpec
