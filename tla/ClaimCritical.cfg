CONSTANTS
    r1 = r1  r2 = r2  r3 = r3  api = api  web = web
    Reqs = {r1, r2, r3}
    Repos = {api, web}
    Touched <- MixedTouched
    Claimed <- MixedTouched
    Pos <- InOrder
    Lex <- InOrder
    Published <- InOrder
    Leftover = {"none"}
    Faults = {"critical"}
    AutoRebaseMaxAttempts = 1
SPECIFICATION Spec
INVARIANTS CriticalBlocksMerge
