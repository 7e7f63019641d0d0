CONSTANTS
    api = api  web = web  t1 = t1  t2 = t2
    Tasks = {1, 2}
    Tiers = {0, 1}
    Repos = {api}
    Reviewers = {"security"}
    Titles = {t1}
    MAX_GATE_ITERATIONS = 3
    Faults = {"idle"}
    MaxRuns = 2
    MaxFindings = 1
SPECIFICATION FairSpec
INVARIANTS TypeOK
PROPERTIES WorkIsDue BuiltOnLowerTiers RunEnds
