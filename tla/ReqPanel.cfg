CONSTANTS
    api = api  web = web  t1 = t1  t2 = t2
    Tasks = {1}
    Tiers = {0, 1}
    Repos = {api}
    Reviewers = {"correctness", "security"}
    Titles = {t1, t2}
    MAX_GATE_ITERATIONS = 1
    Faults = {"null"}
    MaxRuns = 2
    MaxFindings = 1
SPECIFICATION Spec
INVARIANTS BlockingNeverVanishes AnswerReaches
