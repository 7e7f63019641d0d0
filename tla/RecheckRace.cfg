CONSTANTS
    a1 = a1  a2 = a2  a3 = a3
    Artifacts = {a1, a2, a3}
    NRepos = 2
    RepoOf <- TwoRepos
    FirstIds = {1}
    Faults = {"offline"}
SPECIFICATION FairSpec
INVARIANTS TypeOK DuplicatesAreRaces SuggestionIsFresh
PROPERTIES EveryonePushes
