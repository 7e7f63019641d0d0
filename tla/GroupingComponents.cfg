CONSTANTS
    api = api  web = web  ios = ios
    N = 4
    Repos = {api, web, ios}
SPECIFICATION FairSpec
INVARIANTS TypeOK GroupsAreComponents
PROPERTIES Terminates
