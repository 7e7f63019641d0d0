CONSTANTS
    p1 = p1  p2 = p2  p3 = p3  here = here  there = there
    Procs = {p1, p2, p3}
    Machines = {here}
    Home <- OneMachine
    Ids = {1}
    Faults = {"timeout", "crash", "unwritable"}
SPECIFICATION FairSpec
INVARIANTS TypeOK MutexUntilTimeout UniqueUntilTimeout
PROPERTIES AllocEnds
