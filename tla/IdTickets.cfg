CONSTANTS
    p1 = p1  p2 = p2  p3 = p3  here = here  there = there
    Procs = {p1, p2, p3}
    Machines = {here, there}
    Home <- TwoMachines
    Ids = {2}
    Faults = {"degraded", "crash", "symlink"}
SPECIFICATION Spec
PROPERTIES TicketSpec
