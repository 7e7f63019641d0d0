------------------------------- MODULE Tickets -------------------------------
(***************************************************************************)
(* What the id allocator promises on one machine: whoever asks gets, at    *)
(* most once, a number larger than every number handed out there before.   *)
(***************************************************************************)
EXTENDS Naturals

CONSTANTS Procs, Machines, Home

VARIABLE ticket     \* process -> its number, 0 as long as it has none

Init == ticket = [p \in Procs |-> 0]

Issue(p) ==
    /\ ticket[p] = 0
    /\ ticket'[p] \in Nat
    /\ \A q \in Procs : Home[q] = Home[p] => ticket[q] < ticket'[p]
    /\ ticket' = [ticket EXCEPT ![p] = ticket'[p]]

Next == \E p \in Procs : Issue(p)

Spec == Init /\ [][Next]_ticket
=============================================================================
