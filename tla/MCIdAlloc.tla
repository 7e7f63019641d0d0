----------------------------- MODULE MCIdAlloc -----------------------------
(* Instances of IdAlloc: two processes share a machine, a third one is      *)
(* elsewhere and reaches them only through the remote.                      *)
EXTENDS IdAlloc, TLC

CONSTANTS p1, p2, p3, here, there

TwoMachines == p1 :> here @@ p2 :> here @@ p3 :> there
OneMachine == [p \in {p1, p2, p3} |-> here]
=============================================================================
