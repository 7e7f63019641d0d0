---------------------------- MODULE MCIdRecheck ----------------------------
(* Instances of IdRecheck: three artifacts, two of them in one repository. *)
EXTENDS IdRecheck, TLC

CONSTANTS a1, a2, a3

TwoRepos == a1 :> 1 @@ a2 :> 1 @@ a3 :> 2
=============================================================================
