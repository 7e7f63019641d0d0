--------------------------- MODULE MCSprintEngine ---------------------------
(* Instances of SprintEngine: two or three REQs over two repositories. *)
EXTENDS SprintClaims, TLC

CONSTANTS r1, r2, r3, api, web

\* One self-merging REQ and two cross-repo REQs that share a repository.
MixedTouched == r1 :> {api} @@ r2 :> {api, web} @@ r3 :> {api, web}

\* Two cross-repo REQs in the same repositories.
PairTouched == [r \in {r2, r3} |-> {api, web}]
PairOrder == r2 :> 2 @@ r3 :> 3

InOrder == r1 :> 1 @@ r2 :> 2 @@ r3 :> 3
\* r3's id sorts first although its pull request is the last one published.
ReverseLex == r1 :> 3 @@ r2 :> 2 @@ r3 :> 1
=============================================================================
