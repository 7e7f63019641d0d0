---------------------------- MODULE MergeLedger ----------------------------
(***************************************************************************)
(* What a sprint promises about merging, without any of its phases: pull   *)
(* requests land on the forge and stay landed, and the account the sprint  *)
(* gives of itself claims for a REQ only pull requests that have landed.   *)
(* A claim may be withdrawn (a held REQ is taken up again); a claim that   *)
(* stands is never changed into a claim about something that did not land. *)
(***************************************************************************)
CONSTANTS Reqs, PRs

VARIABLES
    landed,  \* the pull requests merged on the forge
    claim    \* REQ -> the pull requests it is reported merged with ({}: not reported merged)

ledgerVars == <<landed, claim>>

Init == landed \subseteq PRs /\ claim = [r \in Reqs |-> {}]

\* Pull requests land; no account changes.
LandSome == \E P \in SUBSET (PRs \ landed) : landed' = landed \cup P /\ UNCHANGED claim

\* The account is drawn up again, from what has landed.
Account ==
    /\ claim' \in [Reqs -> SUBSET landed]
    /\ UNCHANGED landed

Next == LandSome \/ Account

Spec == Init /\ [][Next]_ledgerVars
=============================================================================
