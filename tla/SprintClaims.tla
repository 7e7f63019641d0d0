---------------------------- MODULE SprintClaims ----------------------------
(***************************************************************************)
(* A statement that the comments of the workflow engine make about a       *)
(* sprint and that SprintEngine does not satisfy.  The README quotes it    *)
(* and tells the counterexample.                                           *)
(***************************************************************************)
EXTENDS SprintEngine

\* "The actual merge-readiness gate is enforced downstream (Phase 8) off this
\* same data": no REQ whose Phase 5 ended with blocks = true is merged by the
\* engine.  wrapupAndMerge is not given the findings.
CriticalBlocksMerge == \A r \in Reqs : result[r].state = "merged" => ~critical[r]
=============================================================================
