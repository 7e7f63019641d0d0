----------------------------- MODULE MCGrouping -----------------------------
(* Instances of Grouping: all assignments of repositories to a few REQs. *)
EXTENDS Grouping
CONSTANTS api, web, ios
=============================================================================
