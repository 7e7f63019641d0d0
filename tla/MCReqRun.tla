------------------------------ MODULE MCReqRun ------------------------------
(* Instances of ReqRun: two tasks, one or two reviewers, two launches. *)
EXTENDS ReqRun, TLC

CONSTANTS api, web, t1, t2
=============================================================================
