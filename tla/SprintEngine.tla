---------------------------- MODULE SprintEngine ----------------------------
(***************************************************************************)
(* The top level of workflows/adlc-sprint.workflow.js for the REQs that    *)
(* Preflight selected: pipeline(todo, runReq), then the cross-repo merge   *)
(* barrier, then the post-merge unblock pass, then the returned results.   *)
(* The script is one control thread per REQ; every effect happens inside a *)
(* leaf agent.  A step of this module is the return of one leaf together   *)
(* with everything the script does before it awaits the next one.          *)
(*                                                                         *)
(* Phases 0-5 of runReq are one step here (module ReqRun details them).    *)
(* A pull request is named by its REQ and its repository.                  *)
(***************************************************************************)
EXTENDS Naturals, FiniteSets

CONSTANTS
    Reqs,        \* the REQs of `todo`
    Repos,       \* repository ids
    Touched,     \* REQ -> repositories Phase 0 records for it
    Claimed,     \* REQ -> touchedRepos of its Preflight record (optional there)
    Pos,         \* REQ -> its position in `todo`
    Lex,         \* REQ -> its rank in JavaScript's string order
    Published,   \* REQ -> rank of its pull request by publication date
    Leftover,    \* states an earlier run may have left a pull request in
    Faults,      \* the ways leaves and outsiders misbehave in this instance
    AutoRebaseMaxAttempts

ASSUME ReqsFinite == IsFiniteSet(Reqs)
ASSUME TouchedType == Touched \in [Reqs -> (SUBSET Repos) \ {{}}]
ASSUME ClaimedType == Claimed \in [Reqs -> SUBSET Repos]
ASSUME OrderTypes ==
    /\ Pos \in [Reqs -> Nat] /\ Lex \in [Reqs -> Nat] /\ Published \in [Reqs -> Nat]
    /\ \A r, s \in Reqs : r # s => Pos[r] # Pos[s] /\ Lex[r] # Lex[s]
ASSUME LeftoverType == Leftover \subseteq {"none", "OPEN", "MERGED"} /\ "none" \in Leftover
\* "partial": a leaf leaves part of its job undone or unreported, or yields null.
\* "throw":   a leaf call rejects.   "outside": people close or merge a PR.
\* "critical": a blocking finding may survive the fix pass of Phase 5.
ASSUME FaultsType == Faults \subseteq {"partial", "throw", "outside", "critical"}
ASSUME AttemptsType == AutoRebaseMaxAttempts \in Nat \ {0}

VARIABLES
    stage,     \* where the top-level block is
    pc,        \* the leaf each REQ's thread awaits
    prs,       \* PR_STATE.prs: repositories whose PR the Phase 6 leaf reported
    forge,     \* the true state of every pull request
    critical,  \* whether Phase 5 ended with consolidated.blocks
    blockers,  \* live pipeline-state.json blockers entries (blockedBy)
    result,    \* the results array
    out,       \* terminals computed by the barrier or the unblock pass, not yet stitched
    held,      \* held REQs still to process in the unblock pass
    cleared,   \* clearedBlockers
    resumed,   \* REQs with an args.blockerCleared entry
    lost       \* held REQs whose worktree is gone or whose phase is unrecorded when the scan looks

vars == <<stage, pc, prs, forge, critical, blockers, result, out, held, cleared, resumed, lost>>

PRs == Reqs \X Repos
ForgeStates == {"none", "OPEN", "MERGED", "CLOSED"}
Reasons == {"none", "spec-validation", "arch-validation", "reflector-questions",
            "phase0-no-worktree", "phase8-no-pr", "merge-conflict",
            "merge-unverified", "needs-manual-rebase"}
\* "pending" and "null" stand for a value not there yet and for a dropped item.
Terminal == [state : {"pending", "null", "merged", "pr-ready", "blocked", "failed"},
             reason : Reasons, prs : SUBSET Repos]
LeafPCs == {"phases05", "openPRs", "ci", "merging", "verifying", "readying",
            "barrierMerging", "barrierVerifying", "rebasing"}
PCs == LeafPCs \cup {"queued", "done"}

TypeOK ==
    /\ stage \in {"pipeline", "barrier", "scan", "unblock", "returned", "thrown"}
    /\ pc \in [Reqs -> PCs]
    /\ prs \in [Reqs -> SUBSET Repos]
    /\ forge \in [PRs -> ForgeStates]
    /\ critical \in [Reqs -> BOOLEAN]
    /\ blockers \in [Reqs -> SUBSET Reqs]
    /\ result \in [Reqs -> Terminal]
    /\ out \in [Reqs -> Terminal]
    /\ held \subseteq Reqs
    /\ cleared \subseteq Reqs
    /\ resumed \subseteq Reqs
    /\ lost \subseteq Reqs

-----------------------------------------------------------------------------
(* Terminal values and leaf answers *)

Pending == [state |-> "pending", reason |-> "none", prs |-> {}]
Dropped == [state |-> "null", reason |-> "none", prs |-> {}]
\* Mutant: blocked(id, reason, detail) called with the reason as the state.
blockedShifted(reason) == [state |-> reason, reason |-> "none", prs |-> {}]
blocked(reason) == [state |-> "blocked", reason |-> reason, prs |-> {}]
failed(reason) == [state |-> "failed", reason |-> reason, prs |-> {}]
Merged(rows) == [state |-> "merged", reason |-> "none", prs |-> rows]
PrReady(rows) == [state |-> "pr-ready", reason |-> "none", prs |-> rows]

\* What a leaf asked about S may do or report.
Partial(S) == IF "partial" \in Faults THEN SUBSET S ELSE {S}

Unopened(r) == {d \in Touched[r] : forge[<<r, d>>] \in {"none", "CLOSED"}}
Open(r, D) == [p \in PRs |-> IF p[1] = r /\ p[2] \in D THEN "OPEN" ELSE forge[p]]
OpenOf(r, D) == {d \in D : forge[<<r, d>>] = "OPEN"}
Land(r, D) == [p \in PRs |-> IF p[1] = r /\ p[2] \in D THEN "MERGED" ELSE forge[p]]
\* Mutant: some() in place of every().
someMerged(r, rows) == \E d \in rows : forge[<<r, d>>] = "MERGED"
allMerged(r, rows) == rows # {} /\ \A d \in rows : forge[<<r, d>>] = "MERGED"

\* Mutant: the topology test is off by one.
IsManyRepo(r) == Cardinality(Touched[r]) > 2
IsCrossRepo(r) == \E d, e \in Touched[r] : d # e
AllDone == \A r \in Reqs : pc[r] = "done"

sharesRepo(r, s) == Claimed[r] \cap Claimed[s] # {}
\* groupCrossRepoReqs: the connected components of S over sharesRepo, as the
\* minimal non-empty subsets of S that sharesRepo does not leave.
Separate(C, S) == C # {} /\ \A r \in C, s \in S : sharesRepo(r, s) => s \in C
\* Mutant: the union step is missing, every REQ is a group of its own.
groupsOfOne(S) == {{r} : r \in S}
groupCrossRepoReqs(S) ==
    {C \in SUBSET S : Separate(C, S) /\ \A D \in SUBSET C : Separate(D, S) => D = C}

-----------------------------------------------------------------------------
(* Initial states: nothing has run; earlier sessions may have left open or  *)
(* partly merged PRs and live blockers entries, always on an earlier PR.    *)
(* Preflight only lets a REQ through that is not already fully merged.      *)

Init ==
    /\ stage = "pipeline"
    /\ pc = [r \in Reqs |-> "phases05"]
    /\ prs = [r \in Reqs |-> {}]
    /\ forge \in [PRs -> Leftover]
    /\ \A r \in Reqs : /\ \A d \in Repos \ Touched[r] : forge[<<r, d>>] = "none"
                       /\ \E d \in Touched[r] : forge[<<r, d>>] # "MERGED"
    /\ critical = [r \in Reqs |-> FALSE]
    /\ blockers \in [Reqs -> SUBSET Reqs]
    /\ \A r \in Reqs : \A b \in blockers[r] : Published[b] < Published[r]
    /\ result = [r \in Reqs |-> Pending]
    /\ out = [r \in Reqs |-> Pending]
    /\ held = {} /\ cleared = {} /\ resumed = {} /\ lost = {}

-----------------------------------------------------------------------------
(* runReq: used by the pipeline and, for a held REQ, by the unblock pass *)

\* The thread of r ends with terminal t: the pipeline stores it in the results
\* array, the unblock pass in updatedById.
Finish(r, t) ==
    /\ pc' = [pc EXCEPT ![r] = "done"]
    /\ IF stage = "pipeline"
         THEN result' = [result EXCEPT ![r] = t] /\ UNCHANGED out
         ELSE out' = [out EXCEPT ![r] = t] /\ UNCHANGED result

Await(r, leaf) == pc' = [pc EXCEPT ![r] = leaf] /\ UNCHANGED <<result, out>>

PhasesZeroToFive(r) ==
    /\ pc[r] = "phases05"
    /\ \/ /\ \E reason \in {"spec-validation", "arch-validation", "reflector-questions"} :
                Finish(r, blocked(reason))
          /\ UNCHANGED critical
       \/ /\ Finish(r, failed("phase0-no-worktree"))
          /\ UNCHANGED critical
       \/ /\ \E b \in BOOLEAN : /\ b => "critical" \in Faults
                              /\ critical' = [critical EXCEPT ![r] = b]
          /\ Await(r, "openPRs")
    /\ UNCHANGED <<stage, prs, forge, blockers, held, cleared, resumed, lost>>

OpenPRs(r) ==
    /\ pc[r] = "openPRs"
    /\ \E opened \in Partial(Unopened(r)) :
          /\ forge' = Open(r, opened)
          /\ \E rows \in Partial({d \in Touched[r] : forge'[<<r, d>>] # "none"}) :
                prs' = [prs EXCEPT ![r] = rows]
    /\ Await(r, "ci")
    /\ UNCHANGED <<stage, critical, blockers, held, cleared, resumed, lost>>

\* Phase 7's answer is not read; then Phase 8 chooses by topology.
CleanupAndWatchCI(r) ==
    /\ pc[r] = "ci"
    /\ IF IsCrossRepo(r)
         THEN IF prs[r] = {} THEN Finish(r, PrReady({})) ELSE Await(r, "readying")
         ELSE IF prs[r] = {} THEN Finish(r, failed("phase8-no-pr")) ELSE Await(r, "merging")
    /\ UNCHANGED <<stage, prs, forge, critical, blockers, held, cleared, resumed, lost>>

\* Cross-repo REQ: verifyPrStates, then pr-ready whatever the states are.
ReadyForBarrier(r) ==
    /\ pc[r] = "readying"
    /\ \E rows \in Partial(prs[r]) : Finish(r, PrReady(rows))
    /\ UNCHANGED <<stage, prs, forge, critical, blockers, held, cleared, resumed, lost>>

\* Single-repo REQ: the merge leaf stops at a conflict, or merges the PR and,
\* on a blocker-cleared resume, clears the blockers entry in the same write.
SelfMerge(r) ==
    /\ pc[r] = "merging"
    /\ \/ /\ OpenOf(r, prs[r]) # {}
          /\ Finish(r, blocked("merge-conflict"))
          /\ UNCHANGED <<forge, blockers>>
       \/ /\ \E D \in Partial(OpenOf(r, prs[r])) :
                /\ forge' = Land(r, D)
                /\ blockers' = IF D # {} /\ r \in resumed
                                 THEN [blockers EXCEPT ![r] = {}] ELSE blockers
          /\ Await(r, "verifying")
    /\ UNCHANGED <<stage, prs, critical, held, cleared, resumed, lost>>

\* The separate read-only leaf: only what it reads on the forge counts.
VerifyMerge(r) ==
    /\ pc[r] = "verifying"
    /\ \E rows \in Partial(prs[r]) :
          Finish(r, IF allMerged(r, rows) THEN Merged(rows) ELSE blocked("merge-unverified"))
    /\ UNCHANGED <<stage, prs, forge, critical, blockers, held, cleared, resumed, lost>>

-----------------------------------------------------------------------------
(* sequenceCrossRepoMerges *)

PendingReqs == {r \in Reqs : result[r].state = "pr-ready"}

EnterBarrier ==
    /\ stage = "pipeline" /\ AllDone
    /\ stage' = "barrier"
    /\ pc' = [r \in Reqs |-> IF r \in PendingReqs THEN "queued" ELSE "done"]
    /\ UNCHANGED <<prs, forge, critical, blockers, result, out, held, cleared, resumed, lost>>

GroupOf(r) == UNION {C \in groupCrossRepoReqs(PendingReqs) : r \in C}

\* The serial loop of r's group reaches r.
BarrierNext(r) ==
    /\ stage = "barrier" /\ pc[r] = "queued"
    /\ \A s \in GroupOf(r) : Pos[s] < Pos[r] => pc[s] = "done"
    /\ IF result[r].prs = {} THEN Finish(r, result[r]) ELSE Await(r, "barrierMerging")
    /\ UNCHANGED <<stage, prs, forge, critical, blockers, held, cleared, resumed, lost>>

\* Mutant: the leaf's claim to have merged is believed.
BarrierMergeBelieved(r) ==
    /\ pc[r] = "barrierMerging"
    /\ \E D \in Partial(OpenOf(r, result[r].prs)) : forge' = Land(r, D)
    /\ Finish(r, Merged(result[r].prs))
    /\ UNCHANGED <<stage, prs, critical, blockers, held, cleared, resumed, lost>>

\* The barrier leaf merges the PRs one after the other and stops at a conflict,
\* with those before it merged.
BarrierMerge(r) ==
    /\ pc[r] = "barrierMerging"
    /\ LET open == OpenOf(r, result[r].prs) IN
       \/ \E D \in SUBSET open :
             /\ D # open
             /\ forge' = Land(r, D)
             /\ Finish(r, blocked("merge-conflict"))
       \/ \E D \in Partial(open) :
             /\ forge' = Land(r, D)
             /\ Await(r, "barrierVerifying")
    /\ UNCHANGED <<stage, prs, critical, blockers, held, cleared, resumed, lost>>

BarrierVerify(r) ==
    /\ pc[r] = "barrierVerifying"
    /\ \E rows \in Partial(result[r].prs) :
          Finish(r, IF allMerged(r, rows) THEN Merged(rows) ELSE blocked("merge-unverified"))
    /\ UNCHANGED <<stage, prs, forge, critical, blockers, held, cleared, resumed, lost>>

LeaveBarrier ==
    /\ stage = "barrier" /\ AllDone
    /\ stage' = "scan"
    /\ result' = [r \in Reqs |-> IF out[r] # Pending THEN out[r] ELSE result[r]]
    /\ out' = [r \in Reqs |-> Pending]
    /\ UNCHANGED <<pc, prs, forge, critical, blockers, held, cleared, resumed, lost>>

-----------------------------------------------------------------------------
(* unblockHeldReqs *)

Dissolved == {r \in Reqs : result[r].state \in {"merged", "failed"}}

\* Mutant: every live entry counts, whatever became of its blocker.
HeldOnAnything(gone) == {r \in Reqs \ gone : blockers[r] # {}}

\* What the scan leaf is asked for: a live entry on a merged blocker, or a sole
\* live entry on a failed one, of a REQ that can be resumed at all.
Held(gone) ==
    {r \in Reqs \ gone : \E b \in blockers[r] :
        \/ result[b].state = "merged"
        \/ result[b].state = "failed" /\ blockers[r] = {b}}

\* The scan leaves out, with a note, whoever has no worktree or no recorded phase;
\* nothing catches its rejection.
UnblockScan ==
    /\ stage = "scan"
    /\ cleared' = Dissolved
    /\ \/ /\ lost' \in SUBSET Held({})
          /\ held' \in Partial(Held(lost'))
          /\ stage' = IF held' = {} THEN "returned" ELSE "unblock"
       \/ /\ "throw" \in Faults /\ Dissolved # {}
          /\ stage' = "thrown"
          /\ UNCHANGED <<held, lost>>
    /\ UNCHANGED <<pc, prs, forge, critical, blockers, result, out, resumed>>

\* Mutant: a held REQ stays in the list and is taken up again.
NextHeldKept(h) ==
    /\ stage = "unblock" /\ AllDone
    /\ h \in held /\ \A g \in held : Lex[h] <= Lex[g]
    /\ Await(h, "rebasing")
    /\ UNCHANGED <<stage, prs, forge, critical, blockers, held, cleared, resumed, lost>>

\* One held REQ at a time, in the order of the final sort.
NextHeld(h) ==
    /\ stage = "unblock" /\ AllDone
    /\ h \in held /\ \A g \in held : Lex[h] <= Lex[g]
    /\ held' = held \ {h}
    /\ Await(h, "rebasing")
    /\ UNCHANGED <<stage, prs, forge, critical, blockers, cleared, resumed, lost>>

\* Mutant: args.blockerCleared is not set.
UnblockRebaseSilent(h) ==
    /\ pc[h] = "rebasing"
    /\ Await(h, "phases05")
    /\ UNCHANGED <<stage, prs, forge, critical, blockers, held, cleared, resumed, lost>>

UnblockRebase(h) ==
    /\ pc[h] = "rebasing"
    /\ \/ /\ resumed' = resumed \cup {h}
          /\ Await(h, "phases05")
       \/ /\ \E attempts \in 0 .. AutoRebaseMaxAttempts :
                Finish(h, blocked(IF attempts + 1 >= AutoRebaseMaxAttempts
                                    THEN "needs-manual-rebase" ELSE "merge-conflict"))
          /\ UNCHANGED resumed
    /\ UNCHANGED <<stage, prs, forge, critical, blockers, held, cleared, lost>>

\* Mutant: the loop returns its first terminal.
ReturnFirst ==
    /\ stage = "unblock" /\ AllDone /\ \E h \in Reqs : out[h] # Pending
    /\ stage' = "returned"
    /\ result' = [r \in Reqs |-> IF out[r] # Pending THEN out[r] ELSE result[r]]
    /\ out' = [r \in Reqs |-> Pending]
    /\ UNCHANGED <<pc, prs, forge, critical, blockers, held, cleared, resumed, lost>>

ReturnResults ==
    /\ stage = "unblock" /\ AllDone /\ held = {}
    /\ stage' = "returned"
    /\ result' = [r \in Reqs |-> IF out[r] # Pending /\ result[r].state # "null"
                                   THEN out[r] ELSE result[r]]
    /\ out' = [r \in Reqs |-> Pending]
    /\ UNCHANGED <<pc, prs, forge, critical, blockers, held, cleared, resumed, lost>>

-----------------------------------------------------------------------------
(* Failures: a leaf call that rejects throws out of the thread that awaits  *)
(* it, whatever the leaf had done by then.  pipeline() drops that item to    *)
(* null, parallel() drops the whole group thunk, and nothing catches it in   *)
(* the unblock pass.                                                         *)

Throw(r) ==
    /\ "throw" \in Faults /\ pc[r] \in LeafPCs
    /\ \/ /\ stage = "pipeline"
          /\ Finish(r, Dropped)
          /\ UNCHANGED stage
       \/ /\ stage = "barrier"
          /\ pc' = [s \in Reqs |-> IF s \in GroupOf(r) THEN "done" ELSE pc[s]]
          /\ out' = [s \in Reqs |-> IF s \in GroupOf(r) THEN Pending ELSE out[s]]
          /\ UNCHANGED <<stage, result>>
       \/ /\ stage = "unblock"
          /\ stage' = "thrown"
          /\ pc' = [pc EXCEPT ![r] = "done"]
          /\ UNCHANGED <<result, out>>
    /\ \/ pc[r] = "openPRs" /\ \E D \in SUBSET Unopened(r) : forge' = Open(r, D)
       \/ pc[r] = "merging" /\ \E D \in SUBSET OpenOf(r, prs[r]) : forge' = Land(r, D)
       \/ pc[r] = "barrierMerging" /\ \E D \in SUBSET OpenOf(r, result[r].prs) : forge' = Land(r, D)
       \/ pc[r] \notin {"openPRs", "merging", "barrierMerging"} /\ UNCHANGED forge
    /\ UNCHANGED <<prs, critical, blockers, held, cleared, resumed, lost>>

\* People act on the forge while the sprint runs.
Outside(r, d) ==
    /\ "outside" \in Faults /\ stage \notin {"returned", "thrown"}
    /\ forge[<<r, d>>] = "OPEN"
    /\ \E s \in {"CLOSED", "MERGED"} : forge' = [forge EXCEPT ![<<r, d>>] = s]
    /\ UNCHANGED <<stage, pc, prs, critical, blockers, result, out, held, cleared, resumed, lost>>

Terminated == stage \in {"returned", "thrown"} /\ UNCHANGED vars

LeafReturn(r) ==
    \/ PhasesZeroToFive(r) \/ OpenPRs(r) \/ CleanupAndWatchCI(r) \/ ReadyForBarrier(r)
    \/ SelfMerge(r) \/ VerifyMerge(r)
    \/ BarrierNext(r) \/ BarrierMerge(r) \/ BarrierVerify(r)
    \/ NextHeld(r) \/ UnblockRebase(r)

Orchestrate == EnterBarrier \/ LeaveBarrier \/ UnblockScan \/ ReturnResults

Next ==
    \/ \E r \in Reqs : LeafReturn(r) \/ Throw(r) \/ \E d \in Repos : Outside(r, d)
    \/ Orchestrate
    \/ Terminated

Spec == Init /\ [][Next]_vars

\* Every leaf call settles: the runtime answers, yields null or rejects, and the
\* script always takes its next step.
FairSpec == Spec /\ WF_vars(Orchestrate) /\ \A r \in Reqs : WF_vars(LeafReturn(r))

-----------------------------------------------------------------------------
(* Properties *)

\* Claim is not truth: a REQ is only ever reported, or about to be reported,
\* merged with a non-empty list of pull requests that the forge has all merged.
MergedIsTrue ==
    \A r \in Reqs : \A t \in {result[r], out[r]} :
        t.state = "merged" => t.prs # {} /\ \A d \in t.prs : forge[<<r, d>>] = "MERGED"

\* At the barrier, REQs whose Preflight records share a repository are never in
\* their merge-and-verify section at the same time.
AtBarrierMerge(r) == pc[r] \in {"barrierMerging", "barrierVerifying"}
SerialOverClaimedRepos ==
    \A r, s \in Reqs : r # s /\ sharesRepo(r, s) => ~(AtBarrierMerge(r) /\ AtBarrierMerge(s))

\* The engine lands a cross-repo REQ's pull requests at the barrier only, so
\* after every REQ of the pipeline has reached its terminal.
CrossRepoWaitsForBarrier ==
    [][\A r \in Reqs, d \in Repos :
          Touched[r] # {d} /\ forge[<<r, d>>] # "MERGED" /\ forge'[<<r, d>>] = "MERGED"
              => stage = "barrier" /\ \A s \in Reqs : result[s] # Pending]_vars

\* A reported halt or failure is replaced only by the unblock pass, and only for
\* a REQ it resumed or could not rebase: no sibling's fate erases a question.
HaltSurvives ==
    [][\A r \in Reqs :
          result[r].state \in {"blocked", "failed"} /\ result'[r] # result[r]
              => /\ stage = "unblock"
                 /\ r \in resumed \/ result'[r].reason = "needs-manual-rebase"]_vars

\* A held REQ is resumed only when a REQ its blockers entry names is reported
\* merged or failed in this run, and while no other REQ is in flight.
ResumedBehindCleared ==
    [][\A r \in resumed' \ resumed :
          /\ \E b \in blockers[r] : result[b].state \in {"merged", "failed"}
          /\ \A s \in Reqs \ {r} : pc[s] = "done"]_vars

\* When the unblock pass returns, every REQ that is still held behind a REQ merged
\* before the pass began, and that has a worktree and a recorded phase to be
\* resumed from, has been taken up and has a new terminal: the scan's list is
\* worked off whatever becomes of its earlier members.
EveryHeldIsTried ==
    [][stage' = "returned" => \A r \in Held(lost') : out[r] # Pending]_vars

\* The engine keeps the ledger: every step lands pull requests or redraws the
\* account from what has landed.
ClaimOf(r) == IF result[r].state = "merged" THEN {<<r, d>> : d \in result[r].prs} ELSE {}
Ledger == INSTANCE MergeLedger WITH
    landed <- {p \in PRs : forge[p] = "MERGED"},
    claim <- [r \in Reqs |-> ClaimOf(r)]
LedgerSpec == Ledger!Spec

\* The sprint comes to an end, with a value for every REQ unless it threw.
SprintEnds ==
    <>(stage = "thrown" \/ (stage = "returned" /\ \A r \in Reqs : result[r] # Pending))
=============================================================================
