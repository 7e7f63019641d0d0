------------------------- MODULE SprintEngine_proofs -------------------------
(***************************************************************************)
(* Theorems about the sprint for any REQs, repositories, leftovers and     *)
(* faults: type correctness, the truth of merged claims, the refinement of *)
(* MergeLedger, the serial merging of REQs that share a repository, and    *)
(* the order of things: what waits for the barrier, what replaces a halt,  *)
(* who is resumed and who is not forgotten by the unblock pass.            *)
(***************************************************************************)
EXTENDS SprintEngine, TLAPS

-----------------------------------------------------------------------------
(* The helpers *)

LEMMA PartialSubset == ASSUME NEW S, NEW D \in Partial(S) PROVE D \subseteq S
  BY DEF Partial

\* Opening pull requests that are not open or merged, and landing any, keeps the
\* forge well typed and every merged pull request merged.
MergedStay == \A p \in PRs : forge[p] = "MERGED" => forge'[p] = "MERGED"

LEMMA OpenForge ==
    ASSUME TypeOK, NEW r \in Reqs, NEW D \in SUBSET Unopened(r), forge' = Open(r, D)
    PROVE  /\ forge' \in [PRs -> ForgeStates]
           /\ \A p \in PRs : forge'[p] = "MERGED" <=> forge[p] = "MERGED"
<1>1. \A p \in PRs : forge'[p] = IF p[1] = r /\ p[2] \in D THEN "OPEN" ELSE forge[p]
  BY DEF Open
<1>2. \A p \in PRs : forge[p] \in ForgeStates
  BY DEF TypeOK
<1>3. forge' \in [PRs -> ForgeStates]
  BY <1>2 DEF Open, ForgeStates
<1>4. \A p \in PRs : p[1] = r /\ p[2] \in D => forge[p] # "MERGED"
  <2> SUFFICES ASSUME NEW p \in PRs, p[1] = r, p[2] \in D PROVE forge[p] # "MERGED"
    OBVIOUS
  <2>1. p = <<r, p[2]>>
    BY DEF PRs
  <2> QED
    BY <2>1 DEF Unopened
<1> QED
  BY <1>1, <1>3, <1>4

LEMMA LandForge ==
    ASSUME TypeOK, NEW r \in Reqs, NEW D, forge' = Land(r, D)
    PROVE  /\ forge' \in [PRs -> ForgeStates]
           /\ MergedStay
<1>1. \A p \in PRs : forge[p] \in ForgeStates
  BY DEF TypeOK
<1> QED
  BY <1>1 DEF Land, ForgeStates, MergedStay

LEMMA TerminalTypes ==
    /\ Pending \in Terminal /\ Dropped \in Terminal
    /\ \A reason \in Reasons : blocked(reason) \in Terminal /\ failed(reason) \in Terminal
    /\ \A rows \in SUBSET Repos : Merged(rows) \in Terminal /\ PrReady(rows) \in Terminal
  BY DEF Pending, Dropped, blocked, failed, Merged, PrReady, Terminal, Reasons

LEMMA FinishType ==
    ASSUME TypeOK, NEW r \in Reqs, NEW t \in Terminal, Finish(r, t)
    PROVE  /\ pc' \in [Reqs -> PCs]
           /\ result' \in [Reqs -> Terminal] /\ out' \in [Reqs -> Terminal]
  BY DEF TypeOK, Finish, PCs

LEMMA AwaitType ==
    ASSUME TypeOK, NEW r \in Reqs, NEW leaf \in PCs, Await(r, leaf)
    PROVE  /\ pc' \in [Reqs -> PCs]
           /\ result' \in [Reqs -> Terminal] /\ out' \in [Reqs -> Terminal]
  BY DEF TypeOK, Await

-----------------------------------------------------------------------------
(* Type correctness *)

LEMMA TypeInitially == Init => TypeOK
<1> SUFFICES ASSUME Init PROVE TypeOK
  OBVIOUS
<1>1. forge \in [PRs -> ForgeStates]
  <2>1. Leftover \subseteq ForgeStates
    BY LeftoverType DEF ForgeStates
  <2> QED
    BY <2>1 DEF Init
<1> QED
  BY <1>1, TerminalTypes DEF Init, TypeOK, PCs, LeafPCs

\* What the three parts of a step leave well typed.
ThreadsOK ==
    /\ pc \in [Reqs -> PCs] /\ result \in [Reqs -> Terminal] /\ out \in [Reqs -> Terminal]
RestOK ==
    /\ stage \in {"pipeline", "barrier", "scan", "unblock", "returned", "thrown"}
    /\ prs \in [Reqs -> SUBSET Repos]
    /\ critical \in [Reqs -> BOOLEAN]
    /\ blockers \in [Reqs -> SUBSET Reqs]
    /\ held \subseteq Reqs /\ cleared \subseteq Reqs /\ resumed \subseteq Reqs /\ lost \subseteq Reqs
ForgeOK == forge \in [PRs -> ForgeStates]

LEMMA TypeParts == /\ TypeOK <=> ThreadsOK /\ RestOK /\ ForgeOK
                   /\ TypeOK' <=> ThreadsOK' /\ RestOK' /\ ForgeOK'
  BY DEF TypeOK, ThreadsOK, RestOK, ForgeOK

\* The script's control over its threads is well typed.
LEMMA ThreadsStep == TypeOK /\ [Next]_vars => ThreadsOK'
<1> SUFFICES ASSUME TypeOK, [Next]_vars PROVE ThreadsOK'
  OBVIOUS
<1> USE DEF ThreadsOK
<1>r. ASSUME NEW r \in Reqs PROVE prs[r] \subseteq Repos /\ result[r] \in Terminal
                                  /\ result[r].prs \subseteq Repos
  BY DEF TypeOK, Terminal
<1>1. ASSUME NEW r \in Reqs, PhasesZeroToFive(r) PROVE ThreadsOK'
  BY <1>1, TerminalTypes, FinishType, AwaitType DEF PhasesZeroToFive, PCs, LeafPCs, Reasons
<1>2. ASSUME NEW r \in Reqs, OpenPRs(r) PROVE ThreadsOK'
  BY <1>2, AwaitType DEF OpenPRs, PCs, LeafPCs
<1>3. ASSUME NEW r \in Reqs, CleanupAndWatchCI(r) PROVE ThreadsOK'
  <2>1. PrReady({}) \in Terminal /\ failed("phase8-no-pr") \in Terminal
    BY TerminalTypes DEF Reasons
  <2> QED
    BY <1>3, <2>1, FinishType, AwaitType DEF CleanupAndWatchCI, PCs, LeafPCs
<1>4. ASSUME NEW r \in Reqs, ReadyForBarrier(r) PROVE ThreadsOK'
  <2>1. PICK rows \in Partial(prs[r]) : Finish(r, PrReady(rows))
    BY <1>4 DEF ReadyForBarrier
  <2>2. PrReady(rows) \in Terminal
    BY <1>r, PartialSubset, TerminalTypes
  <2> QED
    BY <2>1, <2>2, FinishType
<1>5. ASSUME NEW r \in Reqs, SelfMerge(r) PROVE ThreadsOK'
  <2>1. blocked("merge-conflict") \in Terminal
    BY TerminalTypes DEF Reasons
  <2> QED
    BY <1>5, <2>1, FinishType, AwaitType DEF SelfMerge, PCs, LeafPCs
<1>6. ASSUME NEW r \in Reqs, VerifyMerge(r) PROVE ThreadsOK'
  <2>1. PICK rows \in Partial(prs[r]) :
            Finish(r, IF allMerged(r, rows) THEN Merged(rows) ELSE blocked("merge-unverified"))
    BY <1>6 DEF VerifyMerge
  <2>2. Merged(rows) \in Terminal /\ blocked("merge-unverified") \in Terminal
    BY <1>r, PartialSubset, TerminalTypes DEF Reasons
  <2> QED
    BY <2>1, <2>2, FinishType
<1>7. ASSUME NEW r \in Reqs, BarrierNext(r) PROVE ThreadsOK'
  BY <1>7, <1>r, FinishType, AwaitType DEF BarrierNext, PCs, LeafPCs
<1>8. ASSUME NEW r \in Reqs, BarrierMerge(r) PROVE ThreadsOK'
  <2>1. blocked("merge-conflict") \in Terminal
    BY TerminalTypes DEF Reasons
  <2>2. Finish(r, blocked("merge-conflict")) \/ Await(r, "barrierVerifying")
    BY <1>8 DEF BarrierMerge
  <2> QED
    BY <2>1, <2>2, FinishType, AwaitType DEF PCs, LeafPCs
<1>9. ASSUME NEW r \in Reqs, BarrierVerify(r) PROVE ThreadsOK'
  <2>1. PICK rows \in Partial(result[r].prs) :
            Finish(r, IF allMerged(r, rows) THEN Merged(rows) ELSE blocked("merge-unverified"))
    BY <1>9 DEF BarrierVerify
  <2>2. Merged(rows) \in Terminal /\ blocked("merge-unverified") \in Terminal
    BY <1>r, PartialSubset, TerminalTypes DEF Reasons
  <2> QED
    BY <2>1, <2>2, FinishType
<1>10. ASSUME NEW r \in Reqs, NextHeld(r) PROVE ThreadsOK'
  BY <1>10, AwaitType DEF NextHeld, PCs, LeafPCs
<1>11. ASSUME NEW r \in Reqs, UnblockRebase(r) PROVE ThreadsOK'
  <2>1. blocked("merge-conflict") \in Terminal /\ blocked("needs-manual-rebase") \in Terminal
    BY TerminalTypes DEF Reasons
  <2>2. \/ Await(r, "phases05")
        \/ Finish(r, blocked("needs-manual-rebase"))
        \/ Finish(r, blocked("merge-conflict"))
    BY <1>11 DEF UnblockRebase
  <2> QED
    BY <2>1, <2>2, FinishType, AwaitType DEF PCs, LeafPCs
<1>12. ASSUME NEW r \in Reqs, Throw(r) PROVE ThreadsOK'
  BY <1>12, TerminalTypes DEF Throw, Finish, TypeOK, PCs
<1>13. CASE Orchestrate
  BY <1>13, TerminalTypes
     DEF Orchestrate, EnterBarrier, LeaveBarrier, UnblockScan, ReturnResults, TypeOK, PCs
<1>14. CASE Terminated \/ UNCHANGED vars \/ \E r \in Reqs, d \in Repos : Outside(r, d)
  BY <1>14 DEF Terminated, Outside, vars, TypeOK
<1> QED
  BY <1>1, <1>2, <1>3, <1>4, <1>5, <1>6, <1>7, <1>8, <1>9, <1>10, <1>11, <1>12, <1>13, <1>14
  DEF Next, LeafReturn

\* Everything but the threads and the forge stays well typed.
LEMMA RestStep == TypeOK /\ [Next]_vars => RestOK'
<1> SUFFICES ASSUME TypeOK, [Next]_vars PROVE RestOK'
  OBVIOUS
<1> USE DEF RestOK, TypeOK
<1>1. ASSUME NEW r \in Reqs, PhasesZeroToFive(r) PROVE RestOK'
  BY <1>1 DEF PhasesZeroToFive
<1>2. ASSUME NEW r \in Reqs, OpenPRs(r) PROVE RestOK'
  <2>1. PICK rows \in Partial({d \in Touched[r] : forge'[<<r, d>>] # "none"}) :
            prs' = [prs EXCEPT ![r] = rows]
    BY <1>2 DEF OpenPRs
  <2>2. rows \subseteq Repos
    BY <2>1, PartialSubset, TouchedType
  <2> QED
    BY <1>2, <2>1, <2>2 DEF OpenPRs
<1>3. ASSUME NEW r \in Reqs, CleanupAndWatchCI(r) \/ ReadyForBarrier(r) \/ VerifyMerge(r)
      PROVE RestOK'
  BY <1>3 DEF CleanupAndWatchCI, ReadyForBarrier, VerifyMerge
<1>4. ASSUME NEW r \in Reqs, SelfMerge(r) PROVE RestOK'
  BY <1>4 DEF SelfMerge
<1>5. ASSUME NEW r \in Reqs, BarrierNext(r) \/ BarrierMerge(r) \/ BarrierVerify(r) PROVE RestOK'
  BY <1>5 DEF BarrierNext, BarrierMerge, BarrierVerify
<1>6. ASSUME NEW r \in Reqs, NextHeld(r) \/ UnblockRebase(r) PROVE RestOK'
  BY <1>6 DEF NextHeld, UnblockRebase
<1>7. ASSUME NEW r \in Reqs, Throw(r) PROVE RestOK'
  BY <1>7 DEF Throw
<1>8. CASE EnterBarrier \/ LeaveBarrier \/ ReturnResults
  BY <1>8 DEF EnterBarrier, LeaveBarrier, ReturnResults
<1>9. CASE UnblockScan
  <2>1. held' \subseteq Reqs
    BY <1>9, PartialSubset DEF UnblockScan, Held
  <2>3. lost' \subseteq Reqs
    BY <1>9 DEF UnblockScan, Held
  <2>2. cleared' \subseteq Reqs
    BY <1>9 DEF UnblockScan, Dissolved
  <2> QED
    BY <1>9, <2>1, <2>2, <2>3 DEF UnblockScan
<1>10. CASE Terminated \/ UNCHANGED vars \/ \E r \in Reqs, d \in Repos : Outside(r, d)
  BY <1>10 DEF Terminated, Outside, vars
<1> QED
  BY <1>1, <1>2, <1>3, <1>4, <1>5, <1>6, <1>7, <1>8, <1>9, <1>10 DEF Next, LeafReturn, Orchestrate

\* Only three leaves and outsiders change the forge, and no step unmerges anything.
LEMMA ForgeStep == TypeOK /\ [Next]_vars => ForgeOK' /\ MergedStay
<1> SUFFICES ASSUME TypeOK, [Next]_vars PROVE ForgeOK' /\ MergedStay
  OBVIOUS
<1>k. ASSUME UNCHANGED forge PROVE ForgeOK' /\ MergedStay
  BY <1>k DEF TypeOK, ForgeOK, MergedStay
<1>o. ASSUME NEW r \in Reqs, NEW D \in SUBSET Unopened(r), forge' = Open(r, D)
      PROVE ForgeOK' /\ MergedStay
  BY <1>o, OpenForge DEF ForgeOK, MergedStay
<1>l. ASSUME NEW r \in Reqs, NEW D, forge' = Land(r, D) PROVE ForgeOK' /\ MergedStay
  BY <1>l, LandForge DEF ForgeOK
<1>1. ASSUME NEW r \in Reqs, OpenPRs(r) PROVE ForgeOK' /\ MergedStay
  <2>1. PICK D \in Partial(Unopened(r)) : forge' = Open(r, D)
    BY <1>1 DEF OpenPRs
  <2> QED
    BY <2>1, <1>o, PartialSubset
<1>2. ASSUME NEW r \in Reqs, SelfMerge(r) \/ BarrierMerge(r) PROVE ForgeOK' /\ MergedStay
  <2>1. UNCHANGED forge \/ \E D : forge' = Land(r, D)
    BY <1>2 DEF SelfMerge, BarrierMerge
  <2> QED
    BY <2>1, <1>k, <1>l
<1>3. ASSUME NEW r \in Reqs, Throw(r) PROVE ForgeOK' /\ MergedStay
  <2>1. \/ UNCHANGED forge
        \/ \E D \in SUBSET Unopened(r) : forge' = Open(r, D)
        \/ \E D : forge' = Land(r, D)
    BY <1>3 DEF Throw
  <2> QED
    BY <2>1, <1>k, <1>o, <1>l
<1>4. ASSUME NEW r \in Reqs, NEW d \in Repos, Outside(r, d) PROVE ForgeOK' /\ MergedStay
  <2>1. \A p \in PRs : forge[p] \in ForgeStates
    BY DEF TypeOK
  <2> QED
    BY <1>4, <2>1 DEF Outside, ForgeOK, ForgeStates, MergedStay, TypeOK, PRs
<1>5. ASSUME NEW r \in Reqs,
             PhasesZeroToFive(r) \/ CleanupAndWatchCI(r) \/ ReadyForBarrier(r) \/ VerifyMerge(r)
             \/ BarrierNext(r) \/ BarrierVerify(r) \/ NextHeld(r) \/ UnblockRebase(r)
      PROVE  UNCHANGED forge
  BY <1>5 DEF PhasesZeroToFive, CleanupAndWatchCI, ReadyForBarrier, VerifyMerge, BarrierNext,
              BarrierVerify, NextHeld, UnblockRebase
<1>6. CASE Orchestrate \/ Terminated \/ UNCHANGED vars
  BY <1>6, <1>k DEF Orchestrate, EnterBarrier, LeaveBarrier, UnblockScan, ReturnResults,
                    Terminated, vars
<1> QED
  BY <1>1, <1>2, <1>3, <1>4, <1>5, <1>6, <1>k DEF Next, LeafReturn

LEMMA TypeStep == TypeOK /\ [Next]_vars => TypeOK'
  BY ThreadsStep, RestStep, ForgeStep, TypeParts

\* Every reachable state of a sprint is well typed.
THEOREM Typing == Spec => []TypeOK
  BY TypeInitially, TypeStep, PTL DEF Spec

-----------------------------------------------------------------------------
(* The truth of merged claims *)

\* A claim is carried from one state to the next, or made by a leaf that has just
\* read the forge.
Honest(t, r) == t.state = "merged" => allMerged(r, t.prs)
HonestNext(t, r) ==
    t.state = "merged" => t.prs # {} /\ \A d \in t.prs : forge'[<<r, d>>] = "MERGED"

LEMMA HonestStays ==
    ASSUME MergedStay, NEW r \in Reqs, NEW t, t.prs \subseteq Repos, Honest(t, r)
    PROVE  HonestNext(t, r)
  BY DEF MergedStay, Honest, HonestNext, allMerged, PRs

LEMMA OtherTerminalsHonest ==
    \A r \in Reqs : /\ HonestNext(Pending, r) /\ HonestNext(Dropped, r)
                    /\ \A reason : HonestNext(blocked(reason), r) /\ HonestNext(failed(reason), r)
                    /\ \A rows : HonestNext(PrReady(rows), r)
  BY DEF HonestNext, Pending, Dropped, blocked, failed, PrReady

LEMMA VerifiedHonest ==
    ASSUME NEW r \in Reqs, NEW rows, UNCHANGED forge
    PROVE  HonestNext(IF allMerged(r, rows) THEN Merged(rows) ELSE blocked("merge-unverified"), r)
  BY DEF HonestNext, allMerged, Merged, blocked

\* The two terminals kept for a REQ are its old ones, each other's, or honest.
LEMMA TruthStep == TypeOK /\ MergedIsTrue /\ [Next]_vars => MergedIsTrue'
<1> SUFFICES ASSUME TypeOK, MergedIsTrue, [Next]_vars, NEW s \in Reqs
             PROVE  HonestNext(result'[s], s) /\ HonestNext(out'[s], s)
  BY DEF MergedIsTrue, HonestNext
<1>1. MergedStay
  BY ForgeStep
<1>2. HonestNext(result[s], s) /\ HonestNext(out[s], s)
  <2>1. result[s].prs \subseteq Repos /\ out[s].prs \subseteq Repos
    BY DEF TypeOK, Terminal
  <2>2. Honest(result[s], s) /\ Honest(out[s], s)
    BY DEF MergedIsTrue, Honest, allMerged
  <2> QED
    BY <1>1, <2>1, <2>2, HonestStays
<1> DEFINE Goal == HonestNext(result'[s], s) /\ HonestNext(out'[s], s)
<1>k. ASSUME UNCHANGED <<result, out>> PROVE Goal
  BY <1>2, <1>k
<1>f. ASSUME NEW r \in Reqs, NEW t, Finish(r, t), HonestNext(t, r) PROVE Goal
  BY <1>2, <1>f DEF Finish, TypeOK
<1>3. ASSUME NEW r \in Reqs, VerifyMerge(r) PROVE Goal
  BY <1>3, <1>f, VerifiedHonest DEF VerifyMerge
<1>4. ASSUME NEW r \in Reqs, BarrierVerify(r) PROVE Goal
  BY <1>4, <1>f, VerifiedHonest DEF BarrierVerify
<1>5. ASSUME NEW r \in Reqs, BarrierNext(r) PROVE Goal
  <2>1. HonestNext(result[r], r)
    <3>1. result[r].prs \subseteq Repos /\ Honest(result[r], r)
      BY DEF TypeOK, Terminal, MergedIsTrue, Honest, allMerged
    <3> QED
      BY <1>1, <3>1, HonestStays
  <2> QED
    BY <1>5, <2>1, <1>f, <1>k DEF BarrierNext, Await
<1>6. ASSUME NEW r \in Reqs,
             PhasesZeroToFive(r) \/ CleanupAndWatchCI(r) \/ ReadyForBarrier(r) \/ SelfMerge(r)
             \/ BarrierMerge(r) \/ UnblockRebase(r)
      PROVE  Goal
  <2>1. UNCHANGED <<result, out>> \/ \E t : Finish(r, t) /\ HonestNext(t, r)
    BY <1>6, OtherTerminalsHonest
       DEF PhasesZeroToFive, CleanupAndWatchCI, ReadyForBarrier, SelfMerge, BarrierMerge,
           UnblockRebase, Await
  <2> QED
    BY <2>1, <1>k, <1>f
<1>7. ASSUME NEW r \in Reqs, Throw(r) PROVE Goal
  <2>1. \/ Finish(r, Dropped)
        \/ UNCHANGED result /\ \A q \in Reqs : out'[q] \in {out[q], Pending}
    BY <1>7 DEF Throw, TypeOK
  <2> QED
    BY <2>1, <1>2, <1>f, OtherTerminalsHonest
<1>8. CASE LeaveBarrier \/ ReturnResults
  BY <1>8, <1>2, OtherTerminalsHonest DEF LeaveBarrier, ReturnResults
<1>9. CASE \/ EnterBarrier \/ UnblockScan \/ Terminated \/ UNCHANGED vars
           \/ \E r \in Reqs : OpenPRs(r) \/ NextHeld(r) \/ \E d \in Repos : Outside(r, d)
  BY <1>9, <1>k DEF EnterBarrier, UnblockScan, Terminated, vars, OpenPRs, NextHeld, Await, Outside
<1> QED
  BY <1>3, <1>4, <1>5, <1>6, <1>7, <1>8, <1>9 DEF Next, LeafReturn, Orchestrate

LEMMA TruthInitially == Init => MergedIsTrue
  BY DEF Init, MergedIsTrue, Pending

\* No sprint ever reports, or is about to report, a REQ merged unless the forge has
\* merged every pull request it names, and it names at least one: whatever leaves
\* claim, whichever calls reject and whatever people do to pull requests.
THEOREM ClaimsAreTrue == Spec => []MergedIsTrue
<1>1. TypeOK /\ MergedIsTrue /\ [Next]_vars => (TypeOK /\ MergedIsTrue)'
  BY TypeStep, TruthStep
<1> QED
  BY <1>1, TypeInitially, TruthInitially, PTL DEF Spec

-----------------------------------------------------------------------------
(* The sprint keeps the ledger *)

\* In the pipeline a REQ whose thread still runs has no terminal yet, and no
\* thread is at a leaf of the barrier or of the unblock pass.
StageInv ==
    /\ \A r \in Reqs : pc[r] \in {"barrierMerging", "barrierVerifying"} => stage = "barrier"
    /\ stage = "pipeline" => \A r \in Reqs :
          /\ pc[r] \notin {"queued", "rebasing"}
          /\ pc[r] # "done" => result[r] = Pending

LEMMA StageInitially == Init => StageInv
  BY DEF Init, StageInv

LEMMA StageStep == TypeOK /\ StageInv /\ [Next]_vars => StageInv'
<1> SUFFICES ASSUME TypeOK, StageInv, [Next]_vars PROVE StageInv'
  OBVIOUS
<1> USE DEF TypeOK, StageInv
<1>f. ASSUME NEW r \in Reqs, NEW t, Finish(r, t), UNCHANGED stage PROVE StageInv'
  BY <1>f DEF Finish
<1>a. ASSUME NEW r \in Reqs, NEW leaf, Await(r, leaf), UNCHANGED stage, pc[r] # "done",
             \/ leaf \in {"openPRs", "ci", "merging", "verifying", "readying"}
             \/ stage = "unblock" /\ leaf = "phases05"
             \/ stage = "barrier" /\ leaf \in {"barrierMerging", "barrierVerifying"}
      PROVE  StageInv'
  BY <1>a DEF Await
<1>1. ASSUME NEW r \in Reqs, PhasesZeroToFive(r) \/ OpenPRs(r) \/ CleanupAndWatchCI(r)
                             \/ ReadyForBarrier(r) \/ SelfMerge(r) \/ VerifyMerge(r)
      PROVE  StageInv'
  <2>1. UNCHANGED stage /\ pc[r] # "done"
    BY <1>1 DEF PhasesZeroToFive, OpenPRs, CleanupAndWatchCI, ReadyForBarrier, SelfMerge,
                VerifyMerge
  <2>2. \/ \E t : Finish(r, t)
        \/ \E leaf \in {"openPRs", "ci", "merging", "verifying", "readying"} : Await(r, leaf)
    BY <1>1 DEF PhasesZeroToFive, OpenPRs, CleanupAndWatchCI, ReadyForBarrier, SelfMerge,
                VerifyMerge
  <2> QED
    BY <2>1, <2>2, <1>f, <1>a
<1>2. ASSUME NEW r \in Reqs, BarrierNext(r) \/ BarrierMerge(r) \/ BarrierVerify(r)
      PROVE  StageInv'
  <2>1. UNCHANGED stage /\ pc[r] # "done" /\ stage = "barrier"
    BY <1>2 DEF BarrierNext, BarrierMerge, BarrierVerify
  <2>2. \/ \E t : Finish(r, t)
        \/ \E leaf \in {"barrierMerging", "barrierVerifying"} : Await(r, leaf)
    BY <1>2 DEF BarrierNext, BarrierMerge, BarrierVerify
  <2> QED
    BY <2>1, <2>2, <1>f, <1>a
<1>3. ASSUME NEW r \in Reqs, NextHeld(r) PROVE StageInv'
  BY <1>3 DEF NextHeld, Await
<1>4. ASSUME NEW r \in Reqs, UnblockRebase(r) PROVE StageInv'
  <2>1. UNCHANGED stage /\ pc[r] = "rebasing"
    BY <1>4 DEF UnblockRebase
  <2>2. (\E t : Finish(r, t)) \/ Await(r, "phases05")
    BY <1>4 DEF UnblockRebase
  <2> QED
    BY <2>1, <2>2, <1>f DEF Await
<1>5. ASSUME NEW r \in Reqs, Throw(r) PROVE StageInv'
  BY <1>5 DEF Throw, Finish, LeafPCs
<1>6. CASE EnterBarrier \/ LeaveBarrier \/ UnblockScan \/ ReturnResults
  BY <1>6 DEF EnterBarrier, LeaveBarrier, UnblockScan, ReturnResults, AllDone
<1>7. CASE Terminated \/ UNCHANGED vars \/ \E r \in Reqs, d \in Repos : Outside(r, d)
  BY <1>7 DEF Terminated, Outside, vars
<1> QED
  BY <1>1, <1>2, <1>3, <1>4, <1>5, <1>6, <1>7 DEF Next, LeafReturn, Orchestrate

\* A step that changes the forge leaves every claim as it was.
LEMMA ForgeOrClaims ==
    TypeOK /\ StageInv /\ [Next]_vars => UNCHANGED forge \/ \A s \in Reqs : ClaimOf(s)' = ClaimOf(s)
<1> SUFFICES ASSUME TypeOK, StageInv, [Next]_vars
             PROVE  UNCHANGED forge \/ \A s \in Reqs : ClaimOf(s)' = ClaimOf(s)
  OBVIOUS
<1>1. ASSUME UNCHANGED result PROVE \A s \in Reqs : ClaimOf(s)' = ClaimOf(s)
  BY <1>1 DEF ClaimOf
<1>2. ASSUME NEW r \in Reqs, PhasesZeroToFive(r) \/ OpenPRs(r) \/ CleanupAndWatchCI(r)
                             \/ ReadyForBarrier(r) \/ SelfMerge(r) \/ VerifyMerge(r)
      PROVE  UNCHANGED forge \/ UNCHANGED result
  BY <1>2 DEF PhasesZeroToFive, OpenPRs, CleanupAndWatchCI, ReadyForBarrier, SelfMerge,
              VerifyMerge, Await
<1>3. ASSUME NEW r \in Reqs, BarrierNext(r) \/ BarrierMerge(r) \/ BarrierVerify(r)
                             \/ NextHeld(r) \/ UnblockRebase(r)
      PROVE  UNCHANGED forge \/ UNCHANGED result
  BY <1>3 DEF StageInv, BarrierNext, BarrierMerge, BarrierVerify, NextHeld, UnblockRebase, Finish,
              Await
<1>4. ASSUME NEW r \in Reqs, Throw(r)
      PROVE  \A s \in Reqs : ClaimOf(s)' = ClaimOf(s)
  <2>1. CASE UNCHANGED result
    BY <2>1, <1>1
  <2>2. CASE stage = "pipeline" /\ Finish(r, Dropped)
    <3>1. result[r] = Pending /\ result' = [result EXCEPT ![r] = Dropped]
      BY <1>4, <2>2 DEF StageInv, Throw, Finish, LeafPCs
    <3>2. \A s \in Reqs : \/ result'[s] = result[s]
                          \/ result[s].state # "merged" /\ result'[s].state # "merged"
      BY <3>1 DEF Pending, Dropped, TypeOK
    <3> QED
      BY <3>2 DEF ClaimOf
  <2> QED
    BY <1>4, <2>1, <2>2 DEF Throw
<1>5. ASSUME Orchestrate \/ Terminated \/ UNCHANGED vars
             \/ \E r \in Reqs, d \in Repos : Outside(r, d)
      PROVE  UNCHANGED forge \/ UNCHANGED result
  BY <1>5 DEF Orchestrate, EnterBarrier, LeaveBarrier, UnblockScan, ReturnResults, Terminated,
              vars, Outside
<1> QED
  BY <1>1, <1>2, <1>3, <1>4, <1>5 DEF Next, LeafReturn

\* The sprint implements MergeLedger: what it reports merged has landed, and what
\* has landed stays landed, in every step.
THEOREM KeepsTheLedger == Spec => LedgerSpec
<1> DEFINE Landed == {p \in PRs : forge[p] = "MERGED"}
           Claims == [r \in Reqs |-> ClaimOf(r)]
<1>1. Init => Ledger!Init
  BY DEF Init, Ledger!Init, ClaimOf, Pending
<1>2. TypeOK /\ StageInv /\ MergedIsTrue /\ [Next]_vars => [Ledger!Next]_<<Landed, Claims>>
  <2> SUFFICES ASSUME TypeOK, StageInv, MergedIsTrue, [Next]_vars
               PROVE  Ledger!Next
    OBVIOUS
  <2>1. CASE UNCHANGED forge
    <3>1. Landed' = Landed
      BY <2>1
    <3>2. ASSUME NEW r \in Reqs PROVE ClaimOf(r)' \subseteq Landed'
      <4>1. TypeOK' /\ MergedIsTrue'
        BY TypeStep, TruthStep
      <4>2. result'[r].prs \subseteq Repos
        BY <4>1 DEF TypeOK, Terminal
      <4> QED
        BY <4>1, <4>2 DEF MergedIsTrue, ClaimOf, PRs
    <3>3. Ledger!Account
      BY <3>1, <3>2 DEF Ledger!Account
    <3> QED
      BY <3>3 DEF Ledger!Next
  <2>2. CASE \A s \in Reqs : ClaimOf(s)' = ClaimOf(s)
    <3>1. Landed \subseteq Landed'
      BY ForgeStep DEF MergedStay
    <3>2. Claims' = Claims
      BY <2>2
    <3>3. (Landed' \ Landed) \in SUBSET (PRs \ Landed) /\ Landed' = Landed \cup (Landed' \ Landed)
      BY <3>1
    <3>4. Ledger!LandSome
      BY <3>2, <3>3 DEF Ledger!LandSome
    <3> QED
      BY <3>4 DEF Ledger!Next
  <2> QED
    BY <2>1, <2>2, ForgeOrClaims
<1>3. TypeOK /\ StageInv /\ [Next]_vars => StageInv'
  BY StageStep
<1> QED
  BY <1>1, <1>2, <1>3, StageInitially, Typing, ClaimsAreTrue, PTL
     DEF Spec, LedgerSpec, Ledger!Spec, Ledger!ledgerVars

-----------------------------------------------------------------------------
(* One merge at a time *)

\* groupCrossRepoReqs puts two REQs that share a claimed repository in one group:
\* the component of r, as the intersection of the separate sets around r, is
\* itself separate, and minimal because a smaller separate set without r would
\* leave a separate rest around r.
LEMMA SharingIsGrouped ==
    ASSUME NEW S \in SUBSET Reqs, NEW r \in S, NEW s \in S, sharesRepo(r, s)
    PROVE  \E C \in groupCrossRepoReqs(S) : r \in C /\ s \in C
<1> DEFINE C == {q \in S : \A D \in SUBSET S : Separate(D, S) /\ r \in D => q \in D}
<1>1. \A p, q \in S : sharesRepo(p, q) => sharesRepo(q, p)
  BY DEF sharesRepo
<1>2. r \in C /\ C \in SUBSET S
  OBVIOUS
<1>3. Separate(C, S)
  <2> SUFFICES ASSUME NEW p \in C, NEW q \in S, sharesRepo(p, q) PROVE q \in C
    BY <1>2 DEF Separate
  <2> SUFFICES ASSUME NEW D \in SUBSET S, Separate(D, S), r \in D PROVE q \in D
    OBVIOUS
  <2> QED
    BY DEF Separate
<1>4. ASSUME NEW D \in SUBSET C, Separate(D, S) PROVE D = C
  <2>1. CASE r \in D
    <3>1. C \subseteq D
      BY <1>4, <2>1, <1>2
    <3> QED
      BY <3>1
  <2>2. CASE r \notin D
    <3>1. (C \ D) \in SUBSET S /\ r \in C \ D
      BY <1>2, <2>2
    <3>2. Separate(C \ D, S)
      <4> SUFFICES ASSUME NEW p \in C \ D, NEW q \in S, sharesRepo(p, q) PROVE q \in C \ D
        BY <3>1 DEF Separate
      <4>1. q \in C
        BY <1>3 DEF Separate
      <4>2. ASSUME q \in D PROVE FALSE
        <5>1. p \in S /\ sharesRepo(q, p)
          BY <1>1, <1>2
        <5> QED
          BY <5>1, <4>2, <1>4 DEF Separate
      <4> QED
        BY <4>1, <4>2
    <3>3. C \subseteq C \ D
      BY <3>1, <3>2
    <3>4. D = {}
      BY <3>3, <1>4
    <3> QED
      BY <3>4, <1>4 DEF Separate
  <2> QED
    BY <2>1, <2>2
<1>5. C \in groupCrossRepoReqs(S)
  BY <1>2, <1>3, <1>4 DEF groupCrossRepoReqs
<1>6. s \in C
  BY <1>2, <1>3 DEF Separate
<1> QED
  BY <1>2, <1>5, <1>6

\* Whoever is at the barrier's leaves is pr-ready, and all members of its group
\* that come before it have been dealt with.
SerialInv ==
    stage = "barrier" => \A r \in Reqs :
        /\ pc[r] # "done" => r \in PendingReqs
        /\ AtBarrierMerge(r) => \A s \in GroupOf(r) : Pos[s] < Pos[r] => pc[s] = "done"

LEMMA SerialInitially == Init => SerialInv
  BY DEF Init, SerialInv

\* In the barrier a thread only moves from the queue to its merge and to its end.
LEMMA SerialStep == TypeOK /\ StageInv /\ SerialInv /\ [Next]_vars => SerialInv'
<1> SUFFICES ASSUME TypeOK, StageInv, SerialInv, [Next]_vars, stage' = "barrier"
             PROVE  SerialInv'
  BY DEF SerialInv
<1>1. CASE EnterBarrier
  BY <1>1 DEF EnterBarrier, SerialInv, PendingReqs, AtBarrierMerge
<1>2. CASE ~EnterBarrier
  <2>1. stage = "barrier"
    BY <1>2 DEF Next, LeafReturn, Orchestrate, PhasesZeroToFive, OpenPRs, CleanupAndWatchCI,
                ReadyForBarrier, SelfMerge, VerifyMerge, BarrierNext, BarrierMerge, BarrierVerify,
                NextHeld, UnblockRebase, LeaveBarrier, UnblockScan, ReturnResults, Throw, Outside,
                Terminated, vars
  <2>3. UNCHANGED result
    BY <2>1, <1>2
       DEF Next, LeafReturn, Orchestrate, PhasesZeroToFive, OpenPRs, CleanupAndWatchCI,
           ReadyForBarrier, SelfMerge, VerifyMerge, BarrierNext, BarrierMerge, BarrierVerify,
           NextHeld, UnblockRebase, LeaveBarrier, UnblockScan, ReturnResults, Throw, Outside,
           Terminated, vars, Finish, Await
  <2>4. PendingReqs' = PendingReqs
    BY <2>3 DEF PendingReqs
  <2>5. \A r \in Reqs : GroupOf(r)' = GroupOf(r)
    BY <2>4 DEF GroupOf
  <2>a. ASSUME NEW r \in Reqs, LeafReturn(r)
        PROVE  /\ pc[r] # "done" /\ \A s \in Reqs : s # r => pc'[s] = pc[s]
               /\ pc'[r] \in {"barrierMerging", "barrierVerifying"} =>
                     BarrierNext(r) \/ AtBarrierMerge(r)
    <3>1. CASE PhasesZeroToFive(r) \/ OpenPRs(r) \/ CleanupAndWatchCI(r) \/ ReadyForBarrier(r)
               \/ SelfMerge(r) \/ VerifyMerge(r)
      BY <3>1 DEF PhasesZeroToFive, OpenPRs, CleanupAndWatchCI, ReadyForBarrier, SelfMerge,
                  VerifyMerge, Finish, Await, TypeOK
    <3>2. CASE BarrierNext(r) \/ BarrierMerge(r) \/ BarrierVerify(r)
      BY <3>2 DEF BarrierNext, BarrierMerge, BarrierVerify, Finish, Await, TypeOK, AtBarrierMerge
    <3>3. CASE NextHeld(r) \/ UnblockRebase(r)
      BY <2>1, <3>3 DEF NextHeld, UnblockRebase, Finish, Await, TypeOK
    <3> QED
      BY <2>a, <3>1, <3>2, <3>3 DEF LeafReturn
  <2>b. ASSUME NEW r \in Reqs, Throw(r) PROVE \A s \in Reqs : pc'[s] \in {pc[s], "done"}
    BY <2>b DEF Throw, Finish, TypeOK
  <2>c. \/ \E r \in Reqs : LeafReturn(r) \/ Throw(r)
        \/ UNCHANGED pc
    BY <1>2, <2>1 DEF Next, Orchestrate, LeaveBarrier, UnblockScan, ReturnResults, Outside,
                      Terminated, vars
  <2>6. \A r \in Reqs : pc[r] = "done" => pc'[r] = "done"
    BY <2>a, <2>b, <2>c
  <2>7. ASSUME NEW r \in Reqs, AtBarrierMerge(r)', ~AtBarrierMerge(r)
        PROVE  \A s \in GroupOf(r) : Pos[s] < Pos[r] => pc[s] = "done"
    <3>1. BarrierNext(r)
      BY <2>7, <2>a, <2>b, <2>c DEF AtBarrierMerge
    <3> QED
      BY <3>1 DEF BarrierNext
  <2>8. \A r \in Reqs : GroupOf(r) \subseteq Reqs
    BY DEF GroupOf, groupCrossRepoReqs, PendingReqs
  <2> QED
    BY <2>1, <2>4, <2>5, <2>6, <2>7, <2>8 DEF SerialInv
<1> QED
  BY <1>1, <1>2

\* At the barrier, REQs whose Preflight records share a repository never merge or
\* verify at the same time, for any number of REQs and any overlap of repositories.
THEOREM MergesAreSerial == Spec => []SerialOverClaimedRepos
<1>1. TypeOK /\ StageInv /\ SerialInv => SerialOverClaimedRepos
  <2> SUFFICES ASSUME TypeOK, StageInv, SerialInv, NEW r \in Reqs, NEW s \in Reqs, r # s,
                      sharesRepo(r, s), AtBarrierMerge(r), AtBarrierMerge(s)
               PROVE  FALSE
    BY DEF SerialOverClaimedRepos
  <2>1. stage = "barrier" /\ pc[r] # "done" /\ pc[s] # "done"
    BY DEF AtBarrierMerge, StageInv
  <2>2. r \in PendingReqs /\ s \in PendingReqs /\ sharesRepo(s, r)
    BY <2>1 DEF SerialInv, sharesRepo
  <2>3. PendingReqs \in SUBSET Reqs
    BY DEF PendingReqs
  <2>4. s \in GroupOf(r) /\ r \in GroupOf(s)
    BY <2>2, <2>3, SharingIsGrouped DEF GroupOf
  <2>5. Pos[r] < Pos[s] \/ Pos[s] < Pos[r]
    BY OrderTypes
  <2> QED
    BY <2>1, <2>4, <2>5 DEF SerialInv
<1> QED
  BY <1>1, Typing, StageInitially, StageStep, SerialInitially, SerialStep, PTL DEF Spec

-----------------------------------------------------------------------------
(* The order of things *)

\* In the pipeline a thread that is done has its terminal, afterwards every REQ has.
AccountInv ==
    /\ stage = "pipeline" => \A r \in Reqs : pc[r] = "done" => result[r] # Pending
    /\ stage # "pipeline" => \A r \in Reqs : result[r] # Pending

\* Threads are where the stage has leaves for them.
PlaceInv ==
    /\ stage = "barrier" =>
          \A r \in Reqs : pc[r] \in {"queued", "barrierMerging", "barrierVerifying", "done"}
    /\ stage \in {"scan", "returned", "thrown"} => AllDone
    /\ stage = "unblock" => \A r, s \in Reqs : pc[r] # "done" /\ pc[s] # "done" => r = s

\* A REQ merges its own pull requests only if it touches one repository.
TouchInv ==
    \A r \in Reqs : prs[r] \subseteq Touched[r] /\ (pc[r] = "merging" => ~IsCrossRepo(r))

-----------------------------------------------------------------------------
(* The steps of a thread *)

LEMMA TerminalsDiffer ==
    /\ Dropped # Pending
    /\ \A x : blocked(x) # Pending /\ failed(x) # Pending /\ Merged(x) # Pending /\ PrReady(x) # Pending
<1>1. /\ Pending.state = "pending" /\ Dropped.state = "null"
      /\ \A x : /\ blocked(x).state = "blocked" /\ failed(x).state = "failed"
                /\ Merged(x).state = "merged" /\ PrReady(x).state = "pr-ready"
  BY DEF Pending, Dropped, blocked, failed, Merged, PrReady
<1> QED
  BY <1>1

RunReq(r) ==
    \/ PhasesZeroToFive(r) \/ OpenPRs(r) \/ CleanupAndWatchCI(r) \/ ReadyForBarrier(r)
    \/ SelfMerge(r) \/ VerifyMerge(r)
RunLeaves == {"openPRs", "ci", "merging", "verifying", "readying"}

LEMMA RunReqShape ==
    ASSUME TypeOK, NEW r \in Reqs, RunReq(r)
    PROVE  /\ pc[r] \in RunLeaves \cup {"phases05"}
           /\ UNCHANGED <<stage, held, resumed, lost>>
           /\ (\E t : t # Pending /\ Finish(r, t)) \/ (\E leaf \in RunLeaves : Await(r, leaf))
           /\ UNCHANGED blockers \/ (pc[r] = "merging" /\ blockers' = [blockers EXCEPT ![r] = {}])
<1> USE DEF RunLeaves
<1>1. CASE PhasesZeroToFive(r)
  BY <1>1, TerminalsDiffer DEF PhasesZeroToFive
<1>2. CASE OpenPRs(r)
  BY <1>2 DEF OpenPRs
<1>3. CASE CleanupAndWatchCI(r)
  BY <1>3, TerminalsDiffer DEF CleanupAndWatchCI
<1>4. CASE ReadyForBarrier(r)
  BY <1>4, TerminalsDiffer DEF ReadyForBarrier
<1>5. CASE SelfMerge(r)
  BY <1>5, TerminalsDiffer DEF SelfMerge
<1>6. CASE VerifyMerge(r)
  <2>1. PICK t \in {Merged(rows) : rows \in Partial(prs[r])} \cup {blocked("merge-unverified")} : Finish(r, t)
    BY <1>6 DEF VerifyMerge
  <2> QED
    BY <1>6, <2>1, TerminalsDiffer DEF VerifyMerge
<1> QED
  BY <1>1, <1>2, <1>3, <1>4, <1>5, <1>6 DEF RunReq

AtBarrier(r) == BarrierNext(r) \/ BarrierMerge(r) \/ BarrierVerify(r)

LEMMA BarrierShape ==
    ASSUME TypeOK, StageInv, AccountInv, NEW r \in Reqs, AtBarrier(r)
    PROVE  /\ stage = "barrier" /\ pc[r] # "done"
           /\ UNCHANGED <<stage, held, resumed, blockers>>
           /\ \/ \E t : t # Pending /\ Finish(r, t)
              \/ \E leaf \in {"barrierMerging", "barrierVerifying"} : Await(r, leaf)
<1>1. CASE BarrierNext(r)
  BY <1>1 DEF BarrierNext, AccountInv
<1>2. CASE BarrierMerge(r)
  BY <1>2, TerminalsDiffer DEF BarrierMerge, StageInv
<1>3. CASE BarrierVerify(r)
  <2>1. PICK t \in {Merged(rows) : rows \in Partial(result[r].prs)} \cup {blocked("merge-unverified")} :
            Finish(r, t)
    BY <1>3 DEF BarrierVerify
  <2> QED
    BY <1>3, <2>1, TerminalsDiffer DEF BarrierVerify, StageInv
<1> QED
  BY <1>1, <1>2, <1>3 DEF AtBarrier

LEMMA RebaseShape ==
    ASSUME NEW r \in Reqs, UnblockRebase(r)
    PROVE  /\ pc[r] = "rebasing" /\ UNCHANGED <<stage, held, blockers, lost>>
           /\ \/ Await(r, "phases05") /\ resumed' = resumed \cup {r}
              \/ /\ UNCHANGED resumed
                 /\ \E reason \in {"needs-manual-rebase", "merge-conflict"} : Finish(r, blocked(reason))
  BY DEF UnblockRebase

\* A rejection: what becomes of the threads at each stage.
LEMMA ThrowShape ==
    ASSUME TypeOK, NEW r \in Reqs, Throw(r)
    PROVE  /\ pc[r] # "done" /\ UNCHANGED <<held, resumed, blockers>>
           /\ \A s \in Reqs : pc'[s] \in {pc[s], "done"}
           /\ \/ stage = "pipeline" /\ stage' = "pipeline" /\ Finish(r, Dropped)
              \/ /\ stage = "barrier" /\ stage' = "barrier" /\ UNCHANGED result
                 /\ \A s \in Reqs : out'[s] \in {out[s], Pending}
              \/ /\ stage = "unblock" /\ stage' = "thrown" /\ UNCHANGED <<result, out>>
                 /\ pc' = [pc EXCEPT ![r] = "done"]
<1>1. pc[r] # "done" /\ UNCHANGED <<held, resumed, blockers>>
  BY DEF Throw, LeafPCs
<1>2. CASE stage = "pipeline" /\ Finish(r, Dropped) /\ UNCHANGED stage
  BY <1>1, <1>2 DEF Finish, TypeOK
<1>3. CASE /\ stage = "barrier"
           /\ pc' = [s \in Reqs |-> IF s \in GroupOf(r) THEN "done" ELSE pc[s]]
           /\ out' = [s \in Reqs |-> IF s \in GroupOf(r) THEN Pending ELSE out[s]]
           /\ UNCHANGED <<stage, result>>
  BY <1>1, <1>3
<1>4. CASE /\ stage = "unblock" /\ stage' = "thrown"
           /\ pc' = [pc EXCEPT ![r] = "done"] /\ UNCHANGED <<result, out>>
  BY <1>1, <1>4 DEF TypeOK
<1> QED
  BY <1>2, <1>3, <1>4 DEF Throw

\* A step is one of a thread, one of the orchestration, or changes the forge at most.
LEMMA Steps ==
    ASSUME [Next]_vars
    PROVE  \/ \E r \in Reqs : RunReq(r) \/ AtBarrier(r) \/ NextHeld(r) \/ UnblockRebase(r) \/ Throw(r)
           \/ EnterBarrier \/ LeaveBarrier \/ UnblockScan \/ ReturnResults
           \/ UNCHANGED <<stage, pc, prs, critical, blockers, result, out, held, cleared, resumed, lost>>
  BY DEF Next, LeafReturn, RunReq, AtBarrier, Orchestrate, Outside, Terminated, vars

-----------------------------------------------------------------------------
(* Accounts and places *)

LEMMA AccountStep == TypeOK /\ StageInv /\ AccountInv /\ [Next]_vars => AccountInv'
<1> SUFFICES ASSUME TypeOK, StageInv, AccountInv, [Next]_vars PROVE AccountInv'
  OBVIOUS
<1> USE DEF AccountInv
<1>f. ASSUME NEW r \in Reqs, NEW t, t # Pending, Finish(r, t), UNCHANGED stage PROVE AccountInv'
  BY <1>f DEF Finish, TypeOK
<1>a. ASSUME NEW r \in Reqs, NEW leaf, leaf # "done", Await(r, leaf), UNCHANGED stage PROVE AccountInv'
  BY <1>a DEF Await, TypeOK
<1>1. ASSUME NEW r \in Reqs, RunReq(r) PROVE AccountInv'
  BY <1>1, <1>f, <1>a, RunReqShape DEF RunLeaves
<1>2. ASSUME NEW r \in Reqs, AtBarrier(r) PROVE AccountInv'
  BY <1>2, <1>f, <1>a, BarrierShape
<1>3. ASSUME NEW r \in Reqs, NextHeld(r) PROVE AccountInv'
  BY <1>3, <1>a DEF NextHeld
<1>4. ASSUME NEW r \in Reqs, UnblockRebase(r) PROVE AccountInv'
  BY <1>4, <1>f, <1>a, RebaseShape, TerminalsDiffer
<1>5. ASSUME NEW r \in Reqs, Throw(r) PROVE AccountInv'
  <2>1. CASE stage = "pipeline"
    BY <1>5, <2>1, <1>f, ThrowShape, TerminalsDiffer
  <2>2. CASE stage # "pipeline"
    BY <1>5, <2>2, ThrowShape
  <2> QED
    BY <2>1, <2>2
<1>6. CASE EnterBarrier \/ UnblockScan
  BY <1>6 DEF EnterBarrier, UnblockScan, AllDone
<1>7. CASE LeaveBarrier \/ ReturnResults
  BY <1>7 DEF LeaveBarrier, ReturnResults
<1>8. CASE UNCHANGED <<stage, pc, result>>
  BY <1>8
<1> QED
  BY <1>1, <1>2, <1>3, <1>4, <1>5, <1>6, <1>7, <1>8, Steps

LEMMA PlaceStep == TypeOK /\ StageInv /\ AccountInv /\ PlaceInv /\ [Next]_vars => PlaceInv'
<1> SUFFICES ASSUME TypeOK, StageInv, AccountInv, PlaceInv, [Next]_vars PROVE PlaceInv'
  OBVIOUS
<1> USE DEF PlaceInv, AllDone
<1>m. ASSUME NEW r \in Reqs, pc[r] # "done", UNCHANGED stage, NEW leaf,
             pc' = [pc EXCEPT ![r] = leaf],
             stage = "barrier" => leaf \in {"barrierMerging", "barrierVerifying", "done"}
      PROVE  PlaceInv'
  BY <1>m DEF TypeOK
<1>1. ASSUME NEW r \in Reqs, RunReq(r) PROVE PlaceInv'
  <2>1. stage # "barrier" /\ pc[r] # "done" /\ stage' = stage
    BY <1>1, RunReqShape DEF RunLeaves
  <2>2. \E leaf : pc' = [pc EXCEPT ![r] = leaf]
    BY <1>1, RunReqShape DEF Finish, Await
  <2> QED
    BY <2>1, <2>2, <1>m
<1>2. ASSUME NEW r \in Reqs, AtBarrier(r) PROVE PlaceInv'
  <2>1. stage = "barrier" /\ pc[r] # "done" /\ stage' = stage
    BY <1>2, BarrierShape
  <2>2. \E leaf \in {"barrierMerging", "barrierVerifying", "done"} : pc' = [pc EXCEPT ![r] = leaf]
    BY <1>2, BarrierShape DEF Finish, Await
  <2> QED
    BY <2>1, <2>2, <1>m
<1>3. ASSUME NEW r \in Reqs, NextHeld(r) PROVE PlaceInv'
  BY <1>3 DEF NextHeld, Await, TypeOK
<1>4. ASSUME NEW r \in Reqs, UnblockRebase(r) PROVE PlaceInv'
  <2>1. stage # "barrier" /\ pc[r] # "done" /\ stage' = stage
    BY <1>4, RebaseShape
  <2>2. \E leaf : pc' = [pc EXCEPT ![r] = leaf]
    BY <1>4, RebaseShape DEF Finish, Await
  <2> QED
    BY <2>1, <2>2, <1>m
<1>5. ASSUME NEW r \in Reqs, Throw(r) PROVE PlaceInv'
  <2>1. CASE stage \in {"pipeline", "barrier"}
    BY <1>5, <2>1, ThrowShape
  <2>2. CASE stage = "unblock" /\ stage' = "thrown" /\ pc' = [pc EXCEPT ![r] = "done"]
    <3>1. pc[r] # "done"
      BY <1>5, ThrowShape
    <3> QED
      BY <2>2, <3>1 DEF TypeOK
  <2> QED
    BY <1>5, <2>1, <2>2, ThrowShape
<1>6. CASE EnterBarrier
  BY <1>6 DEF EnterBarrier
<1>7. CASE LeaveBarrier \/ UnblockScan \/ ReturnResults
  BY <1>7 DEF LeaveBarrier, UnblockScan, ReturnResults
<1>8. CASE UNCHANGED <<stage, pc>>
  BY <1>8
<1> QED
  BY <1>1, <1>2, <1>3, <1>4, <1>5, <1>6, <1>7, <1>8, Steps

-----------------------------------------------------------------------------
(* Cross-repo REQs wait *)

LEMMA TouchStep == TypeOK /\ TouchInv /\ [Next]_vars => TouchInv'
<1> SUFFICES ASSUME TypeOK, TouchInv, [Next]_vars PROVE TouchInv'
  OBVIOUS
<1> USE DEF TouchInv
<1>c. \A r \in Reqs : IsCrossRepo(r)' = IsCrossRepo(r)
  BY DEF IsCrossRepo
<1>m. ASSUME UNCHANGED prs, NEW r \in Reqs, NEW leaf, pc' = [pc EXCEPT ![r] = leaf],
             leaf = "merging" => ~IsCrossRepo(r)
      PROVE  TouchInv'
  BY <1>m, <1>c DEF TypeOK
<1>1. ASSUME NEW r \in Reqs, OpenPRs(r) PROVE TouchInv'
  <2>1. PICK rows \in Partial({d \in Touched[r] : forge'[<<r, d>>] # "none"}) :
            prs' = [prs EXCEPT ![r] = rows]
    BY <1>1 DEF OpenPRs
  <2>2. rows \subseteq Touched[r]
    BY PartialSubset
  <2>3. pc' = [pc EXCEPT ![r] = "ci"]
    BY <1>1 DEF OpenPRs, Await
  <2> QED
    BY <1>c, <2>1, <2>2, <2>3 DEF TypeOK
<1>2. ASSUME NEW r \in Reqs, CleanupAndWatchCI(r) PROVE TouchInv'
  BY <1>2, <1>m DEF CleanupAndWatchCI, Finish, Await
<1>3. ASSUME NEW r \in Reqs, PhasesZeroToFive(r) \/ ReadyForBarrier(r) \/ SelfMerge(r) \/ VerifyMerge(r)
                             \/ AtBarrier(r) \/ NextHeld(r) \/ UnblockRebase(r)
      PROVE  TouchInv'
  <2>1. UNCHANGED prs /\ \E leaf : leaf # "merging" /\ pc' = [pc EXCEPT ![r] = leaf]
    BY <1>3 DEF PhasesZeroToFive, ReadyForBarrier, SelfMerge, VerifyMerge, AtBarrier, BarrierNext, BarrierMerge,
                BarrierVerify, NextHeld, UnblockRebase, Finish, Await
  <2> QED
    BY <2>1, <1>m
<1>4. ASSUME NEW r \in Reqs, Throw(r) PROVE TouchInv'
  <2>1. UNCHANGED prs /\ \A s \in Reqs : pc'[s] \in {pc[s], "done"}
    BY <1>4, ThrowShape DEF Throw
  <2> QED
    BY <1>c, <2>1
<1>5. CASE EnterBarrier \/ LeaveBarrier \/ UnblockScan \/ ReturnResults \/ UNCHANGED <<pc, prs>>
  BY <1>c, <1>5 DEF EnterBarrier, LeaveBarrier, UnblockScan, ReturnResults
<1> QED
  BY <1>1, <1>2, <1>3, <1>4, <1>5, Steps DEF RunReq

\* Without people who merge, a pull request lands at the merge leaf of its own REQ,
\* among those that REQ had reported, or at the barrier.
LEMMA Landing ==
    ASSUME "outside" \notin Faults, TypeOK, StageInv, [Next]_vars, NEW r \in Reqs, NEW d \in Repos,
           forge[<<r, d>>] # "MERGED", forge'[<<r, d>>] = "MERGED"
    PROVE  (pc[r] = "merging" /\ d \in prs[r]) \/ stage = "barrier"
<1> USE DEF PRs
<1>k. ~UNCHANGED forge
  OBVIOUS
<1>o. ASSUME NEW q \in Reqs, NEW D \in SUBSET Unopened(q), forge' = Open(q, D) PROVE FALSE
  BY <1>o, OpenForge
<1>l. ASSUME NEW q \in Reqs, NEW D \in SUBSET prs[q], pc[q] = "merging", forge' = Land(q, D)
      PROVE  pc[r] = "merging" /\ d \in prs[r]
  BY <1>l DEF Land
<1>1. ASSUME NEW q \in Reqs, OpenPRs(q) PROVE FALSE
  BY <1>1, <1>o, PartialSubset DEF OpenPRs
<1>2. ASSUME NEW q \in Reqs, SelfMerge(q) PROVE pc[r] = "merging" /\ d \in prs[r]
  <2>1. PICK D \in Partial(OpenOf(q, prs[q])) : forge' = Land(q, D)
    BY <1>2, <1>k DEF SelfMerge
  <2>2. D \subseteq prs[q] /\ pc[q] = "merging"
    BY <1>2, PartialSubset DEF OpenOf, SelfMerge
  <2> QED
    BY <2>1, <2>2, <1>l
<1>3. ASSUME NEW q \in Reqs, Throw(q) PROVE (pc[r] = "merging" /\ d \in prs[r]) \/ stage = "barrier"
  <2>1. CASE pc[q] = "openPRs"
    BY <1>3, <2>1, <1>o DEF Throw
  <2>2. CASE pc[q] = "merging"
    <3>1. PICK D \in SUBSET OpenOf(q, prs[q]) : forge' = Land(q, D)
      BY <1>3, <2>2 DEF Throw
    <3>2. D \subseteq prs[q]
      BY DEF OpenOf
    <3> QED
      BY <2>2, <3>1, <3>2, <1>l
  <2>3. CASE pc[q] = "barrierMerging"
    BY <2>3 DEF StageInv
  <2> QED
    BY <1>3, <1>k, <2>1, <2>2, <2>3 DEF Throw
<1>4. ASSUME NEW q \in Reqs, BarrierMerge(q) PROVE stage = "barrier"
  BY <1>4 DEF BarrierMerge, StageInv
<1> QED
  BY <1>1, <1>2, <1>3, <1>4, <1>k
     DEF Next, LeafReturn, Orchestrate, PhasesZeroToFive, CleanupAndWatchCI, ReadyForBarrier, VerifyMerge,
         BarrierNext, BarrierVerify, NextHeld, UnblockRebase, EnterBarrier, LeaveBarrier, UnblockScan,
         ReturnResults, Outside, Terminated, vars

\* As long as people leave the pull requests alone, the engine lands those of a
\* cross-repo REQ at the barrier only, when every REQ has its terminal.
THEOREM CrossRepoWaits == "outside" \notin Faults => (Spec => CrossRepoWaitsForBarrier)
<1> SUFFICES ASSUME "outside" \notin Faults PROVE Spec => CrossRepoWaitsForBarrier
  OBVIOUS
<1> DEFINE Waits == \A r \in Reqs, d \in Repos :
               Touched[r] # {d} /\ forge[<<r, d>>] # "MERGED" /\ forge'[<<r, d>>] = "MERGED"
                   => stage = "barrier" /\ \A s \in Reqs : result[s] # Pending
<1>1. Init => AccountInv /\ TouchInv
  BY DEF Init, AccountInv, TouchInv
<1>2. TypeOK /\ StageInv /\ AccountInv /\ TouchInv /\ [Next]_vars => (AccountInv /\ TouchInv)'
  BY AccountStep, TouchStep
<1>3. TypeOK /\ StageInv /\ AccountInv /\ TouchInv /\ [Next]_vars => [Waits]_vars
  <2> SUFFICES ASSUME TypeOK, StageInv, AccountInv, TouchInv, [Next]_vars,
                      NEW r \in Reqs, NEW d \in Repos,
                      Touched[r] # {d}, forge[<<r, d>>] # "MERGED", forge'[<<r, d>>] = "MERGED"
               PROVE  stage = "barrier" /\ \A s \in Reqs : result[s] # Pending
    OBVIOUS
  <2>1. (pc[r] = "merging" /\ d \in prs[r]) \/ stage = "barrier"
    BY Landing
  <2>2. ~(pc[r] = "merging" /\ d \in prs[r])
    BY DEF TouchInv, IsCrossRepo
  <2> QED
    BY <2>1, <2>2 DEF AccountInv
<1> QED
  BY <1>1, <1>2, <1>3, Typing, StageInitially, StageStep, PTL DEF Spec, CrossRepoWaitsForBarrier

-----------------------------------------------------------------------------
(* The unblock pass *)

Behind(r) == \E b \in blockers[r] : result[b].state \in {"merged", "failed"}

\* Who is still to be taken up, or is being rebased, is held behind a REQ that
\* has dissolved, and who has been taken up is off the list.
UnblockInv ==
    stage = "unblock" => \A r \in Reqs : /\ r \in held => Behind(r) /\ pc[r] = "done"
                                         /\ pc[r] = "rebasing" => Behind(r)

\* Everybody the scan should have found is on the list, in flight or has a terminal.
TriedInv ==
    stage = "unblock" => \A r \in Held(lost) : r \in held \/ pc[r] # "done" \/ out[r] # Pending

\* What a terminal not yet stitched in may belong to.
OutInv ==
    /\ stage \in {"pipeline", "scan"} => \A r \in Reqs : out[r] = Pending
    /\ stage = "barrier" => \A r \in Reqs : out[r] # Pending => r \in PendingReqs
    /\ stage = "unblock" => \A r \in Reqs :
          /\ out[r] # Pending => r \in resumed \/ out[r].reason = "needs-manual-rebase"
          /\ pc[r] \notin {"done", "rebasing"} => r \in resumed

LEMMA RunningStages ==
    ASSUME TypeOK, StageInv, PlaceInv, NEW r \in Reqs
    PROVE  /\ RunReq(r) => stage \in {"pipeline", "unblock"} /\ stage' = stage
           /\ pc[r] = "rebasing" => stage = "unblock"
<1>1. pc[r] # "done" => stage \notin {"scan", "returned", "thrown"}
  BY DEF PlaceInv, AllDone
<1>2. RunReq(r) => pc[r] \in RunLeaves \cup {"phases05"} /\ stage' = stage
  BY RunReqShape
<1>3. pc[r] \in RunLeaves \cup {"phases05", "rebasing"} => stage # "barrier" /\ pc[r] # "done"
  BY DEF PlaceInv, RunLeaves
<1> QED
  BY <1>1, <1>2, <1>3 DEF TypeOK, StageInv

\* While the pass runs the account stays, and blockers entries are only cleared.
LEMMA UnblockSteps ==
    ASSUME TypeOK, StageInv, AccountInv, PlaceInv, stage = "unblock", stage' = "unblock", [Next]_vars
    PROVE  /\ UNCHANGED <<result, lost>>
           /\ \/ \E r \in Reqs : RunReq(r) \/ NextHeld(r) \/ UnblockRebase(r)
              \/ UNCHANGED <<pc, blockers, out, held, resumed, lost>>
<1>1. ASSUME NEW r \in Reqs, RunReq(r) PROVE UNCHANGED <<result, lost>>
  BY <1>1, RunReqShape DEF Finish, Await
<1>2. ASSUME NEW r \in Reqs, NextHeld(r) \/ UnblockRebase(r) PROVE UNCHANGED <<result, lost>>
  BY <1>2, RebaseShape DEF NextHeld, Finish, Await
<1>3. ASSUME NEW r \in Reqs PROVE ~AtBarrier(r) /\ ~Throw(r)
  BY <1>3, BarrierShape, ThrowShape
<1>4. ~EnterBarrier /\ ~LeaveBarrier /\ ~UnblockScan /\ ~ReturnResults
  BY DEF EnterBarrier, LeaveBarrier, UnblockScan, ReturnResults
<1> QED
  BY <1>1, <1>2, <1>3, <1>4, Steps

LEMMA UnblockStep ==
    TypeOK /\ StageInv /\ AccountInv /\ PlaceInv /\ UnblockInv /\ [Next]_vars => UnblockInv'
<1> SUFFICES ASSUME TypeOK, StageInv, AccountInv, PlaceInv, UnblockInv, [Next]_vars, stage' = "unblock"
             PROVE  UnblockInv'
  BY DEF UnblockInv
<1>1. CASE stage = "unblock"
  <2>1. ASSUME NEW r \in Reqs, RunReq(r) PROVE UnblockInv'
    <3>1. pc[r] # "done" /\ UNCHANGED <<held, result>>
      BY <2>1, <1>1, RunReqShape, UnblockSteps DEF RunLeaves
    <3>2. \E leaf : leaf # "rebasing" /\ pc' = [pc EXCEPT ![r] = leaf]
      BY <2>1, RunReqShape DEF Finish, Await, RunLeaves
    <3>3. \A s \in Reqs : s # r => blockers'[s] = blockers[s]
      BY <2>1, RunReqShape DEF TypeOK
    <3> QED
      BY <1>1, <3>1, <3>2, <3>3 DEF UnblockInv, Behind, TypeOK
  <2>2. ASSUME NEW r \in Reqs, NextHeld(r) PROVE UnblockInv'
    BY <1>1, <2>2 DEF NextHeld, Await, UnblockInv, Behind, TypeOK
  <2>3. ASSUME NEW r \in Reqs, UnblockRebase(r) PROVE UnblockInv'
    <3>1. UNCHANGED <<held, blockers, result>> /\ pc[r] = "rebasing"
      BY <2>3, <1>1, RebaseShape, UnblockSteps
    <3>2. \E leaf : leaf # "rebasing" /\ pc' = [pc EXCEPT ![r] = leaf]
      BY <2>3, RebaseShape DEF Finish, Await
    <3> QED
      BY <1>1, <3>1, <3>2 DEF UnblockInv, Behind, TypeOK
  <2>4. CASE UNCHANGED <<pc, blockers, out, held, resumed, lost>>
    <3>1. UNCHANGED result
      BY <1>1, UnblockSteps
    <3> QED
      BY <1>1, <2>4, <3>1 DEF UnblockInv, Behind
  <2> QED
    BY <1>1, <2>1, <2>2, <2>3, <2>4, UnblockSteps
<1>2. CASE stage # "unblock"
  <2>1. UnblockScan
    <3>1. ASSUME NEW r \in Reqs PROVE ~RunReq(r) /\ ~AtBarrier(r) /\ ~NextHeld(r) /\ ~Throw(r)
                                      /\ ~UnblockRebase(r)
      BY <1>2, RunningStages, BarrierShape, RebaseShape, ThrowShape DEF NextHeld
    <3> QED
      BY <1>2, <3>1, Steps DEF EnterBarrier, LeaveBarrier, ReturnResults
  <2>2. held' \subseteq Held(lost')
    BY <2>1, PartialSubset DEF UnblockScan
  <2>3. \A r \in Held(lost') : Behind(r)
    BY DEF Held, Behind
  <2>4. UNCHANGED <<pc, blockers, result>> /\ AllDone
    BY <2>1 DEF UnblockScan, PlaceInv
  <2> QED
    BY <2>2, <2>3, <2>4 DEF UnblockInv, Behind, AllDone
<1> QED
  BY <1>1, <1>2

OrderInv == StageInv /\ AccountInv /\ PlaceInv /\ UnblockInv

LEMMA OrderInitially == Init => OrderInv
<1> SUFFICES ASSUME Init PROVE OrderInv
  OBVIOUS
<1> QED
  BY StageInitially DEF Init, OrderInv, AccountInv, PlaceInv, UnblockInv

LEMMA OrderStep == TypeOK /\ OrderInv /\ [Next]_vars => OrderInv'
  BY StageStep, AccountStep, PlaceStep, UnblockStep DEF OrderInv

\* Whatever the leaves do, nobody is resumed but behind a REQ that this run has
\* merged or failed, and nobody else is in flight then.
THEOREM ResumedAlone == Spec => ResumedBehindCleared
<1> DEFINE Rightly == \A r \in resumed' \ resumed :
               /\ \E b \in blockers[r] : result[b].state \in {"merged", "failed"}
               /\ \A s \in Reqs \ {r} : pc[s] = "done"
<1>1. TypeOK /\ OrderInv /\ [Next]_vars => [Rightly]_vars
  <2> SUFFICES ASSUME TypeOK, OrderInv, [Next]_vars, NEW r \in resumed' \ resumed
               PROVE  /\ \E b \in blockers[r] : result[b].state \in {"merged", "failed"}
                      /\ \A s \in Reqs \ {r} : pc[s] = "done"
    OBVIOUS
  <2> USE DEF OrderInv
  <2>1. UnblockRebase(r) /\ r \in Reqs
    <3>1. ASSUME NEW q \in Reqs, RunReq(q) \/ AtBarrier(q) \/ NextHeld(q) \/ Throw(q) PROVE FALSE
      BY <3>1, RunReqShape, BarrierShape, ThrowShape DEF NextHeld
    <3>2. ~EnterBarrier /\ ~LeaveBarrier /\ ~UnblockScan /\ ~ReturnResults /\ ~UNCHANGED resumed
      BY DEF EnterBarrier, LeaveBarrier, UnblockScan, ReturnResults
    <3>3. PICK q \in Reqs : UnblockRebase(q)
      BY <3>1, <3>2, Steps
    <3> QED
      BY <3>3 DEF UnblockRebase
  <2>2. pc[r] = "rebasing" /\ stage = "unblock"
    BY <2>1, RebaseShape, RunningStages
  <2> QED
    BY <2>1, <2>2 DEF UnblockInv, Behind, PlaceInv
<1> QED
  BY <1>1, Typing, OrderInitially, OrderStep, PTL DEF Spec, ResumedBehindCleared

-----------------------------------------------------------------------------
(* Nobody who is held is forgotten *)

LEMMA TriedStep ==
    ASSUME "partial" \notin Faults, TypeOK, OrderInv, TriedInv, [Next]_vars
    PROVE  TriedInv'
<1> SUFFICES ASSUME stage' = "unblock", NEW s \in Held(lost)'
             PROVE  s \in held' \/ pc'[s] # "done" \/ out'[s] # Pending
  BY DEF TriedInv
<1>s. s \in Reqs
  BY DEF Held
<1>1. CASE stage = "unblock"
  <2> USE <1>1, <1>s DEF OrderInv
  <2>h. ASSUME \A r \in Reqs : blockers'[r] \in {blockers[r], {}} PROVE s \in Held(lost)
    BY <2>h, UnblockSteps DEF Held
  <2>1. ASSUME NEW r \in Reqs, RunReq(r) PROVE s \in held' \/ pc'[s] # "done" \/ out'[s] # Pending
    <3>1. /\ UNCHANGED held
          /\ \/ \E t : t # Pending /\ out' = [out EXCEPT ![r] = t] /\ pc' = [pc EXCEPT ![r] = "done"]
             \/ \E leaf \in RunLeaves : UNCHANGED out /\ pc' = [pc EXCEPT ![r] = leaf]
      BY <2>1, RunReqShape DEF Finish, Await
    <3>2. s \in Held(lost)
      BY <2>1, <2>h, RunReqShape DEF TypeOK
    <3> QED
      BY <3>1, <3>2 DEF TriedInv, RunLeaves, TypeOK
  <2>2. ASSUME NEW r \in Reqs, NextHeld(r) PROVE s \in held' \/ pc'[s] # "done" \/ out'[s] # Pending
    <3>1. s \in Held(lost)
      BY <2>2, <2>h DEF NextHeld
    <3> QED
      BY <2>2, <3>1 DEF NextHeld, Await, TriedInv, TypeOK
  <2>3. ASSUME NEW r \in Reqs, UnblockRebase(r)
        PROVE  s \in held' \/ pc'[s] # "done" \/ out'[s] # Pending
    <3>1. /\ UNCHANGED held
          /\ \/ \E t : t # Pending /\ out' = [out EXCEPT ![r] = t] /\ pc' = [pc EXCEPT ![r] = "done"]
             \/ UNCHANGED out /\ pc' = [pc EXCEPT ![r] = "phases05"]
      BY <2>3, RebaseShape, TerminalsDiffer DEF Finish, Await
    <3>2. s \in Held(lost)
      BY <2>3, <2>h, RebaseShape
    <3> QED
      BY <3>1, <3>2 DEF TriedInv, TypeOK
  <2>4. CASE UNCHANGED <<pc, blockers, out, held, resumed, lost>>
    <3>1. s \in Held(lost)
      BY <2>4, <2>h
    <3> QED
      BY <2>4, <3>1 DEF TriedInv
  <2> QED
    BY <2>1, <2>2, <2>3, <2>4, UnblockSteps
<1>2. CASE stage # "unblock"
  <2>1. UnblockScan
    <3>1. ASSUME NEW r \in Reqs PROVE ~RunReq(r) /\ ~AtBarrier(r) /\ ~NextHeld(r) /\ ~Throw(r)
                                      /\ ~UnblockRebase(r)
      BY <1>2, RunningStages, BarrierShape, RebaseShape, ThrowShape DEF NextHeld, OrderInv
    <3> QED
      BY <1>2, <3>1, Steps DEF EnterBarrier, LeaveBarrier, ReturnResults
  <2> QED
    BY <2>1 DEF UnblockScan, Partial, Held
<1> QED
  BY <1>1, <1>2

\* As long as no leaf does half its job, no held REQ whose worktree and phase are
\* there is forgotten when the pass returns.
THEOREM NobodyForgotten == "partial" \notin Faults => (Spec => EveryHeldIsTried)
<1> SUFFICES ASSUME "partial" \notin Faults PROVE Spec => EveryHeldIsTried
  OBVIOUS
<1> DEFINE Tried == stage' = "returned" => \A r \in Held(lost') : out[r] # Pending
<1>1. TypeOK /\ OrderInv /\ TriedInv /\ [Next]_vars => [Tried]_vars
  <2> SUFFICES ASSUME TypeOK, OrderInv, TriedInv, [Next]_vars, ~UNCHANGED vars, stage' = "returned",
                      NEW r \in Held(lost')
               PROVE  out[r] # Pending
    OBVIOUS
  <2> USE DEF OrderInv
  <2>1. CASE UnblockScan
    BY <2>1 DEF UnblockScan, Partial
  <2>2. CASE ReturnResults
    BY <2>2 DEF ReturnResults, TriedInv, AllDone, Held
  <2>3. CASE ~UnblockScan /\ ~ReturnResults
    <3>1. ASSUME NEW q \in Reqs, RunReq(q) \/ AtBarrier(q) \/ NextHeld(q) \/ Throw(q) \/ UnblockRebase(q)
          PROVE  FALSE
      BY <3>1, RunningStages, BarrierShape, ThrowShape, RebaseShape DEF NextHeld
    <3>2. ~EnterBarrier /\ ~LeaveBarrier
      BY DEF EnterBarrier, LeaveBarrier
    <3>3. ASSUME NEW q \in Reqs, NEW d \in Repos, Outside(q, d) PROVE FALSE
      BY <3>3 DEF Outside
    <3> QED
      BY <2>3, <3>1, <3>2, <3>3 DEF Next, LeafReturn, RunReq, AtBarrier, Orchestrate, Terminated
  <2> QED
    BY <2>1, <2>2, <2>3
<1>2. TypeOK /\ OrderInv /\ TriedInv /\ [Next]_vars => TriedInv'
  BY TriedStep
<1>3. Init => TriedInv
  BY DEF Init, TriedInv
<1> QED
  BY <1>1, <1>2, <1>3, Typing, OrderInitially, OrderStep, PTL DEF Spec, EveryHeldIsTried

-----------------------------------------------------------------------------
(* Halts *)

\* Only the thread of r leaves the result of r, and only while it is Pending; the
\* stitching of the barrier and of the unblock pass takes what out holds.
LEMMA ResultSteps ==
    ASSUME TypeOK, OrderInv, [Next]_vars, NEW r \in Reqs, result'[r] # result[r]
    PROVE  \/ result[r] = Pending
           \/ LeaveBarrier /\ out[r] # Pending /\ result'[r] = out[r]
           \/ ReturnResults /\ out[r] # Pending /\ result'[r] = out[r]
<1> USE DEF OrderInv
<1>f. ASSUME NEW q \in Reqs, NEW t, pc[q] # "done", Finish(q, t) PROVE result[r] = Pending
  <2>1. q = r /\ stage = "pipeline"
    BY <1>f DEF Finish, TypeOK
  <2> QED
    BY <1>f, <2>1 DEF StageInv
<1>1. ASSUME NEW q \in Reqs, RunReq(q) \/ AtBarrier(q) \/ UnblockRebase(q)
      PROVE  result[r] = Pending
  <2>1. pc[q] # "done" /\ ((\E t : Finish(q, t)) \/ (\E leaf : Await(q, leaf)))
    BY <1>1, RunReqShape, BarrierShape, RebaseShape DEF RunLeaves
  <2> QED
    BY <2>1, <1>f DEF Await
<1>2. ASSUME NEW q \in Reqs, Throw(q) PROVE result[r] = Pending
  BY <1>2, <1>f, ThrowShape
<1>3. ASSUME NEW q \in Reqs, NextHeld(q) PROVE FALSE
  BY <1>3 DEF NextHeld, Await
<1>4. ~EnterBarrier /\ ~UnblockScan /\ ~UNCHANGED result
  BY DEF EnterBarrier, UnblockScan
<1>5. CASE LeaveBarrier \/ ReturnResults
  BY <1>5 DEF LeaveBarrier, ReturnResults
<1> QED
  BY <1>1, <1>2, <1>3, <1>4, <1>5, Steps

LEMMA OutStep ==
    ASSUME AutoRebaseMaxAttempts = 1, TypeOK, OrderInv, SerialInv, OutInv, [Next]_vars
    PROVE  OutInv'
<1> USE DEF OrderInv
<1>1. ASSUME NEW r \in Reqs, RunReq(r) PROVE OutInv'
  <2>1. stage' = stage /\ UNCHANGED resumed /\ pc[r] \notin {"done", "rebasing"}
    BY <1>1, RunReqShape DEF RunLeaves
  <2>2. CASE stage = "pipeline"
    <3>1. UNCHANGED out
      BY <1>1, <2>2, RunReqShape DEF Finish, Await
    <3> QED
      BY <2>1, <2>2, <3>1 DEF OutInv
  <2>3. CASE stage = "unblock"
    <3>1. \A s \in Reqs : s # r => out'[s] = out[s] /\ pc'[s] = pc[s]
      BY <1>1, RunReqShape DEF Finish, Await, TypeOK
    <3>2. r \in resumed
      BY <2>1, <2>3 DEF OutInv
    <3> QED
      BY <2>1, <2>3, <3>1, <3>2 DEF OutInv
  <2> QED
    BY <1>1, <2>2, <2>3, RunningStages
<1>2. ASSUME NEW r \in Reqs, AtBarrier(r) PROVE OutInv'
  <2>1. stage = "barrier" /\ stage' = stage /\ r \in PendingReqs
    BY <1>2, BarrierShape DEF SerialInv
  <2>2. UNCHANGED result /\ \A s \in Reqs : s # r => out'[s] = out[s]
    BY <1>2, <2>1, BarrierShape DEF Finish, Await, TypeOK
  <2> QED
    BY <2>1, <2>2 DEF OutInv, PendingReqs
<1>3. ASSUME NEW r \in Reqs, NextHeld(r) PROVE OutInv'
  BY <1>3 DEF NextHeld, Await, OutInv, TypeOK
<1>4. ASSUME NEW r \in Reqs, UnblockRebase(r) PROVE OutInv'
  <2>1. stage = "unblock" /\ stage' = stage
    BY <1>4, RebaseShape, RunningStages
  <2>2. CASE Await(r, "phases05") /\ resumed' = resumed \cup {r}
    BY <2>1, <2>2 DEF Await, OutInv, TypeOK
  <2>3. CASE UNCHANGED resumed /\ Finish(r, blocked("needs-manual-rebase"))
    <3>1. Finish(r, blocked("needs-manual-rebase"))
      BY <2>3
    <3>2. out' = [out EXCEPT ![r] = blocked("needs-manual-rebase")] /\ pc' = [pc EXCEPT ![r] = "done"]
      BY <2>1, <3>1 DEF Finish
    <3>3. out'[r].reason = "needs-manual-rebase" /\ \A s \in Reqs : s # r => out'[s] = out[s] /\ pc'[s] = pc[s]
      BY <3>2 DEF TypeOK, blocked
    <3> QED
      BY <2>1, <2>3, <3>2, <3>3 DEF OutInv, TypeOK
  <2>4. ASSUME NEW attempts \in 0 .. AutoRebaseMaxAttempts PROVE attempts + 1 >= AutoRebaseMaxAttempts
    OBVIOUS
  <2>5. \/ resumed' = resumed \cup {r} /\ Await(r, "phases05")
        \/ UNCHANGED resumed /\ Finish(r, blocked("needs-manual-rebase"))
    BY <1>4, <2>4 DEF UnblockRebase
  <2> QED
    BY <2>2, <2>3, <2>5
<1>5. ASSUME NEW r \in Reqs, Throw(r) PROVE OutInv'
  <2>1. CASE stage = "pipeline" /\ stage' = "pipeline" /\ Finish(r, Dropped)
    BY <2>1 DEF Finish, OutInv
  <2>2. CASE /\ stage = "barrier" /\ stage' = "barrier" /\ UNCHANGED result
             /\ \A s \in Reqs : out'[s] \in {out[s], Pending}
    BY <2>2 DEF OutInv, PendingReqs
  <2>3. CASE stage' = "thrown"
    BY <2>3 DEF OutInv
  <2> QED
    BY <1>5, <2>1, <2>2, <2>3, ThrowShape
<1>6. CASE EnterBarrier \/ LeaveBarrier \/ UnblockScan \/ ReturnResults
  BY <1>6 DEF EnterBarrier, LeaveBarrier, UnblockScan, ReturnResults, OutInv, PendingReqs, PlaceInv, AllDone
<1>7. CASE UNCHANGED <<stage, pc, prs, critical, blockers, result, out, held, cleared, resumed, lost>>
  BY <1>7 DEF OutInv, PendingReqs
<1> QED
  BY <1>1, <1>2, <1>3, <1>4, <1>5, <1>6, <1>7, Steps

\* With the one attempt the script makes at a rebase, no halt or failure that was
\* reported is replaced but by the unblock pass, for a REQ it resumed or gave up on.
THEOREM HaltsSurvive == AutoRebaseMaxAttempts = 1 => (Spec => HaltSurvives)
<1> SUFFICES ASSUME AutoRebaseMaxAttempts = 1 PROVE Spec => HaltSurvives
  OBVIOUS
<1> DEFINE Survives == \A r \in Reqs :
               result[r].state \in {"blocked", "failed"} /\ result'[r] # result[r]
                   => /\ stage = "unblock"
                      /\ r \in resumed \/ result'[r].reason = "needs-manual-rebase"
<1>1. TypeOK /\ OrderInv /\ SerialInv /\ OutInv /\ [Next]_vars => [Survives]_vars
  <2> SUFFICES ASSUME TypeOK, OrderInv, SerialInv, OutInv, [Next]_vars, NEW r \in Reqs,
                      result[r].state \in {"blocked", "failed"}, result'[r] # result[r]
               PROVE  stage = "unblock" /\ (r \in resumed \/ result'[r].reason = "needs-manual-rebase")
    OBVIOUS
  <2>1. result[r] # Pending
    BY DEF Pending
  <2>2. ~(LeaveBarrier /\ out[r] # Pending)
    BY DEF LeaveBarrier, OutInv, PendingReqs
  <2> QED
    BY <2>1, <2>2, ResultSteps DEF ReturnResults, OutInv
<1>2. Init => OutInv
  BY DEF Init, OutInv
<1>3. TypeOK /\ OrderInv /\ SerialInv /\ OutInv /\ [Next]_vars => OutInv' /\ SerialInv'
  BY OutStep, SerialStep DEF OrderInv
<1> QED
  BY <1>1, <1>2, <1>3, Typing, SerialInitially, OrderInitially, OrderStep, PTL DEF Spec, HaltSurvives
=============================================================================
