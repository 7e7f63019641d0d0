------------------------------- MODULE ReqRun -------------------------------
(***************************************************************************)
(* Phases 0-5 of runReq for one REQ: worktree, the two validation gates,   *)
(* the serial implementation of the planned tasks, the review panel with   *)
(* its single fix-and-reverify loop.  A step is the return of a leaf agent *)
(* and what the script does before it awaits the next one.  The worktree   *)
(* and pipeline-state.json outlive the run: a run may die between any two  *)
(* leaves, and the orchestrator relaunches the script from the top, with   *)
(* the user's reply in args.answers once a halt has been answered.         *)
(*                                                                         *)
(* Leaves whose answer steers nothing are folded into the next leaf: the   *)
(* explorers (into the architect), the manifest and the delegate pre-pass  *)
(* (into the panel).  Tasks are numbered by their place in the plan.       *)
(***************************************************************************)
EXTENDS Naturals, FiniteSets

CONSTANTS
    Tasks,               \* task ids an architect may plan
    Tiers,               \* dependency tiers
    Repos, Reviewers,    \* touched repositories; REVIEWER_DIMENSIONS
    Titles,              \* (file, normalized title) keys of findings
    MAX_GATE_ITERATIONS,
    Faults,              \* "null": a leaf yields null.  "idle": a writer leaf does nothing.
    MaxRuns,             \* bound: how often the script is launched
    MaxFindings          \* bound: findings in one reviewer's report

ASSUME TasksType ==
    Tasks \subseteq Nat \ {0} /\ IsFiniteSet(Tasks) /\ Tiers \subseteq Nat /\ 0 \in Tiers
ASSUME ReviewersType == "reflector" \notin Reviewers
ASSUME IterationsType == MAX_GATE_ITERATIONS \in Nat \ {0}
ASSUME BoundsType == MaxRuns \in Nat \ {0} /\ MaxFindings \in Nat
ASSUME FaultsType == Faults \subseteq {"null", "idle"}

VARIABLES
    pc,         \* the leaf the run awaits
    gate,       \* the gate it is in or was in last
    attempt,    \* i of the gate's loop
    todo,       \* planned tasks the loop of implement() has still to visit
    tier,       \* tier of each planned task
    task,       \* the task being implemented (0: none yet)
    panel,      \* findings by seat; a dropped reviewer has no entry
    end,        \* how the last run ended
    ans,        \* whether args.answers holds a reply for the REQ
    completed,  \* pipeline-state.json phase4.completedTasks
    commits,    \* commits per task in the worktree
    runs,       \* launches so far
    \* history, for the properties only
    passed,     \* gates passed in this run
    plan,       \* tasks planned in this run
    idled,      \* tasks whose implementer did nothing, in any run
    unrecorded, \* tasks whose entry in completedTasks was not written, in any run
    raised,     \* the panel's report before any fix
    fresh,      \* seats that reported again after the fix
    guided      \* whether a fix agent was given the reply in Phase 5

progress == <<gate, attempt, todo, tier, task>>
disk == <<completed, commits>>
history == <<plan, idled, unrecorded>>
review == <<panel, raised, fresh, guided>>
vars == <<pc, progress, end, ans, disk, runs, passed, history, review>>

Seats == Repos \X (Reviewers \cup {"reflector"})
Finding == [title : Titles, blocking : BOOLEAN, userFacing : BOOLEAN]
Halts == {"spec-validation", "arch-validation", "reflector-questions"}
Ends == {"none", "phase0-no-worktree", "threw", "through"} \cup Halts
PCs == {"phase0", "validate", "fix", "architect", "completed-read", "implement", "state",
        "panel", "fixFindings", "reverify", "ended", "crashed"}

TypeOK ==
    /\ pc \in PCs /\ end \in Ends /\ (pc = "ended") = (end # "none")
    /\ gate \in {"spec", "arch"} /\ passed \subseteq {"spec", "arch"}
    /\ attempt \in 1 .. MAX_GATE_ITERATIONS
    /\ todo \subseteq Tasks /\ tier \in [Tasks -> Tiers] /\ task \in Tasks \cup {0}
    /\ completed \subseteq Tasks
    /\ plan \subseteq Tasks /\ idled \subseteq Tasks /\ unrecorded \subseteq Tasks
    /\ commits \in [Tasks -> 0 .. MaxRuns]
    /\ DOMAIN panel \subseteq Seats /\ \A s \in DOMAIN panel : panel[s] \subseteq Finding
    /\ DOMAIN raised \subseteq Seats /\ fresh \subseteq Seats
    /\ ans \in BOOLEAN /\ guided \in BOOLEAN
    /\ runs \in 1 .. MaxRuns

-----------------------------------------------------------------------------
(* The pure helpers of Phase 5, over the reports that did arrive *)

NoReports == [s \in {} |-> {}]
MayBeNull == "null" \in Faults
MayIdle == "idle" \in Faults

\* dedupeAndRank merges findings of one repository with the same title: the
\* survivor blocks if one of them does and carries all their dimensions.
Blocking(p) ==
    {k \in Repos \X Titles :
        \E s \in DOMAIN p : s[1] = k[1] /\ \E f \in p[s] : f.title = k[2] /\ f.blocking}
blocks(p) == Blocking(p) # {}

reflectorQuestions(p) ==
    {t \in Titles : \E s \in DOMAIN p :
        s[2] = "reflector" /\ \E f \in p[s] : f.title = t /\ f.userFacing}

\* Every reviewer that raised a blocking finding, the reflector excepted.
fixedPairs(p) ==
    {s \in DOMAIN p : s[2] \in Reviewers /\ \E f \in p[s] : <<s[1], f.title>> \in Blocking(p)}

\* Mutant: whatever was to be checked again is dropped first.
mergeReverifiedOver(p, again) ==
    [s \in (DOMAIN p \ fixedPairs(p)) \cup DOMAIN again |->
        IF s \in DOMAIN again THEN again[s] ELSE p[s]]

mergeReverified(p, again) ==
    [s \in DOMAIN p \cup DOMAIN again |-> IF s \in DOMAIN again THEN again[s] ELSE p[s]]

\* What the reviewers in S may report: any of them may drop out.
Reports(S) == UNION {[D -> {F \in SUBSET Finding : Cardinality(F) <= MaxFindings}] : D \in SUBSET S}

\* orderByTier: ascending tier, then the order of the plan.
NextTask(t) == t \in todo /\ \A u \in todo : tier[t] < tier[u] \/ (tier[t] = tier[u] /\ t <= u)

-----------------------------------------------------------------------------
Init ==
    /\ pc = "phase0" /\ end = "none" /\ ans = FALSE /\ runs = 1
    /\ gate = "spec" /\ attempt = 1 /\ passed = {}
    /\ plan = {} /\ idled = {} /\ unrecorded = {}
    /\ todo = {} /\ task = 0 /\ tier = [t \in Tasks |-> 0]
    /\ completed = {} /\ commits = [t \in Tasks |-> 0]
    /\ panel = NoReports /\ raised = NoReports /\ fresh = {} /\ guided = FALSE

End(how) == pc' = "ended" /\ end' = how
Await(leaf) == pc' = leaf /\ UNCHANGED end
EnterGate(g) == gate' = g /\ attempt' = 1

Phase0 ==
    /\ pc = "phase0"
    /\ \/ Await("validate")
       \/ End("phase0-no-worktree")
       \/ MayBeNull /\ End("threw")
    /\ UNCHANGED <<progress, ans, disk, runs, passed, history, review>>

\* Mutant: the loop's bound is off by one.
ValidateOnceMore ==
    /\ pc = "validate"
    /\ \/ /\ passed' = passed \cup {gate}
          /\ Await(IF gate = "spec" THEN "architect" ELSE "completed-read")
       \/ /\ IF attempt > MAX_GATE_ITERATIONS
               THEN End(IF gate = "spec" THEN "spec-validation" ELSE "arch-validation")
               ELSE Await("fix")
          /\ UNCHANGED passed
    /\ UNCHANGED <<progress, ans, disk, runs, history, review>>

\* gate(): a null verdict is dereferenced.
Validate ==
    /\ pc = "validate"
    /\ \/ /\ passed' = passed \cup {gate}
          /\ Await(IF gate = "spec" THEN "architect" ELSE "completed-read")
       \/ /\ IF attempt = MAX_GATE_ITERATIONS
               THEN End(IF gate = "spec" THEN "spec-validation" ELSE "arch-validation")
               ELSE Await("fix")
          /\ UNCHANGED passed
       \/ MayBeNull /\ End("threw") /\ UNCHANGED passed
    /\ UNCHANGED <<progress, ans, disk, runs, history, review>>

\* Mutant: a fix does not use up an attempt.
FixForFree ==
    /\ pc = "fix"
    /\ Await("validate")
    /\ UNCHANGED <<progress, ans, disk, runs, passed, history, review>>

Fix ==
    /\ pc = "fix"
    /\ attempt' = attempt + 1
    /\ Await("validate")
    /\ UNCHANGED <<gate, todo, tier, task, ans, disk, runs, passed, history, review>>

\* Mutant: the plan is implemented without the second gate.
ArchitectUngated ==
    /\ pc = "architect"
    /\ todo' \in SUBSET Tasks /\ plan' = todo' /\ tier' \in [Tasks -> Tiers]
    /\ Await("completed-read")
    /\ UNCHANGED <<gate, attempt, task, ans, disk, runs, passed, idled, unrecorded, review>>

Architect ==
    /\ pc = "architect"
    /\ \/ /\ todo' \in SUBSET Tasks /\ plan' = todo' /\ tier' \in [Tasks -> Tiers]
          /\ EnterGate("arch")
          /\ Await("validate")
       \/ MayBeNull /\ End("threw") /\ UNCHANGED <<todo, plan, tier, gate, attempt>>
    /\ UNCHANGED <<task, ans, disk, runs, passed, idled, unrecorded, review>>

\* A null answer counts as an empty list.
ReadCompleted ==
    /\ pc = "completed-read"
    /\ \E done \in {completed} \cup (IF MayBeNull THEN {{}} ELSE {}) : todo' = todo \ done
    /\ Await(IF todo' = {} THEN "panel" ELSE "implement")
    /\ UNCHANGED <<gate, attempt, tier, task, ans, disk, runs, passed, history, review>>

\* Mutant: a task is recorded when it is handed out, and the session may die
\* before its implementer has committed anything.
ImplementRecorded(t) ==
    /\ pc = "implement" /\ NextTask(t)
    /\ task' = t /\ todo' = todo \ {t} /\ completed' = completed \cup {t}
    /\ \/ /\ commits' = [commits EXCEPT ![t] = @ + 1]
          /\ Await("state")
       \/ /\ pc' = "crashed"
          /\ UNCHANGED <<commits, end>>
    /\ UNCHANGED <<gate, attempt, tier, ans, runs, passed, history, review>>

\* The implementer's answer is not read.
Implement(t) ==
    /\ pc = "implement" /\ NextTask(t)
    /\ task' = t /\ todo' = todo \ {t}
    /\ \/ commits' = [commits EXCEPT ![t] = @ + 1] /\ UNCHANGED idled
       \/ MayIdle /\ idled' = idled \cup {t} /\ UNCHANGED commits
    /\ Await("state")
    /\ UNCHANGED <<gate, attempt, tier, ans, completed, runs, passed, plan, unrecorded, review>>

RecordCompleted ==
    /\ pc = "state"
    /\ \/ completed' = completed \cup {task} /\ UNCHANGED unrecorded
       \/ MayIdle /\ unrecorded' = unrecorded \cup {task} /\ UNCHANGED completed
    /\ Await(IF todo = {} THEN "panel" ELSE "implement")
    /\ UNCHANGED <<progress, ans, commits, runs, passed, plan, idled, review>>

\* Mutant: only blocking findings lead to the fix pass, a reply alone does not.
PanelBlocksOnly ==
    /\ pc = "panel"
    /\ panel' \in Reports(Seats) /\ raised' = panel'
    /\ LET questions == reflectorQuestions(panel') IN
       IF questions # {} /\ ~ans
         THEN End("reflector-questions")
         ELSE IF blocks(panel') THEN Await("fixFindings") ELSE End("through")
    /\ UNCHANGED <<progress, ans, disk, runs, passed, history, fresh, guided>>

\* The panel reports; a question halts unless the REQ has a reply; a blocking
\* finding, or a reply to apply, leads to the one fix pass.
Panel ==
    /\ pc = "panel"
    /\ panel' \in Reports(Seats) /\ raised' = panel'
    /\ LET questions == reflectorQuestions(panel') IN
       IF questions # {} /\ ~ans
         THEN End("reflector-questions")
         ELSE IF blocks(panel') \/ (ans /\ questions # {})
              THEN Await("fixFindings") ELSE End("through")
    /\ UNCHANGED <<progress, ans, disk, runs, passed, history, fresh, guided>>

FixFindings ==
    /\ pc = "fixFindings"
    /\ guided' = ans
    /\ IF fixedPairs(panel) = {} THEN End("through") ELSE Await("reverify")
    /\ UNCHANGED <<progress, ans, disk, runs, passed, history, panel, raised, fresh>>

Reverify ==
    /\ pc = "reverify"
    /\ \E again \in Reports(fixedPairs(panel)) :
          panel' = mergeReverified(panel, again) /\ fresh' = DOMAIN again
    /\ End("through")
    /\ UNCHANGED <<progress, ans, disk, runs, passed, history, raised, guided>>

Leaf ==
    \/ Phase0 \/ Validate \/ Fix \/ Architect \/ ReadCompleted
    \/ (\E t \in Tasks : Implement(t)) \/ RecordCompleted
    \/ Panel \/ FixFindings \/ Reverify

-----------------------------------------------------------------------------
\* The session dies between two leaves.
Crash ==
    /\ pc \notin {"ended", "crashed"}
    /\ pc' = "crashed"
    /\ unrecorded' = IF pc = "state" THEN unrecorded \cup {task} ELSE unrecorded
    /\ UNCHANGED <<progress, end, ans, disk, runs, passed, plan, idled, review>>

\* A dead or thrown run is relaunched; a halted one is resumed with the user's
\* reply, which stays in args.answers from then on.
Relaunch ==
    /\ runs < MaxRuns
    /\ pc = "crashed" \/ end \in Halts \cup {"threw", "phase0-no-worktree"}
    /\ ans' = (ans \/ end \in Halts)
    /\ runs' = runs + 1
    /\ pc' = "phase0" /\ end' = "none"
    /\ EnterGate("spec")
    /\ passed' = {} /\ plan' = {} /\ todo' = {}
    /\ panel' = NoReports /\ raised' = NoReports /\ fresh' = {} /\ guided' = FALSE
    /\ UNCHANGED <<tier, task, disk, idled, unrecorded>>

Over == pc \in {"ended", "crashed"} /\ UNCHANGED vars

Next == Leaf \/ Crash \/ Relaunch \/ Over
Spec == Init /\ [][Next]_vars

\* Every leaf call settles, so the run takes its next step unless it dies.
FairSpec == Spec /\ WF_vars(Leaf)

-----------------------------------------------------------------------------
(* Properties *)

\* No implementer commits before both gates have passed in the same run, however
\* often the script was relaunched before, none for a task that pipeline-state.json
\* lists as completed, and a second time for the same task only when the record of
\* the first was never written: its leaf did nothing, or the run died before it.
WorkIsDue ==
    [][\A t \in Tasks : commits'[t] # commits[t] =>
          /\ passed = {"spec", "arch"} /\ t \notin completed
          /\ commits[t] > 0 => t \in unrecorded]_vars

\* The dependency tiers hold in the worktree across deaths, skips and relaunches
\* with another plan: when a task is committed, whatever the plan has on a lower
\* tier is in the worktree, from this run or an earlier one, unless an implementer
\* was handed it and did nothing.
BuiltOnLowerTiers ==
    [][\A t \in Tasks : commits'[t] # commits[t] =>
          \A u \in plan : tier[u] < tier[t] => commits[u] > 0 \/ u \in idled]_vars

\* A blocking finding never silently disappears: a run that gets through with
\* nothing blocking has heard again, after the fix, from every reviewer that had
\* raised a blocking finding; a reviewer that dropped out clears nothing.
BlockingNeverVanishes ==
    end = "through" /\ ~blocks(panel) =>
        \A s \in DOMAIN raised : (\E f \in raised[s] : f.blocking) => s \in fresh

\* A reply to a reflector question reaches the worktree: a run that gets through
\* although the reflector asked something has given a fix agent the reply.
AnswerReaches == end = "through" /\ reflectorQuestions(raised) # {} => guided

\* A launched run comes to an end or dies: three validations per gate, each task
\* once, one fix pass.
RunEnds == (pc = "phase0") ~> (pc \in {"ended", "crashed"})
=============================================================================
