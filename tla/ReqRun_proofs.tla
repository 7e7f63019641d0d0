---------------------------- MODULE ReqRun_proofs ----------------------------
(***************************************************************************)
(* Proofs about ReqRun, for any tasks, reviewers, findings and bounds.     *)
(***************************************************************************)
EXTENDS ReqRun, TLAPS

Gates == {"spec", "arch"}
BeforeWork == {"phase0", "validate", "fix", "architect", "completed-read"}

\* The gates: the second is entered with the first one passed, the attempts of a gate
\* stay below its bound as long as there is something to fix.
GateInv ==
    /\ pc = "phase0" => gate = "spec"
    /\ pc = "fix" => attempt < MAX_GATE_ITERATIONS
    /\ pc \in {"validate", "fix"} /\ gate = "arch" => "spec" \in passed
    /\ pc = "architect" => "spec" \in passed
    /\ pc \in {"completed-read", "implement", "state"} => passed = Gates

\* A task is handed out once in a run, so it has a commit at most for each run.
WorkInv ==
    /\ todo \subseteq plan
    /\ pc \in BeforeWork => todo = plan
    /\ pc = "state" => task \in Tasks /\ task \notin todo
    /\ \A t \in Tasks : commits[t] <= runs /\ (t \notin plan \ todo => commits[t] < runs)

\* What was on record when the list of the completed tasks was read is not due.
DueInv == pc \in {"implement", "state"} => todo \cap completed = {}

\* A commit is on record, is about to be, or its record was never written.
RecordInv ==
    \A t \in Tasks : commits[t] > 0 => \/ t \in completed \cup unrecorded
                                       \/ pc = "state" /\ task = t

\* What is on record, and what the plan has and is not to be visited any more, is in
\* the worktree or was handed to an implementer that did nothing.
Visited(t) == commits[t] > 0 \/ t \in idled
BuiltInv ==
    /\ \A t \in completed \cup (plan \ todo) : Visited(t)
    /\ pc = "state" => Visited(task)

\* The panel's report is the one that is fixed, and a question is behind it only with
\* a reply at hand.
PanelInv ==
    /\ pc \in {"fixFindings", "reverify"} => raised = panel
    /\ pc = "fixFindings" /\ reflectorQuestions(raised) # {} => ans
    /\ pc = "reverify" /\ reflectorQuestions(raised) # {} => guided

IInv == TypeOK /\ GateInv /\ WorkInv /\ PanelInv /\ BlockingNeverVanishes /\ AnswerReaches

-----------------------------------------------------------------------------
(* The reports of the panel *)

LEMMA ReportsType ==
    ASSUME NEW S, NEW p \in Reports(S)
    PROVE DOMAIN p \subseteq S /\ \A s \in DOMAIN p : p[s] \subseteq Finding
BY DEF Reports

LEMMA FixedAreSeats == ASSUME NEW p, DOMAIN p \subseteq Seats PROVE fixedPairs(p) \subseteq Seats
BY DEF fixedPairs

\* A blocking finding of any seat blocks.
LEMMA Blocks ==
    ASSUME NEW p, NEW s \in DOMAIN p, s \in Seats, NEW f \in p[s], f \in Finding, f.blocking
    PROVE blocks(p)
<1>1. s[1] \in Repos /\ f.title \in Titles
  BY DEF Seats, Finding
<1>2. <<s[1], f.title>> \in Repos \X Titles
  BY <1>1
<1>3. <<s[1], f.title>> \in Blocking(p)
  BY <1>2 DEF Blocking
<1> QED
  BY <1>3 DEF blocks

\* What was not heard again stays as it was, so a report that blocked before and is
\* not heard again still blocks.
LEMMA MergeKeeps ==
    ASSUME NEW p, NEW again, NEW s \in DOMAIN p, s \notin DOMAIN again
    PROVE s \in DOMAIN mergeReverified(p, again) /\ mergeReverified(p, again)[s] = p[s]
BY DEF mergeReverified

LEMMA MergeType ==
    ASSUME NEW p, NEW again,
           DOMAIN p \subseteq Seats, \A s \in DOMAIN p : p[s] \subseteq Finding,
           DOMAIN again \subseteq Seats, \A s \in DOMAIN again : again[s] \subseteq Finding
    PROVE /\ DOMAIN mergeReverified(p, again) \subseteq Seats
          /\ \A s \in DOMAIN mergeReverified(p, again) : mergeReverified(p, again)[s] \subseteq Finding
BY DEF mergeReverified

-----------------------------------------------------------------------------
(* Types *)

LEMMA InitInv == Init => IInv
<1> SUFFICES ASSUME Init PROVE IInv
  OBVIOUS
<1>1. commits \in [Tasks -> 0 .. MaxRuns] /\ tier \in [Tasks -> Tiers]
  BY TasksType, BoundsType DEF Init
<1>2. 1 \in 1 .. MAX_GATE_ITERATIONS /\ 1 \in 1 .. MaxRuns
  BY IterationsType, BoundsType
<1>3. DOMAIN panel = {} /\ DOMAIN raised = {}
  BY DEF Init, NoReports
<1>4. TypeOK
  <2>1. pc = "phase0" /\ end = "none" /\ gate = "spec" /\ attempt = 1 /\ task = 0 /\ runs = 1
    BY DEF Init
  <2>2. /\ ans = FALSE /\ guided = FALSE
        /\ passed = {} /\ todo = {} /\ completed = {} /\ fresh = {}
        /\ plan = {} /\ idled = {} /\ unrecorded = {}
    BY DEF Init
  <2> QED
    BY <1>1, <1>2, <1>3, <2>1, <2>2 DEF TypeOK, PCs, Ends
<1>5. GateInv /\ WorkInv /\ PanelInv /\ BlockingNeverVanishes /\ AnswerReaches
  BY DEF Init, GateInv, WorkInv, PanelInv, BlockingNeverVanishes, AnswerReaches
<1> QED
  BY <1>4, <1>5 DEF IInv

\* The steps of the gates and of the plan.
LEMMA GateTypes ==
    ASSUME TypeOK, GateInv, Phase0 \/ Validate \/ Fix \/ Architect \/ ReadCompleted
    PROVE TypeOK'
<1> USE DEF TypeOK, Await, End, progress, disk, history, review, PCs, Ends, Halts
<1>1. CASE Phase0
  BY <1>1 DEF Phase0
<1>2. CASE Validate
  BY <1>2 DEF Validate
<1>3. CASE Fix
  <2>1. attempt' \in 1 .. MAX_GATE_ITERATIONS
    BY <1>3, IterationsType DEF Fix, GateInv
  <2> QED
    BY <1>3, <2>1 DEF Fix
<1>4. CASE Architect
  <2>1. attempt' \in 1 .. MAX_GATE_ITERATIONS
    BY <1>4, IterationsType DEF Architect, EnterGate
  <2> QED
    BY <1>4, <2>1 DEF Architect, EnterGate
<1>5. CASE ReadCompleted
  BY <1>5 DEF ReadCompleted
<1> QED
  BY <1>1, <1>2, <1>3, <1>4, <1>5

\* The steps of the implementation.
LEMMA WorkTypes ==
    ASSUME TypeOK, WorkInv, (\E t \in Tasks : Implement(t)) \/ RecordCompleted
    PROVE TypeOK'
<1> USE DEF TypeOK, Await, progress, history, review, PCs
<1>1. ASSUME NEW t \in Tasks, Implement(t) PROVE TypeOK'
  <2>1. t \notin plan \ todo
    BY <1>1 DEF Implement, NextTask, WorkInv
  <2>2. commits[t] + 1 \in 0 .. MaxRuns
    BY <2>1, BoundsType DEF WorkInv
  <2>3. commits' \in [Tasks -> 0 .. MaxRuns]
    BY <1>1, <2>2 DEF Implement
  <2> QED
    BY <1>1, <2>3 DEF Implement
<1>2. CASE RecordCompleted
  BY <1>2 DEF RecordCompleted, WorkInv
<1> QED
  BY <1>1, <1>2

\* The steps of the panel.
LEMMA PanelTypes ==
    ASSUME TypeOK, Panel \/ FixFindings \/ Reverify
    PROVE TypeOK'
<1> USE DEF TypeOK, Await, End, progress, disk, history, PCs, Ends, Halts
<1>1. CASE Panel
  <2>1. /\ DOMAIN panel' \subseteq Seats /\ DOMAIN raised' \subseteq Seats
        /\ \A s \in DOMAIN panel' : panel'[s] \subseteq Finding
    BY <1>1, ReportsType DEF Panel
  <2> QED
    BY <1>1, <2>1 DEF Panel
<1>2. CASE FixFindings
  BY <1>2 DEF FixFindings
<1>3. CASE Reverify
  <2>1. PICK again \in Reports(fixedPairs(panel)) :
            panel' = mergeReverified(panel, again) /\ fresh' = DOMAIN again
    BY <1>3 DEF Reverify
  <2>2. DOMAIN again \subseteq Seats /\ \A s \in DOMAIN again : again[s] \subseteq Finding
    BY ReportsType, FixedAreSeats
  <2>3. DOMAIN panel' \subseteq Seats /\ \A s \in DOMAIN panel' : panel'[s] \subseteq Finding
    BY <2>1, <2>2, MergeType
  <2> QED
    BY <1>3, <2>1, <2>2, <2>3 DEF Reverify
<1> QED
  BY <1>1, <1>2, <1>3

\* Death and relaunch.
LEMMA OtherTypes == ASSUME TypeOK, WorkInv, Crash \/ Relaunch \/ UNCHANGED vars PROVE TypeOK'
<1> USE DEF TypeOK, progress, disk, history, review, PCs
<1>1. CASE Crash
  BY <1>1 DEF Crash, WorkInv
<1>2. CASE Relaunch
  <2>1. runs' \in 1 .. MaxRuns /\ attempt' \in 1 .. MAX_GATE_ITERATIONS
    BY <1>2, BoundsType, IterationsType DEF Relaunch, EnterGate
  <2>2. DOMAIN panel' = {} /\ DOMAIN raised' = {}
    BY <1>2 DEF Relaunch, NoReports
  <2> QED
    BY <1>2, <2>1, <2>2 DEF Relaunch, EnterGate, Ends
<1>3. CASE UNCHANGED vars
  BY <1>3 DEF vars
<1> QED
  BY <1>1, <1>2, <1>3

-----------------------------------------------------------------------------
(* The gates and the work *)

LEMMA GateStep == TypeOK /\ GateInv /\ [Next]_vars => GateInv'
<1> SUFFICES ASSUME TypeOK, GateInv, [Next]_vars PROVE GateInv'
  OBVIOUS
<1> USE DEF GateInv, Await, End, progress
<1>1. CASE Phase0
  BY <1>1 DEF Phase0
<1>2. CASE Validate
  <2>1. attempt # MAX_GATE_ITERATIONS => attempt < MAX_GATE_ITERATIONS
    BY IterationsType DEF TypeOK
  <2>2. gate \in Gates /\ passed \subseteq Gates
    BY DEF TypeOK, Gates
  <2> QED
    BY <1>2, <2>1, <2>2 DEF Validate, Gates
<1>3. CASE Fix \/ Architect
  BY <1>3 DEF Fix, Architect, EnterGate
<1>4. CASE ReadCompleted \/ RecordCompleted \/ \E t \in Tasks : Implement(t)
  BY <1>4 DEF ReadCompleted, RecordCompleted, Implement
<1>5. CASE Panel \/ FixFindings \/ Reverify
  BY <1>5 DEF Panel, FixFindings, Reverify
<1>6. CASE Crash \/ Relaunch
  BY <1>6 DEF Crash, Relaunch, EnterGate
<1>7. CASE UNCHANGED vars
  BY <1>7 DEF vars
<1> QED
  BY <1>1, <1>2, <1>3, <1>4, <1>5, <1>6, <1>7 DEF Next, Leaf, Over

LEMMA WorkStep == TypeOK /\ WorkInv /\ [Next]_vars => WorkInv'
<1> SUFFICES ASSUME TypeOK, WorkInv, [Next]_vars PROVE WorkInv'
  OBVIOUS
<1> USE DEF WorkInv, BeforeWork, Await, End, progress, disk, history
<1>1. CASE Phase0 \/ Validate \/ Fix \/ Architect
  BY <1>1 DEF Phase0, Validate, Fix, Architect
<1>2. CASE ReadCompleted
  BY <1>2 DEF ReadCompleted
<1>3. ASSUME NEW t \in Tasks, Implement(t) PROVE WorkInv'
  <2>1. /\ t \in todo /\ task' = t /\ todo' = todo \ {t} /\ plan' = plan
        /\ pc = "implement" /\ pc' = "state" /\ runs' = runs
    BY <1>3 DEF Implement, NextTask
  <2>2. ASSUME NEW u \in Tasks
        PROVE commits'[u] <= runs' /\ (u \notin plan' \ todo' => commits'[u] < runs')
    <3>1. CASE u = t
      <4>1. t \notin plan \ todo
        BY <2>1
      <4>2. commits[t] \in Nat /\ runs \in Nat /\ commits[t] < runs
        BY <4>1, BoundsType DEF TypeOK
      <4>3. commits'[t] = commits[t] \/ commits'[t] = commits[t] + 1
        BY <1>3 DEF Implement, TypeOK
      <4> QED
        BY <2>1, <3>1, <4>2, <4>3
    <3>2. CASE u # t
      <4>1. commits'[u] = commits[u]
        BY <1>3, <3>2 DEF Implement, TypeOK
      <4> QED
        BY <2>1, <3>2, <4>1
    <3> QED
      BY <3>1, <3>2
  <2> QED
    BY <2>1, <2>2
<1>4. CASE RecordCompleted
  BY <1>4 DEF RecordCompleted
<1>5. CASE Panel \/ FixFindings \/ Reverify
  BY <1>5 DEF Panel, FixFindings, Reverify
<1>6. CASE Crash
  BY <1>6 DEF Crash
<1>7. CASE Relaunch
  <2>1. commits' = commits /\ runs' = runs + 1 /\ pc' = "phase0" /\ plan' = {} /\ todo' = {}
    BY <1>7 DEF Relaunch
  <2>2. ASSUME NEW t \in Tasks PROVE commits[t] < runs + 1
    <3>1. commits[t] \in Nat /\ runs \in Nat /\ commits[t] <= runs
      BY BoundsType DEF TypeOK
    <3> QED
      BY <3>1
  <2>3. ASSUME NEW t \in Tasks PROVE commits[t] <= runs + 1
    <3>1. commits[t] \in Nat /\ runs \in Nat /\ commits[t] <= runs
      BY BoundsType DEF TypeOK
    <3> QED
      BY <3>1
  <2> QED
    BY <2>1, <2>2, <2>3
<1>8. CASE UNCHANGED vars
  BY <1>8 DEF vars
<1> QED
  BY <1>1, <1>2, <1>3, <1>4, <1>5, <1>6, <1>7, <1>8 DEF Next, Leaf, Over

\* A state leaf records the task just handed out, which is none of those left.
LEMMA DueStep == ASSUME "null" \notin Faults PROVE WorkInv /\ DueInv /\ [Next]_vars => DueInv'
<1> SUFFICES ASSUME WorkInv, DueInv, [Next]_vars PROVE DueInv'
  OBVIOUS
<1> USE DEF DueInv, Await, End, progress, disk
<1>1. CASE ReadCompleted
  BY <1>1 DEF ReadCompleted, MayBeNull
<1>2. ASSUME NEW t \in Tasks, Implement(t) PROVE DueInv'
  BY <1>2 DEF Implement
<1>3. CASE RecordCompleted
  BY <1>3 DEF RecordCompleted, WorkInv
<1>4. CASE Phase0 \/ Validate \/ Fix \/ Architect \/ Panel \/ FixFindings \/ Reverify
  BY <1>4 DEF Phase0, Validate, Fix, Architect, Panel, FixFindings, Reverify
<1>5. CASE Crash \/ Relaunch \/ UNCHANGED vars
  BY <1>5 DEF Crash, Relaunch, vars
<1> QED
  BY <1>1, <1>2, <1>3, <1>4, <1>5 DEF Next, Leaf, Over

\* A commit leaves the state leaf to come; the record, its loss and a death take it over.
LEMMA RecordStep == TypeOK /\ WorkInv /\ RecordInv /\ [Next]_vars => RecordInv'
<1> SUFFICES ASSUME TypeOK, WorkInv, RecordInv, [Next]_vars PROVE RecordInv'
  OBVIOUS
<1> USE DEF RecordInv, Await, End, progress, disk, history
<1>1. ASSUME NEW t \in Tasks, Implement(t) PROVE RecordInv'
  <2>1. /\ pc = "implement" /\ pc' = "state" /\ task' = t
        /\ UNCHANGED <<completed, unrecorded>>
        /\ \A u \in Tasks \ {t} : commits'[u] = commits[u]
    BY <1>1 DEF Implement, TypeOK
  <2> QED
    BY <2>1
<1>2. CASE RecordCompleted
  BY <1>2 DEF RecordCompleted
<1>3. CASE Crash
  BY <1>3 DEF Crash
<1>4. CASE Phase0 \/ Validate \/ Fix \/ Architect \/ ReadCompleted \/ Panel \/ FixFindings \/ Reverify
  BY <1>4 DEF Phase0, Validate, Fix, Architect, ReadCompleted, Panel, FixFindings, Reverify
<1>5. CASE Relaunch
  <2>1. pc # "state"
    BY <1>5 DEF Relaunch, TypeOK, Halts
  <2> QED
    BY <1>5, <2>1 DEF Relaunch
<1>6. CASE UNCHANGED vars
  BY <1>6 DEF vars
<1> QED
  BY <1>1, <1>2, <1>3, <1>4, <1>5, <1>6 DEF Next, Leaf, Over

\* Nothing leaves the list of a run's tasks, or enters the record, but by a visit.
LEMMA BuiltStep == TypeOK /\ WorkInv /\ BuiltInv /\ [Next]_vars => BuiltInv'
<1> SUFFICES ASSUME TypeOK, WorkInv, BuiltInv, [Next]_vars PROVE BuiltInv'
  OBVIOUS
<1> USE DEF BuiltInv, Visited, Await, End, progress, disk, history
<1>1. ASSUME NEW t \in Tasks, Implement(t) PROVE BuiltInv'
  <2>1. /\ pc' = "state" /\ task' = t /\ todo' = todo \ {t}
        /\ UNCHANGED <<completed, plan>>
    BY <1>1 DEF Implement
  <2>2. \A u \in Tasks \ {t} : Visited(u) => commits'[u] > 0 \/ u \in idled'
    BY <1>1 DEF Implement, TypeOK
  <2>3. commits'[t] > 0 \/ t \in idled'
    <3>1. commits[t] \in Nat
      BY BoundsType DEF TypeOK
    <3>2. commits'[t] = commits[t] + 1 \/ t \in idled'
      BY <1>1 DEF Implement, TypeOK
    <3> QED
      BY <3>1, <3>2
  <2>4. completed \subseteq Tasks /\ plan \subseteq Tasks
    BY DEF TypeOK
  <2> QED
    BY <2>1, <2>2, <2>3, <2>4
<1>2. CASE RecordCompleted
  BY <1>2 DEF RecordCompleted
<1>3. CASE ReadCompleted
  BY <1>3 DEF ReadCompleted, WorkInv, BeforeWork
<1>4. CASE Architect
  BY <1>4 DEF Architect, EnterGate
<1>5. CASE Phase0 \/ Validate \/ Fix \/ Panel \/ FixFindings \/ Reverify \/ Crash
  BY <1>5 DEF Phase0, Validate, Fix, Panel, FixFindings, Reverify, Crash
<1>6. CASE Relaunch \/ UNCHANGED vars
  BY <1>6 DEF Relaunch, vars
<1> QED
  BY <1>1, <1>2, <1>3, <1>4, <1>5, <1>6 DEF Next, Leaf, Over

-----------------------------------------------------------------------------
(* The panel *)

\* Outside of the panel's own steps its reports and the reply stay, or a run begins.
Elsewhere ==
    \/ UNCHANGED <<review, ans>> /\ pc' \notin {"fixFindings", "reverify"} /\ end' # "through"
    \/ UNCHANGED <<review, ans, pc, end>>

LEMMA StepsElsewhere ==
    ASSUME TypeOK, [Next]_vars
    PROVE Panel \/ FixFindings \/ Reverify \/ Relaunch \/ Elsewhere
<1> USE DEF Elsewhere, Await, End, progress, disk
<1>1. CASE Phase0 \/ Validate \/ Fix \/ Architect \/ ReadCompleted \/ RecordCompleted
           \/ \E t \in Tasks : Implement(t)
  BY <1>1 DEF Phase0, Validate, Fix, Architect, ReadCompleted, RecordCompleted, Implement, TypeOK
<1>2. CASE Crash
  BY <1>2 DEF Crash, TypeOK
<1>3. CASE UNCHANGED vars
  BY <1>3 DEF vars
<1> QED
  BY <1>1, <1>2, <1>3 DEF Next, Leaf, Over

\* What a panel that reports leads to.
LEMMA PanelLeads ==
    ASSUME TypeOK, Panel
    PROVE /\ raised' = panel' /\ panel' \in Reports(Seats) /\ ans' = ans
          /\ pc' # "reverify"
          /\ pc' = "fixFindings" => (reflectorQuestions(panel') # {} => ans)
          /\ end' = "through" => ~blocks(panel') /\ reflectorQuestions(panel') = {}
<1> DEFINE q == reflectorQuestions(panel')
           b == blocks(panel')
<1>1. /\ raised' = panel' /\ panel' \in Reports(Seats) /\ ans' = ans
      /\ end # "through"
      /\ IF q # {} /\ ~ans THEN End("reflector-questions")
         ELSE IF b \/ (ans /\ q # {}) THEN Await("fixFindings") ELSE End("through")
  BY DEF Panel, TypeOK
<1> HIDE DEF q, b
<1>2. /\ pc' # "reverify"
      /\ pc' = "fixFindings" => (q # {} => ans)
  BY <1>1 DEF End, Await
<1>3. CASE q # {} /\ ~ans
  BY <1>1, <1>2, <1>3 DEF End, q, b
<1>4. CASE ~(q # {} /\ ~ans) /\ (b \/ (ans /\ q # {}))
  BY <1>1, <1>2, <1>4 DEF Await, q, b
<1>5. CASE ~b /\ q = {}
  BY <1>1, <1>2, <1>5 DEF q, b
<1> QED
  BY <1>3, <1>4, <1>5

LEMMA PanelStep == IInv /\ [Next]_vars => PanelInv'
<1> SUFFICES ASSUME IInv, [Next]_vars PROVE PanelInv'
  OBVIOUS
<1> USE DEF IInv, PanelInv
<1>1. CASE Panel
  BY <1>1, PanelLeads
<1>2. CASE FixFindings
  <2>1. /\ UNCHANGED <<panel, raised, ans>> /\ guided' = ans /\ pc = "fixFindings"
        /\ pc' # "fixFindings"
    BY <1>2 DEF FixFindings, End, Await
  <2>2. reflectorQuestions(raised') = reflectorQuestions(raised)
    BY <2>1
  <2> QED
    BY <2>1, <2>2
<1>3. CASE Reverify
  BY <1>3 DEF Reverify, End
<1>4. CASE Relaunch
  BY <1>4 DEF Relaunch
<1>5. CASE Elsewhere
  <2>1. UNCHANGED <<panel, raised, ans, guided>>
    BY <1>5 DEF Elsewhere, review
  <2>2. reflectorQuestions(raised') = reflectorQuestions(raised)
    BY <2>1
  <2> QED
    BY <1>5, <2>1, <2>2 DEF Elsewhere
<1> QED
  BY <1>1, <1>2, <1>3, <1>4, <1>5, StepsElsewhere

\* A report of the panel has only findings of the code's shape, so what blocks is seen.
LEMMA NothingBlocks ==
    ASSUME NEW p, DOMAIN p \subseteq Seats, \A s \in DOMAIN p : p[s] \subseteq Finding,
           ~blocks(p)
    PROVE \A s \in DOMAIN p : \A f \in p[s] : ~f.blocking
BY Blocks

LEMMA VanishStep == IInv /\ [Next]_vars => BlockingNeverVanishes'
<1> SUFFICES ASSUME IInv, [Next]_vars PROVE BlockingNeverVanishes'
  OBVIOUS
<1> USE DEF IInv, BlockingNeverVanishes
<1>1. CASE Panel
  <2> SUFFICES ASSUME end' = "through" PROVE \A s \in DOMAIN panel' : \A f \in panel'[s] : ~f.blocking
    BY <1>1, PanelLeads
  <2>1. DOMAIN panel' \subseteq Seats /\ \A s \in DOMAIN panel' : panel'[s] \subseteq Finding
    BY <1>1, ReportsType, PanelLeads
  <2> QED
    BY <1>1, <2>1, PanelLeads, NothingBlocks
<1>2. CASE FixFindings
  <2>1. UNCHANGED <<panel, raised>> /\ raised = panel
    BY <1>2 DEF FixFindings, PanelInv
  <2>2. ~blocks(panel) => \A s \in DOMAIN raised : \A f \in raised[s] : ~f.blocking
    BY <2>1, NothingBlocks DEF TypeOK
  <2> QED
    BY <2>1, <2>2
<1>3. CASE Reverify
  <2>1. PICK again \in Reports(fixedPairs(panel)) :
            panel' = mergeReverified(panel, again) /\ fresh' = DOMAIN again
    BY <1>3 DEF Reverify
  <2>2. raised' = raised /\ raised = panel
    BY <1>3 DEF Reverify, PanelInv
  <2>3. SUFFICES ASSUME ~blocks(panel'), NEW s \in DOMAIN panel, NEW f \in panel[s],
                        f.blocking, s \notin DOMAIN again
                 PROVE FALSE
    BY <2>1, <2>2
  <2>4. s \in DOMAIN panel' /\ f \in panel'[s]
    BY <2>1, <2>3, MergeKeeps
  <2>5. s \in Seats /\ f \in Finding
    BY <2>3 DEF TypeOK
  <2> QED
    BY <2>3, <2>4, <2>5, Blocks
<1>4. CASE Relaunch
  BY <1>4 DEF Relaunch
<1>5. CASE Elsewhere
  BY <1>5 DEF Elsewhere, review
<1> QED
  BY <1>1, <1>2, <1>3, <1>4, <1>5, StepsElsewhere

LEMMA AnswerStep == IInv /\ [Next]_vars => AnswerReaches'
<1> SUFFICES ASSUME IInv, [Next]_vars PROVE AnswerReaches'
  OBVIOUS
<1> USE DEF IInv, AnswerReaches
<1>1. CASE Panel
  BY <1>1, PanelLeads
<1>2. CASE FixFindings
  <2>1. raised' = raised /\ guided' = ans /\ pc = "fixFindings"
    BY <1>2 DEF FixFindings
  <2> QED
    BY <2>1 DEF PanelInv
<1>3. CASE Reverify
  <2>1. raised' = raised /\ guided' = guided /\ pc = "reverify"
    BY <1>3 DEF Reverify
  <2> QED
    BY <2>1 DEF PanelInv
<1>4. CASE Relaunch
  BY <1>4 DEF Relaunch
<1>5. CASE Elsewhere
  <2>1. raised' = raised /\ guided' = guided /\ (end' = "through" => end = "through")
    BY <1>5 DEF Elsewhere, review
  <2> QED
    BY <2>1
<1> QED
  BY <1>1, <1>2, <1>3, <1>4, <1>5, StepsElsewhere

-----------------------------------------------------------------------------
LEMMA NextInv == IInv /\ [Next]_vars => IInv'
<1> SUFFICES ASSUME IInv, [Next]_vars PROVE IInv'
  OBVIOUS
<1>1. TypeOK'
  BY GateTypes, WorkTypes, PanelTypes, OtherTypes DEF IInv, Next, Leaf, Over
<1> QED
  BY <1>1, GateStep, WorkStep, PanelStep, VanishStep, AnswerStep DEF IInv

LEMMA Inductive == Spec => []IInv
BY InitInv, NextInv, PTL DEF Spec

\* The state of a run has its type in every reachable state, for any number of
\* launches, deaths and faults of the leaves.
THEOREM Typing == Spec => []TypeOK
<1>1. IInv => TypeOK
  BY DEF IInv
<1> QED
  BY <1>1, Inductive, PTL

\* No blocking finding is lost between the panel, the fix pass and the second report,
\* for any findings, reviewers that drop out, and repositories.
THEOREM NoBlockingLost == Spec => []BlockingNeverVanishes
<1>1. IInv => BlockingNeverVanishes
  BY DEF IInv
<1> QED
  BY <1>1, Inductive, PTL

\* A run gets past a question of the reflector only by giving its fix agent the reply.
THEOREM RepliesReach == Spec => []AnswerReaches
<1>1. IInv => AnswerReaches
  BY DEF IInv
<1> QED
  BY <1>1, Inductive, PTL

\* Only an implementer commits.
LEMMA CommitsOf ==
    ASSUME Next PROVE commits' = commits \/ \E t \in Tasks : Implement(t)
BY DEF Next, Leaf, Over, Phase0, Validate, Fix, Architect, ReadCompleted, RecordCompleted, Panel,
       FixFindings, Reverify, Crash, Relaunch, disk, vars

\* As long as the leaf that reads pipeline-state.json answers, only work that passed
\* both gates and is not on record is committed, and twice only if the first commit's
\* record was never written.
THEOREM OnlyDueWork == ("null" \notin Faults) => (Spec => WorkIsDue)
<1> DEFINE Due == \A t \in Tasks : commits'[t] # commits[t] =>
                      /\ passed = {"spec", "arch"} /\ t \notin completed
                      /\ commits[t] > 0 => t \in unrecorded
<1> SUFFICES ASSUME "null" \notin Faults PROVE Spec => WorkIsDue
  OBVIOUS
<1>1. Init => DueInv /\ RecordInv
  BY DEF Init, DueInv, RecordInv
<1>2. IInv /\ DueInv /\ RecordInv /\ [Next]_vars => DueInv' /\ RecordInv'
  BY DueStep, RecordStep DEF IInv
<1>3. IInv /\ DueInv /\ RecordInv /\ [Next]_vars => [Due]_vars
  <2> SUFFICES ASSUME IInv, DueInv, RecordInv, Next PROVE Due
    BY DEF vars
  <2>1. ASSUME NEW t \in Tasks, Implement(t) PROVE Due
    <3>1. passed = {"spec", "arch"} /\ t \notin completed
      BY <2>1 DEF IInv, GateInv, Gates, DueInv, Implement, NextTask
    <3>2. \A u \in Tasks \ {t} : commits'[u] = commits[u]
      BY <2>1 DEF Implement, IInv, TypeOK
    <3>3. commits[t] > 0 => t \in unrecorded
      BY <2>1, <3>1 DEF RecordInv, Implement
    <3> QED
      BY <3>1, <3>2, <3>3
  <2>2. ASSUME commits' = commits PROVE Due
    BY <2>2
  <2> QED
    BY <2>1, <2>2, CommitsOf
<1> QED
  BY <1>1, <1>2, <1>3, Inductive, PTL DEF Spec, WorkIsDue

\* Whatever was skipped, lost or planned anew: a task is committed only with all of
\* its plan's lower tiers in the worktree or left undone by an implementer.
THEOREM TiersKept == Spec => BuiltOnLowerTiers
<1> DEFINE Kept == \A t \in Tasks : commits'[t] # commits[t] =>
               \A u \in plan : tier[u] < tier[t] => commits[u] > 0 \/ u \in idled
<1>1. Init => BuiltInv
  BY DEF Init, BuiltInv
<1>2. IInv /\ BuiltInv /\ [Next]_vars => BuiltInv'
  BY BuiltStep DEF IInv
<1>3. IInv /\ BuiltInv /\ [Next]_vars => [Kept]_vars
  <2> SUFFICES ASSUME IInv, BuiltInv, Next PROVE Kept
    BY DEF vars
  <2>1. ASSUME NEW t \in Tasks, Implement(t) PROVE Kept
    <3>1. \A u \in Tasks \ {t} : commits'[u] = commits[u]
      BY <2>1 DEF Implement, IInv, TypeOK
    <3>2. ASSUME NEW u \in plan, tier[u] < tier[t] PROVE commits[u] > 0 \/ u \in idled
      <4>1. tier[t] \in Nat /\ tier[u] \in Nat
        BY TasksType DEF IInv, TypeOK
      <4>2. u \notin todo
        BY <2>1, <3>2, <4>1 DEF Implement, NextTask
      <4> QED
        BY <4>2 DEF BuiltInv, Visited
    <3> QED
      BY <3>1, <3>2
  <2>2. ASSUME commits' = commits PROVE Kept
    BY <2>2
  <2> QED
    BY <2>1, <2>2, CommitsOf
<1> QED
  BY <1>1, <1>2, <1>3, Inductive, PTL DEF Spec, BuiltOnLowerTiers
=============================================================================
