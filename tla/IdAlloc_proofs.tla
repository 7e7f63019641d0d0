--------------------------- MODULE IdAlloc_proofs ---------------------------
(***************************************************************************)
(* Mutual exclusion and uniqueness of ids on one machine, for any number   *)
(* of processes, machines and ids and for every combination of faults, as  *)
(* long as nobody runs out of retries; and the refinement of Tickets.      *)
(***************************************************************************)
EXTENDS IdAlloc, TLAPS

-----------------------------------------------------------------------------
(* Type correctness *)

LEMMA TypeInitially == Init => TypeOK
<1> SUFFICES ASSUME Init PROVE TypeOK
  OBVIOUS
<1>1. Ids \subseteq Nat
  BY IdsType
<1>2. counter \in [Machines -> Nat] /\ remote \subseteq Nat
  BY <1>1 DEF Init
<1>3. local \in [Machines -> SUBSET Nat]
  <2>1. SUBSET Ids \subseteq SUBSET Nat
    BY <1>1
  <2> QED
    BY <2>1 DEF Init
<1>4. file \in [Machines -> {"absent", "empty", "full"}]
  BY DEF Init
<1> QED
  BY <1>2, <1>3, <1>4 DEF Init, TypeOK, PCs

LEMMA TypeStep == TypeOK /\ [Next]_vars => TypeOK'
<1> SUFFICES ASSUME TypeOK, [Next]_vars PROVE TypeOK'
  OBVIOUS
<1> USE HomeType DEF TypeOK, Goto, procVars, diskVars, history
<1>1. ASSUME NEW p \in Procs, Derive(p) PROVE TypeOK'
  BY <1>1 DEF Derive, PCs
<1>2. ASSUME NEW p \in Procs, Lock(p) PROVE TypeOK'
  BY <1>2 DEF Lock, PCs
<1>3. ASSUME NEW p \in Procs, GiveUp(p) PROVE TypeOK'
  BY <1>3 DEF GiveUp, PCs
<1>4. ASSUME NEW p \in Procs, Guard(p) PROVE TypeOK'
  BY <1>4 DEF Guard, PCs
<1>5. ASSUME NEW p \in Procs, Read(p) PROVE TypeOK'
  <2>1. CASE file[Home[p]] = "absent"
    <3>1. PICK h \in local[Home[p]] \cup {0} : num' = [num EXCEPT ![p] = h + 1]
      BY <1>5, <2>1 DEF Read
    <3>2. h + 1 \in Nat
      OBVIOUS
    <3> QED
      BY <1>5, <2>1, <3>1, <3>2 DEF Read, PCs
  <2>2. CASE file[Home[p]] # "absent"
    BY <1>5, <2>2 DEF Read, PCs
  <2> QED
    BY <2>1, <2>2
<1>6. ASSUME NEW p \in Procs, Truncate(p) PROVE TypeOK'
  BY <1>6 DEF Truncate, Computed, PCs
<1>7. ASSUME NEW p \in Procs, Fill(p) PROVE TypeOK'
  BY <1>7 DEF Fill, PCs
<1>8. ASSUME NEW p \in Procs, Unlock(p) PROVE TypeOK'
  BY <1>8 DEF Unlock, PCs
<1>9. ASSUME NEW p \in Procs, Create(p) PROVE TypeOK'
  BY <1>9 DEF Create, PCs
<1>10. ASSUME NEW p \in Procs, Push(p) PROVE TypeOK'
  BY <1>10 DEF Push, PCs
<1>11. ASSUME NEW p \in Procs, Crash(p) PROVE TypeOK'
  BY <1>11 DEF Crash, PCs
<1>13. ASSUME NEW p \in Procs, Refuse(p) PROVE TypeOK'
  BY <1>13 DEF Refuse, PCs
<1>14. ASSUME NEW p \in Procs, SaveFails(p) PROVE TypeOK'
  BY <1>14 DEF SaveFails, Computed, PCs
<1>12. CASE Quiet \/ UNCHANGED vars
  BY <1>12 DEF Quiet, vars
<1> QED
  BY <1>1, <1>2, <1>3, <1>4, <1>5, <1>6, <1>7, <1>8, <1>9, <1>10, <1>11, <1>12, <1>13,
     <1>14 DEF Next, Run

\* Every reachable state of the allocator is well typed.
THEOREM Typing == Spec => []TypeOK
  BY TypeInitially, TypeStep, PTL DEF Spec

-----------------------------------------------------------------------------
(* The lock *)

\* Past mkdir: from the guard to the rmdir.
Owner(p) == pc[p] = "guard" \/ InSection(p)

\* While nobody has run out of retries the directory is there for its owner, and
\* a machine has one owner at most.  The guard has to be counted in: between
\* mkdir and the test nothing but the directory keeps others out.
LockInv ==
    ~fell =>
        /\ \A p \in Procs : Owner(p) => lock[Home[p]]
        /\ \A p, q \in Procs : p # q /\ Home[p] = Home[q] => ~(Owner(p) /\ Owner(q))

LEMMA LockInitially == Init => LockInv
  BY DEF Init, LockInv, Owner, InSection

LEMMA LockStep == TypeOK /\ LockInv /\ [Next]_vars => LockInv'
<1> SUFFICES ASSUME TypeOK, LockInv, [Next]_vars, ~fell'
             PROVE  /\ \A p \in Procs : Owner(p)' => lock'[Home[p]]
                    /\ \A p, q \in Procs : p # q /\ Home[p] = Home[q] => ~(Owner(p)' /\ Owner(q)')
  BY DEF LockInv
<1>1. ~fell
  BY DEF Next, Run, Derive, Refuse, SaveFails, history, Lock, GiveUp, Guard, Read, Truncate, Fill, Unlock, Create,
         Push, Crash, Quiet, vars
<1> USE <1>1, HomeType DEF TypeOK, LockInv, Owner, InSection, Goto, diskVars
<1>2. CASE \E r \in Procs : Lock(r)
  BY <1>2 DEF Lock
<1>3. CASE \E r \in Procs : GiveUp(r)
  BY <1>3 DEF GiveUp
<1>4. CASE \E r \in Procs : Read(r)
  BY <1>4 DEF Read
<1>5. CASE \E r \in Procs : Unlock(r)
  BY <1>5 DEF Unlock
<1>6. CASE \E r \in Procs : Derive(r) \/ Refuse(r) \/ Create(r) \/ Push(r) \/ Crash(r)
  BY <1>6 DEF Derive, Refuse, Create, Push, Crash
<1>7. CASE \E r \in Procs : Guard(r) \/ Truncate(r) \/ Fill(r) \/ SaveFails(r)
  BY <1>7 DEF Guard, Truncate, Fill, SaveFails
<1>8. CASE Quiet \/ UNCHANGED vars
  BY <1>8 DEF Quiet, vars, procVars, history
<1> QED
  BY <1>2, <1>3, <1>4, <1>5, <1>6, <1>7, <1>8 DEF Next, Run

\* Two processes of one machine are inside the locked block together only after
\* somebody has run out of retries.
THEOREM Mutex == Spec => []MutexUntilTimeout
<1>1. LockInv => MutexUntilTimeout
  BY DEF LockInv, MutexUntilTimeout, Owner
<1> QED
  BY <1>1, Typing, LockInitially, LockStep, PTL DEF Spec

-----------------------------------------------------------------------------
(* The numbers *)

\* A process that has not computed its number yet has none; a number about to be
\* issued is larger than every number of the machine; so is the number in a full
\* counter file.  An absent file means that the machine has issued nothing.
NumberInv ==
    ~fell /\ ~unsaved =>
        /\ \A p \in Procs :
              pc[p] \in {"start", "trying", "guard", "read", "truncate"} => alloc[p] = 0
        /\ \A p, q \in Procs : Home[p] = Home[q] /\ pc[p] = "truncate" => alloc[q] < num[p]
        /\ \A p, q \in Procs :
              Home[p] = Home[q] /\ p # q /\ pc[p] = "fill" => alloc[q] < alloc[p]
        /\ \A p \in Procs : file[Home[p]] = "full" => alloc[p] < counter[Home[p]]
        /\ \A p \in Procs : file[Home[p]] = "absent" => alloc[p] = 0

IInv == TypeOK /\ LockInv /\ NumberInv /\ UniqueUntilTimeout

LEMMA NumberInitially == Init => NumberInv /\ UniqueUntilTimeout
<1> SUFFICES ASSUME Init PROVE NumberInv /\ UniqueUntilTimeout
  OBVIOUS
<1>1. \A m \in Machines : counter[m] \in Nat /\ 0 < counter[m]
  <2>1. \A m \in Machines : counter[m] \in Nat \ {0}
    BY IdsType DEF Init
  <2> QED
    BY <2>1
<1> QED
  BY <1>1, HomeType DEF Init, NumberInv, UniqueUntilTimeout, Taken

\* The steps that neither compute a number nor touch the counter file.
Aside(p) ==
    \/ Derive(p) \/ Refuse(p) \/ Lock(p) \/ Guard(p) \/ Unlock(p) \/ Create(p) \/ Push(p) \/ Crash(p)

LEMMA NumberStep == IInv /\ [Next]_vars => NumberInv' /\ UniqueUntilTimeout'
<1> SUFFICES ASSUME IInv, [Next]_vars, ~fell', ~unsaved', ~fell, ~unsaved
             PROVE  NumberInv' /\ UniqueUntilTimeout'
  <2>1. ASSUME [Next]_vars, ~fell', ~unsaved' PROVE ~fell /\ ~unsaved
    BY <2>1 DEF Next, Run, Derive, Refuse, SaveFails, history, Lock, GiveUp, Guard, Read, Truncate, Fill, Unlock,
                Create, Push, Crash, Quiet, vars
  <2> QED
    BY <2>1 DEF NumberInv, UniqueUntilTimeout
<1> USE HomeType DEF IInv, TypeOK, Goto
<1>1. ASSUME NEW r \in Procs, Aside(r) PROVE NumberInv' /\ UniqueUntilTimeout'
  <2>1. UNCHANGED <<num, alloc, file, counter>>
    BY <1>1 DEF Aside, Derive, Refuse, Lock, Guard, Unlock, Create, Push, Crash, diskVars
  <2>2. \A p \in Procs : pc'[p] = pc[p] \/ (p = r /\ pc'[p] \notin {"truncate", "fill"})
    BY <1>1 DEF Aside, Derive, Refuse, Lock, Guard, Unlock, Create, Push, Crash
  <2>3. pc'[r] \in {"trying", "guard", "read"} => pc[r] \in {"start", "trying", "guard"}
    BY <1>1 DEF Aside, Derive, Refuse, Lock, Guard, Unlock, Create, Push, Crash
  <2>4. pc'[r] # "start"
    BY <1>1 DEF Aside, Derive, Refuse, Lock, Guard, Unlock, Create, Push, Crash
  <2> QED
    BY <2>1, <2>2, <2>3, <2>4 DEF NumberInv, UniqueUntilTimeout, Taken
<1>2. ASSUME NEW r \in Procs, GiveUp(r) \/ SaveFails(r) PROVE FALSE
  BY <1>2 DEF GiveUp, SaveFails
<1>3. ASSUME NEW r \in Procs, Read(r) PROVE NumberInv' /\ UniqueUntilTimeout'
  <2>1. UNCHANGED <<alloc, file, counter>>
    BY <1>3 DEF Read
  <2>2. pc[r] = "read" /\ pc' = [pc EXCEPT ![r] = pc'[r]] /\ pc'[r] \in {"truncate", "aborted"}
    BY <1>3 DEF Read
  <2>3. \A q \in Procs : q # r => num'[q] = num[q]
    BY <1>3 DEF Read
  <2>4. ASSUME NEW q \in Procs, Home[q] = Home[r], pc'[r] = "truncate" PROVE alloc[q] < num'[r]
    <3>1. CASE file[Home[r]] = "full"
      BY <1>3, <2>4, <3>1 DEF Read, NumberInv
    <3>2. CASE file[Home[r]] = "absent"
      <4>1. PICK h \in local[Home[r]] \cup {0} : num' = [num EXCEPT ![r] = h + 1]
        BY <1>3, <3>2 DEF Read
      <4>2. alloc[q] = 0 /\ num'[r] = h + 1 /\ h \in Nat
        BY <2>4, <3>2, <4>1 DEF NumberInv
      <4> QED
        BY <4>2
    <3>3. CASE file[Home[r]] = "empty"
      BY <1>3, <2>4, <3>3 DEF Read
    <3> QED
      BY <3>1, <3>2, <3>3
  <2> QED
    BY <2>1, <2>2, <2>3, <2>4 DEF NumberInv, UniqueUntilTimeout, Taken
<1>4. ASSUME NEW r \in Procs, Truncate(r) PROVE NumberInv' /\ UniqueUntilTimeout'
  <2>1. /\ pc[r] = "truncate" /\ pc' = [pc EXCEPT ![r] = "fill"]
        /\ \A q \in Procs : q # r => alloc'[q] = alloc[q]
        /\ file' = [file EXCEPT ![Home[r]] = "empty"]
        /\ UNCHANGED <<num, counter>>
    BY <1>4 DEF Truncate
  <2>2. alloc'[r] \in Nat /\ num[r] <= alloc'[r]
    BY <1>4 DEF Truncate, Computed
  <2>3. \A q \in Procs : Home[q] = Home[r] => alloc[q] < alloc'[r]
    BY <2>1, <2>2 DEF NumberInv
  <2>4. \A q \in Procs : q # r /\ Home[q] = Home[r] => pc[q] \notin {"truncate", "fill"}
    BY <2>1 DEF LockInv, Owner, InSection
  <2> QED
    BY <2>1, <2>2, <2>3, <2>4 DEF NumberInv, UniqueUntilTimeout, Taken
<1>5. ASSUME NEW r \in Procs, Fill(r) PROVE NumberInv' /\ UniqueUntilTimeout'
  <2>1. /\ pc[r] = "fill" /\ pc' = [pc EXCEPT ![r] = "unlock"]
        /\ counter' = [counter EXCEPT ![Home[r]] = alloc[r] + 1]
        /\ file' = [file EXCEPT ![Home[r]] = "full"]
        /\ UNCHANGED <<num, alloc>>
    BY <1>5 DEF Fill
  <2>2. \A q \in Procs : Home[q] = Home[r] => alloc[q] < alloc[r] + 1
    BY <2>1 DEF NumberInv
  <2> QED
    BY <2>1, <2>2 DEF NumberInv, UniqueUntilTimeout, Taken
<1>6. CASE Quiet \/ UNCHANGED vars
  BY <1>6 DEF Quiet, vars, procVars, diskVars, history, NumberInv, UniqueUntilTimeout, Taken
<1> QED
  BY <1>1, <1>2, <1>3, <1>4, <1>5, <1>6 DEF Next, Run, Aside

\* The inductive invariant holds throughout.
LEMMA Inductive == Spec => []IInv
<1>1. Init => IInv
  BY TypeInitially, LockInitially, NumberInitially DEF IInv
<1>2. IInv /\ [Next]_vars => IInv'
  BY TypeStep, LockStep, NumberStep DEF IInv
<1> QED
  BY <1>1, <1>2, PTL DEF Spec

\* Until somebody runs out of retries or cannot write the counter, two processes of one
\* machine never get the same id, whichever scans are degraded and whichever processes die.
THEOREM Unique == Spec => []UniqueUntilTimeout
<1>1. IInv => UniqueUntilTimeout
  BY DEF IInv
<1> QED
  BY <1>1, Inductive, PTL

-----------------------------------------------------------------------------
(* Refinement *)

NoneFell == ~fell /\ ~unsaved
NoLapse == Faults \cap {"timeout", "unwritable"} = {}

LEMMA NobodyFalls == NoLapse => (Spec => []NoneFell)
<1> SUFFICES ASSUME NoLapse PROVE Spec => []NoneFell
  OBVIOUS
<1>1. Init => NoneFell
  BY DEF Init, NoneFell
<1>2. NoneFell /\ [Next]_vars => NoneFell'
  BY DEF NoLapse, NoneFell, Next, Run, Derive, Refuse, SaveFails, history, Lock, GiveUp, Guard, Read, Truncate, Fill, Unlock, Create,
         Push, Crash, Quiet, vars
<1> QED
  BY <1>1, <1>2, PTL DEF Spec

\* Where the retries never run out and counters can be written, the ids of a machine are issued like tickets:
\* each larger than all before it, at most one to a process.
THEOREM IssuesTickets == NoLapse => (Spec => TicketSpec)
<1> SUFFICES ASSUME NoLapse PROVE Spec => TicketSpec
  OBVIOUS
<1>1. Init => Issued!Init
  BY DEF Init, Issued!Init
<1>2. IInv /\ NoneFell /\ [Next]_vars => [Issued!Next]_alloc
  <2> SUFFICES ASSUME IInv, NoneFell, [Next]_vars PROVE [Issued!Next]_alloc
    OBVIOUS
  <2>1. ASSUME NEW r \in Procs, Truncate(r) PROVE Issued!Issue(r)
    <3>1. alloc' = [alloc EXCEPT ![r] = alloc'[r]] /\ alloc'[r] \in Nat /\ num[r] <= alloc'[r]
      BY <2>1 DEF Truncate, Computed, IInv, TypeOK
    <3>2. alloc[r] = 0 /\ \A q \in Procs : Home[q] = Home[r] => alloc[q] < num[r]
      BY <2>1 DEF NoneFell, Truncate, IInv, NumberInv
    <3>3. \A q \in Procs : Home[q] = Home[r] => alloc[q] < alloc'[r]
      BY <3>1, <3>2 DEF IInv, TypeOK
    <3> QED
      BY <3>1, <3>2, <3>3 DEF Issued!Issue
  <2>2. CASE \E r \in Procs : Truncate(r)
    BY <2>1, <2>2 DEF Issued!Next
  <2>3. CASE ~\E r \in Procs : Truncate(r)
    <3>1. \A r \in Procs : ~SaveFails(r)
      BY DEF SaveFails, NoLapse
    <3> QED
      BY <2>3, <3>1 DEF Next, Run, Derive, Refuse, history, Lock, GiveUp, Guard, Read, Fill, Unlock, Create, Push,
                Crash, Quiet, vars, procVars
  <2> QED
    BY <2>2, <2>3
<1> QED
  BY <1>1, <1>2, Inductive, NobodyFalls, PTL DEF Spec, TicketSpec, Issued!Spec
=============================================================================
