------------------------------- MODULE IdAlloc -------------------------------
(***************************************************************************)
(* adlc_alloc_id of partials/id-alloc.sh: shell processes on one or more   *)
(* machines allocate ids of one kind.  The processes of a machine share a  *)
(* counter file under a mkdir lock; all machines see the remote's branches *)
(* and merged artifacts.  Every file-system operation of the locked block  *)
(* is a step of its own, the redirection `echo ... > "$COUNTER"` two: the  *)
(* shell truncates the file, then echo fills it.                           *)
(*                                                                         *)
(* The 50 retries of 0.1s are a lapse of time, so running out of them is a *)
(* step that may be taken whenever the lock is found taken.                *)
(***************************************************************************)
EXTENDS Integers, FiniteSets

CONSTANTS
    Procs,      \* invocations of adlc_alloc_id, each used once
    Machines,
    Home,       \* process -> machine whose $HOME/.claude it uses
    Ids,        \* bound: ids that exist before the first process starts
    Faults      \* "timeout": retries run out.  "degraded": a remote source fails.
                \* "crash": a process dies.  "symlink": the lock path is one.
                \* "unwritable": the counter cannot be written.

ASSUME HomeType == Home \in [Procs -> Machines]
ASSUME IdsType == Ids \subseteq Nat \ {0}
ASSUME FaultsType == Faults \subseteq {"timeout", "degraded", "crash", "symlink", "unwritable"}

VARIABLES
    pc, remoteHigh, num, alloc,   \* per process: where it is, REMOTE_HIGH, NUM, ALLOC
    lock,       \* per machine: the lock directory exists
    file,       \* per machine: the counter file is absent, empty or full
    counter,    \* per machine: the number in it when it is full
    local,      \* per machine: ids with an artifact on its disk
    remote,     \* ids with a branch or a merged artifact on the remote
    fell,       \* history: a process got past the lock guard without the lock
    unsaved     \* history: a process did not get the counter written

procVars == <<pc, remoteHigh, num, alloc>>
diskVars == <<lock, file, counter, local>>
history == <<fell, unsaved>>
vars == <<procVars, diskVars, remote, history>>

PCs == {"start", "trying", "guard", "read", "truncate", "fill", "unlock", "allocated",
        "created", "pushed", "aborted", "dead"}

TypeOK ==
    /\ pc \in [Procs -> PCs]
    /\ remoteHigh \in [Procs -> Nat] /\ num \in [Procs -> Nat] /\ alloc \in [Procs -> Nat]
    /\ lock \in [Machines -> BOOLEAN]
    /\ file \in [Machines -> {"absent", "empty", "full"}]
    /\ counter \in [Machines -> Nat]
    /\ local \in [Machines -> SUBSET Nat]
    /\ remote \subseteq Nat
    /\ fell \in BOOLEAN /\ unsaved \in BOOLEAN

\* adlc_id_list_max: h is the maximum of S, 0 if S is empty.
IsHigh(h, S) == h \in S \cup {0} /\ \A k \in S : k <= h

Goto(p, l) == pc' = [pc EXCEPT ![p] = l]

-----------------------------------------------------------------------------
Init ==
    /\ pc = [p \in Procs |-> "start"]
    /\ remoteHigh = [p \in Procs |-> 0] /\ num = [p \in Procs |-> 0]
    /\ alloc = [p \in Procs |-> 0]
    /\ lock = [m \in Machines |-> FALSE]
    /\ file \in [Machines -> {"absent", "full"}]
    /\ counter \in [Machines -> Ids]
    /\ local \in [Machines -> SUBSET Ids]
    /\ remote \in SUBSET Ids
    /\ fell = FALSE /\ unsaved = FALSE

\* Mutant: a scan that fails counts as -1 and is not caught.
DeriveUnguarded(p) ==
    /\ pc[p] = "start"
    /\ remoteHigh' = [remoteHigh EXCEPT ![p] = -1]
    /\ Goto(p, "trying")
    /\ UNCHANGED <<num, alloc, diskVars, remote, history>>

\* adlc_remote_high, outside the lock.  A degraded scan misses part of the remote;
\* one that prints no number aborts the allocation.
Derive(p) ==
    /\ pc[p] = "start"
    /\ \/ \E h \in remote \cup {0} :
             /\ IsHigh(h, remote) \/ "degraded" \in Faults
             /\ remoteHigh' = [remoteHigh EXCEPT ![p] = h]
             /\ Goto(p, "trying")
       \/ /\ "degraded" \in Faults
          /\ Goto(p, "aborted") /\ UNCHANGED remoteHigh
    /\ UNCHANGED <<num, alloc, diskVars, remote, history>>

\* The lock path is a symbolic link.
Refuse(p) ==
    /\ "symlink" \in Faults /\ pc[p] = "trying"
    /\ Goto(p, "aborted")
    /\ UNCHANGED <<remoteHigh, num, alloc, diskVars, remote, history>>

\* Mutant: mkdir -p, which succeeds on a directory that exists.
LockAnyway(p) ==
    /\ pc[p] = "trying"
    /\ lock' = [lock EXCEPT ![Home[p]] = TRUE]
    /\ Goto(p, "guard")
    /\ UNCHANGED <<remoteHigh, num, alloc, file, counter, local, remote, history>>

\* mkdir succeeds.
Lock(p) ==
    /\ pc[p] = "trying" /\ ~lock[Home[p]]
    /\ lock' = [lock EXCEPT ![Home[p]] = TRUE]
    /\ Goto(p, "guard")
    /\ UNCHANGED <<remoteHigh, num, alloc, file, counter, local, remote, history>>

\* Mutant: the retries have no end.
GiveUpNever(p) == pc[p] = "trying" /\ lock[Home[p]] /\ UNCHANGED vars

\* The last mkdir fails.
GiveUp(p) ==
    /\ "timeout" \in Faults /\ pc[p] = "trying" /\ lock[Home[p]]
    /\ Goto(p, "guard")
    /\ fell' = TRUE
    /\ UNCHANGED <<remoteHigh, num, alloc, diskVars, remote, unsaved>>

\* The guard asks whether the directory is there, not who made it.
Guard(p) ==
    /\ pc[p] = "guard"
    /\ Goto(p, IF lock[Home[p]] THEN "read" ELSE "aborted")
    /\ UNCHANGED <<remoteHigh, num, alloc, diskVars, remote, history>>

Read(p) ==
    LET m == Home[p] IN
    /\ pc[p] = "read"
    /\ \/ /\ file[m] = "full"
          /\ num' = [num EXCEPT ![p] = counter[m]]
          /\ Goto(p, "truncate") /\ UNCHANGED lock
       \/ /\ file[m] = "absent"
          /\ \E h \in local[m] \cup {0} :
                IsHigh(h, local[m]) /\ num' = [num EXCEPT ![p] = h + 1]
          /\ Goto(p, "truncate") /\ UNCHANGED lock
       \/ /\ file[m] = "empty"
          /\ lock' = [lock EXCEPT ![m] = FALSE]
          /\ Goto(p, "aborted") /\ UNCHANGED num
    /\ UNCHANGED <<remoteHigh, alloc, file, counter, local, remote, history>>

\* Mutant: the remote alone decides.
TruncateRemote(p) ==
    /\ pc[p] = "truncate"
    /\ alloc' = [alloc EXCEPT ![p] = remoteHigh[p] + 1]
    /\ file' = [file EXCEPT ![Home[p]] = "empty"]
    /\ Goto(p, "fill")
    /\ UNCHANGED <<remoteHigh, num, lock, counter, local, remote, history>>

\* HIGH = max(NUM - 1, REMOTE_HIGH); ALLOC = HIGH + 1.
Computed(p) == IF remoteHigh[p] >= num[p] THEN remoteHigh[p] + 1 ELSE num[p]

Truncate(p) ==
    /\ pc[p] = "truncate"
    /\ alloc' = [alloc EXCEPT ![p] = Computed(p)]
    /\ file' = [file EXCEPT ![Home[p]] = "empty"]
    /\ Goto(p, "fill")
    /\ UNCHANGED <<remoteHigh, num, lock, counter, local, remote, history>>

\* Mutant: the counter is set to the id just taken.
FillTaken(p) ==
    /\ pc[p] = "fill"
    /\ counter' = [counter EXCEPT ![Home[p]] = alloc[p]]
    /\ file' = [file EXCEPT ![Home[p]] = "full"]
    /\ Goto(p, "unlock")
    /\ UNCHANGED <<remoteHigh, num, alloc, lock, local, remote, history>>

Fill(p) ==
    /\ pc[p] = "fill"
    /\ counter' = [counter EXCEPT ![Home[p]] = alloc[p] + 1]
    /\ file' = [file EXCEPT ![Home[p]] = "full"]
    /\ Goto(p, "unlock")
    /\ UNCHANGED <<remoteHigh, num, alloc, lock, local, remote, history>>

\* The redirection or the write fails: nothing asks, and the id is handed out.
SaveFails(p) ==
    /\ "unwritable" \in Faults
    /\ \/ pc[p] = "truncate" /\ alloc' = [alloc EXCEPT ![p] = Computed(p)]
       \/ pc[p] = "fill" /\ UNCHANGED alloc
    /\ Goto(p, "unlock")
    /\ unsaved' = TRUE
    /\ UNCHANGED <<remoteHigh, num, diskVars, remote, fell>>

\* rmdir removes the directory, whoever made it.
Unlock(p) ==
    /\ pc[p] = "unlock"
    /\ lock' = [lock EXCEPT ![Home[p]] = FALSE]
    /\ Goto(p, "allocated")
    /\ UNCHANGED <<remoteHigh, num, alloc, file, counter, local, remote, history>>

\* The calling skill creates the artifact, later its branch reaches the remote.
Create(p) ==
    /\ pc[p] = "allocated"
    /\ local' = [local EXCEPT ![Home[p]] = @ \cup {alloc[p]}]
    /\ Goto(p, "created")
    /\ UNCHANGED <<remoteHigh, num, alloc, lock, file, counter, remote, history>>

Push(p) ==
    /\ pc[p] = "created"
    /\ remote' = remote \cup {alloc[p]}
    /\ Goto(p, "pushed")
    /\ UNCHANGED <<remoteHigh, num, alloc, diskVars, history>>

Finals == {"pushed", "aborted", "dead"}

Crash(p) ==
    /\ "crash" \in Faults /\ pc[p] \notin Finals
    /\ Goto(p, "dead")
    /\ UNCHANGED <<remoteHigh, num, alloc, diskVars, remote, history>>

Run(p) ==
    \/ Derive(p) \/ Refuse(p) \/ Lock(p) \/ GiveUp(p) \/ Guard(p) \/ Read(p)
    \/ Truncate(p) \/ Fill(p) \/ SaveFails(p) \/ Unlock(p) \/ Create(p) \/ Push(p)

\* Without timeouts a process waits for ever behind a lock that was left behind.
Quiet == /\ \A p \in Procs : pc[p] \in Finals \/ (pc[p] = "trying" /\ lock[Home[p]])
         /\ UNCHANGED vars

Next == (\E p \in Procs : Run(p) \/ Crash(p)) \/ Quiet
Spec == Init /\ [][Next]_vars

\* A shell that is not killed keeps running; sleep 0.1 ends.
FairSpec == Spec /\ \A p \in Procs : WF_vars(Run(p))

-----------------------------------------------------------------------------
(* Properties *)

\* The processes between the guard and the rmdir of the locked block.
InSection(p) == pc[p] \in {"read", "truncate", "fill", "unlock"}

\* As long as nobody ran out of retries, no two processes of one machine are
\* inside the locked block together, crashes included.
MutexUntilTimeout ==
    ~fell => \A p, q \in Procs :
        p # q /\ Home[p] = Home[q] => ~(InSection(p) /\ InSection(q))

\* As long as nobody ran out of retries and every counter could be written, no two
\* processes of one machine get the same id, whatever the remote scans return and
\* whoever dies where.
Taken(p) == alloc[p] # 0
UniqueUntilTimeout ==
    ~fell /\ ~unsaved => \A p, q \in Procs :
        p # q /\ Home[p] = Home[q] /\ Taken(p) /\ Taken(q) => alloc[p] # alloc[q]

\* Where nobody runs out of retries and counters can be written, the machine's numbers are issued like tickets
\* (module Tickets), each larger than all before it.
Issued == INSTANCE Tickets WITH ticket <- alloc
TicketSpec == Issued!Spec

\* Every invocation that is not killed comes to an end, even behind a lock
\* directory that a dead process left.
AllocEnds == \A p \in Procs : <>(pc[p] \in Finals)
=============================================================================
