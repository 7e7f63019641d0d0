----------------------------- MODULE IdRecheck -----------------------------
(***************************************************************************)
(* adlc_recheck_id of partials/id-recheck.sh, adlc_remote_high of          *)
(* partials/id-alloc.sh and the remote check of tools/adlc/renumber.py:    *)
(* artifacts that were given their ids on different machines are verified  *)
(* against the remote before they are pushed, and renumbered when the id   *)
(* is taken.  Nothing locks the remote: a walk over it reads the branches  *)
(* and then the merged artifacts of one repository after the other, and    *)
(* pushes and merges of others may fall between any two reads.             *)
(*                                                                         *)
(* Kinds with a branch of their own (req, bug).  Repositories are numbered *)
(* in the order of the shell's glob.                                       *)
(***************************************************************************)
EXTENDS Naturals

CONSTANTS
    Artifacts,
    NRepos,
    RepoOf,     \* artifact -> repository its branch is pushed to
    FirstIds,   \* bound: the ids that allocation may have given
    Faults      \* "offline": a read of the remote may fail

ASSUME NReposType == NRepos \in Nat \ {0}
ASSUME RepoOfType == RepoOf \in [Artifacts -> 1 .. NRepos]
ASSUME FirstIdsType == FirstIds \subseteq Nat \ {0}
ASSUME FaultsType == Faults \subseteq {"offline"}

VARIABLES
    \* Per artifact, its working tree and the shell that takes it through:
    pc,
    id,         \* the id its files carry
    target,     \* the id under recheck: its own, or the one to renumber to
    at,         \* next read of the walk
    high,       \* adlc_rh_max
    degraded,   \* adlc_rh_degraded
    suggestion, \* the new id in the halt message
    \* The remote:
    stage,      \* artifact -> not there, as a branch, or merged
    pub,        \* artifact -> id it was pushed under
    \* History of the last walk:
    before,     \* ids on the remote when it began
    blind       \* a read of it failed

author == <<pc, id, target, at, high, degraded, suggestion>>
history == <<before, blind>>
vars == <<author, stage, pub, history>>

TypeOK ==
    /\ pc \in [Artifacts -> {"drafted", "deriving", "probing", "halted", "clear", "pushed"}]
    /\ id \in [Artifacts -> Nat] /\ target \in [Artifacts -> Nat]
    /\ at \in [Artifacts -> 1 .. 2 * NRepos + 1]
    /\ high \in [Artifacts -> Nat] /\ suggestion \in [Artifacts -> Nat]
    /\ degraded \in [Artifacts -> BOOLEAN] /\ blind \in [Artifacts -> BOOLEAN]
    /\ stage \in [Artifacts -> {"none", "branch", "merged"}]
    /\ pub \in [Artifacts -> Nat]
    /\ before \in [Artifacts -> SUBSET Nat]

-----------------------------------------------------------------------------
(* The walk: read k looks at one source of one repository. *)

LastRead == 2 * NRepos
RepoAt(k) == (k + 1) \div 2
\* Mutant: merged artifacts first, then branches.
SourceAtSwapped(k) == IF k % 2 = 1 THEN "merged" ELSE "branch"
SourceAt(k) == IF k % 2 = 1 THEN "branch" ELSE "merged"

IdsAt(k) == {pub[b] : b \in {c \in Artifacts : RepoOf[c] = RepoAt(k) /\ stage[c] = SourceAt(k)}}
OnRemote == {pub[b] : b \in {c \in Artifacts : stage[c] # "none"}}

Goto(a, l) == pc' = [pc EXCEPT ![a] = l]

Walk(a, n) ==
    /\ Goto(a, "deriving")
    /\ target' = [target EXCEPT ![a] = n]
    /\ at' = [at EXCEPT ![a] = 1]
    /\ high' = [high EXCEPT ![a] = 0]
    /\ degraded' = [degraded EXCEPT ![a] = FALSE]
    /\ before' = [before EXCEPT ![a] = OnRemote]
    /\ blind' = [blind EXCEPT ![a] = FALSE]
    /\ suggestion' = [suggestion EXCEPT ![a] = 0]
    /\ UNCHANGED <<id, stage, pub>>

\* adlc_recheck_id returns, and its variables with it.
Return(a) ==
    /\ at' = [at EXCEPT ![a] = 1]
    /\ high' = [high EXCEPT ![a] = 0]
    /\ degraded' = [degraded EXCEPT ![a] = FALSE]

\* The walk found nothing.  On the way to a push the id is clear; in renumber the
\* artifact takes the new id, and the recheck has to be run again.
Pass(a) ==
    /\ Return(a)
    /\ IF target[a] = id[a]
       THEN Goto(a, "clear") /\ UNCHANGED id
       ELSE Goto(a, "drafted") /\ id' = [id EXCEPT ![a] = target[a]]

-----------------------------------------------------------------------------
Init ==
    /\ pc = [a \in Artifacts |-> "drafted"]
    /\ id \in [Artifacts -> FirstIds]
    /\ target = [a \in Artifacts |-> 0] /\ at = [a \in Artifacts |-> 1]
    /\ high = [a \in Artifacts |-> 0] /\ suggestion = [a \in Artifacts |-> 0]
    /\ degraded = [a \in Artifacts |-> FALSE] /\ blind = [a \in Artifacts |-> FALSE]
    /\ stage = [a \in Artifacts |-> "none"] /\ pub = [a \in Artifacts |-> 0]
    /\ before = [a \in Artifacts |-> {}]

\* adlc_recheck_id is called with the artifact's own id.
Recheck(a) == pc[a] = "drafted" /\ Walk(a, id[a])

\* Mutant: the walk goes one repository too far.
DeriveReadTooFar(a) ==
    /\ pc[a] = "deriving" /\ at[a] <= LastRead + 1
    /\ at' = [at EXCEPT ![a] = @ + 1]
    /\ UNCHANGED <<pc, id, target, high, degraded, suggestion, stage, pub, history>>

\* adlc_remote_high: the two sources of a repository fail independently.
DeriveRead(a) ==
    /\ pc[a] = "deriving" /\ at[a] <= LastRead
    /\ \/ /\ \E h \in IdsAt(at[a]) \cup {high[a]} :
                /\ \A k \in IdsAt(at[a]) \cup {high[a]} : k <= h
                /\ high' = [high EXCEPT ![a] = h]
          /\ UNCHANGED <<degraded, blind>>
       \/ /\ "offline" \in Faults
          /\ degraded' = [degraded EXCEPT ![a] = TRUE]
          /\ blind' = [blind EXCEPT ![a] = TRUE]
          /\ UNCHANGED high
    /\ at' = [at EXCEPT ![a] = @ + 1]
    /\ UNCHANGED <<pc, id, target, suggestion, stage, pub, before>>

\* Mutant: a degraded derivation is probed and may suggest.
DerivedAnyway(a) ==
    /\ pc[a] = "deriving" /\ at[a] > LastRead
    /\ Goto(a, "probing") /\ at' = [at EXCEPT ![a] = 1] /\ UNCHANGED id
    /\ UNCHANGED <<target, high, degraded, suggestion, stage, pub, history>>

\* A degraded derivation passes without verification, before the exact-id walk.
Derived(a) ==
    /\ pc[a] = "deriving" /\ at[a] > LastRead
    /\ \/ degraded[a] /\ Pass(a)
       \/ /\ ~degraded[a]
          /\ Goto(a, "probing") /\ at' = [at EXCEPT ![a] = 1]
          /\ UNCHANGED <<id, high, degraded>>
    /\ UNCHANGED <<target, suggestion, stage, pub, history>>

\* The exact-id walk.  A failed ls-remote skips the repository, merged artifacts
\* included; a failed artifact scan is passed over.
ProbeMiss(a) ==
    /\ pc[a] = "probing" /\ at[a] <= LastRead
    /\ \/ /\ target[a] \notin IdsAt(at[a])
          /\ at' = [at EXCEPT ![a] = @ + 1]
          /\ UNCHANGED blind
       \/ /\ "offline" \in Faults
          /\ at' = [at EXCEPT ![a] = 2 * RepoAt(@) + 1]
          /\ blind' = [blind EXCEPT ![a] = TRUE]
    /\ UNCHANGED <<pc, id, target, high, degraded, suggestion, stage, pub, before>>

\* Mutant: the highest id seen is suggested, not the next.
ProbeHitSameHigh(a) ==
    /\ pc[a] = "probing" /\ at[a] <= LastRead
    /\ target[a] \in IdsAt(at[a])
    /\ suggestion' = [suggestion EXCEPT ![a] = high[a]]
    /\ Goto(a, IF target[a] = id[a] THEN "halted" ELSE "drafted")
    /\ Return(a)
    /\ UNCHANGED <<id, target, stage, pub, history>>

\* A hit halts.  In renumber it refuses: back to the recheck.
ProbeHit(a) ==
    /\ pc[a] = "probing" /\ at[a] <= LastRead
    /\ target[a] \in IdsAt(at[a])
    /\ suggestion' = [suggestion EXCEPT ![a] = high[a] + 1]
    /\ Goto(a, IF target[a] = id[a] THEN "halted" ELSE "drafted")
    /\ Return(a)
    /\ UNCHANGED <<id, target, stage, pub, history>>

Probed(a) ==
    /\ pc[a] = "probing" /\ at[a] > LastRead
    /\ Pass(a)
    /\ UNCHANGED <<target, suggestion, stage, pub, history>>

\* adlc renumber <id> <suggestion> --yes: identical ids are an error, otherwise the
\* new id is rechecked before anything is renamed.
Renumber(a) ==
    /\ pc[a] = "halted" /\ suggestion[a] # id[a]
    /\ Walk(a, suggestion[a])

RenumberIdentical(a) ==
    /\ pc[a] = "halted" /\ suggestion[a] = id[a]
    /\ Goto(a, "drafted")
    /\ UNCHANGED <<id, target, at, high, degraded, suggestion, stage, pub, history>>

\* The calling skill pushes the branch; later it is merged and deleted.
Push(a) ==
    /\ pc[a] = "clear"
    /\ Goto(a, "pushed")
    /\ stage' = [stage EXCEPT ![a] = "branch"]
    /\ pub' = [pub EXCEPT ![a] = id[a]]
    /\ UNCHANGED <<id, target, at, high, degraded, suggestion, history>>

Merge(a) ==
    /\ stage[a] = "branch"
    /\ stage' = [stage EXCEPT ![a] = "merged"]
    /\ UNCHANGED <<author, pub, history>>

Author(a) ==
    \/ Recheck(a) \/ DeriveRead(a) \/ Derived(a) \/ ProbeMiss(a) \/ ProbeHit(a) \/ Probed(a)
    \/ Renumber(a) \/ RenumberIdentical(a) \/ Push(a)

AllMerged == (\A a \in Artifacts : stage[a] = "merged") /\ UNCHANGED vars

Next == (\E a \in Artifacts : Author(a) \/ Merge(a)) \/ AllMerged
Spec == Init /\ [][Next]_vars

\* A shell that is started runs on, and whoever reads a halt message does what it
\* says and runs the recheck again.
FairSpec == Spec /\ \A a \in Artifacts : WF_vars(Author(a))

-----------------------------------------------------------------------------
(* Properties *)

\* An id that was on the remote when the recheck began, and stayed there, is found,
\* unless a read failed: duplicates on the remote come from pushes that overlap the
\* other's recheck, or from a recheck that was partly blind.  In particular a branch
\* that is merged and deleted under the walk is not missed.
DuplicatesAreRaces ==
    \A a \in Artifacts : stage[a] # "none" /\ pub[a] \in before[a] => blind[a]

\* The id that a halt suggests is above all that were on the remote when the
\* recheck began: a degraded derivation never suggests.
SuggestionIsFresh ==
    \A a \in Artifacts : pc[a] = "halted" => \A n \in before[a] : suggestion[a] > n

\* However pushes and rechecks interleave, everyone gets a pushed id in the end:
\* nobody is sent from one taken id to the next for ever.
EveryonePushes == \A a \in Artifacts : <>(pc[a] = "pushed")
=============================================================================
