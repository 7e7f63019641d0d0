------------------------------ MODULE Grouping ------------------------------
(***************************************************************************)
(* groupCrossRepoReqs of workflows/adlc-sprint.workflow.js, the union-find *)
(* that decides which REQs merge one after the other at the barrier.  Ids  *)
(* are positions in the list of pr-ready REQs.  Each turn of a loop is a   *)
(* step: the pair loop, the path-halving loop of find, the collecting loop.*)
(*                                                                         *)
(* SprintEngine states the result instead: the connected components of     *)
(* sharesRepo.  GroupsAreComponents is what entitles it to.                *)
(***************************************************************************)
EXTENDS Naturals

CONSTANTS
    N,          \* number of pr-ready REQs; the caller returns early on none
    Repos

ASSUME NType == N \in Nat \ {0}

VARIABLES
    reposById,  \* touched repositories of each id
    parent,     \* the union-find forest
    i, j,       \* the pair under way; i alone is the id under way when collecting
    pc,         \* "pair", the find under way, or "done"
    x,          \* the argument of that find
    ra,         \* result of the first find of a union
    rootOf      \* groupsByRoot: the root under which an id was pushed (0: not yet)

cursor == <<i, j, x, ra>>
vars == <<reposById, parent, cursor, pc, rootOf>>

Ids == 1 .. N

TypeOK ==
    /\ reposById \in [Ids -> SUBSET Repos]
    /\ parent \in [Ids -> Ids]
    /\ i \in Ids /\ j \in 1 .. N + 1
    /\ (pc \in {"pair", "findA", "findB"} /\ i < N) => i < j /\ j <= N
    /\ pc \in {"findA", "findB"} => i < N
    /\ pc \in {"pair", "findA", "findB", "collect", "done"}
    /\ x \in Ids /\ ra \in Ids
    /\ rootOf \in [Ids -> 0 .. N]

sharesRepo(a, b) == reposById[a] \cap reposById[b] # {}

-----------------------------------------------------------------------------
Init ==
    /\ reposById \in [Ids -> SUBSET Repos]
    /\ parent = [a \in Ids |-> a]
    /\ i = 1 /\ j = 2 /\ x = 1 /\ ra = 1
    /\ pc = "pair"
    /\ rootOf = [a \in Ids |-> 0]

\* Mutant: the inner loop runs one id too far.
NextPairTooFar ==
    IF j <= N THEN j' = j + 1 /\ UNCHANGED i
              ELSE i' = i + 1 /\ j' = i + 2

NextPair ==
    IF j < N THEN j' = j + 1 /\ UNCHANGED i
             ELSE i' = i + 1 /\ j' = i + 2

\* The pair loop: a pair that shares a repository is united.
Share ==
    /\ pc = "pair" /\ i < N /\ sharesRepo(i, j)
    /\ pc' = "findA" /\ x' = i
    /\ UNCHANGED <<reposById, parent, i, j, ra, rootOf>>

Skip ==
    /\ pc = "pair" /\ i < N /\ ~sharesRepo(i, j)
    /\ NextPair
    /\ UNCHANGED <<reposById, parent, pc, x, ra, rootOf>>

PairsDone ==
    /\ pc = "pair" /\ i = N
    /\ pc' = "collect" /\ i' = 1 /\ x' = 1
    /\ UNCHANGED <<reposById, parent, j, ra, rootOf>>

\* Mutant: x stays where it is.
HalveInPlace ==
    /\ pc \in {"findA", "findB", "collect"} /\ parent[x] # x
    /\ parent' = [parent EXCEPT ![x] = parent[parent[x]]]
    /\ UNCHANGED <<reposById, cursor, pc, rootOf>>

\* find: parent[x] = parent[parent[x]]; x = parent[x].
Halve ==
    /\ pc \in {"findA", "findB", "collect"} /\ parent[x] # x
    /\ parent' = [parent EXCEPT ![x] = parent[parent[x]]]
    /\ x' = parent[parent[x]]
    /\ UNCHANGED <<reposById, i, j, ra, pc, rootOf>>

FoundA ==
    /\ pc = "findA" /\ parent[x] = x
    /\ ra' = x /\ x' = j /\ pc' = "findB"
    /\ UNCHANGED <<reposById, parent, i, j, rootOf>>

\* Mutant: the element is hung under the other root, not its root.
LinkElement ==
    /\ pc = "findB" /\ parent[x] = x
    /\ parent' = [parent EXCEPT ![i] = x]
    /\ pc' = "pair"
    /\ NextPair
    /\ UNCHANGED <<reposById, x, ra, rootOf>>

\* union: if (ra !== rb) parent[ra] = rb.
Link ==
    /\ pc = "findB" /\ parent[x] = x
    /\ parent' = [parent EXCEPT ![ra] = x]
    /\ pc' = "pair"
    /\ NextPair
    /\ UNCHANGED <<reposById, x, ra, rootOf>>

\* groupsByRoot.get(root).push(id)
Collect ==
    /\ pc = "collect" /\ parent[x] = x
    /\ rootOf' = [rootOf EXCEPT ![i] = x]
    /\ IF i < N THEN i' = i + 1 /\ x' = i + 1 /\ UNCHANGED pc
                ELSE pc' = "done" /\ UNCHANGED <<i, x>>
    /\ UNCHANGED <<reposById, parent, j, ra>>

Step == Share \/ Skip \/ PairsDone \/ Halve \/ FoundA \/ Link \/ Collect
Done == pc = "done" /\ UNCHANGED vars
Next == Step \/ Done

Spec == Init /\ [][Next]_vars

\* The script runs to the end of a synchronous function.
FairSpec == Spec /\ WF_vars(Step)

-----------------------------------------------------------------------------
(* Properties *)

\* A set of ids that sharesRepo does not leave, and two ids that no such set
\* separates: a chain of REQs, each sharing a repository with the next.
Separate(C) == \A a \in C : \A b \in Ids : sharesRepo(a, b) => b \in C
Connected(a, b) == \A C \in SUBSET Ids : Separate(C) => (a \in C => b \in C)

\* The groups are the connected components: two REQs merge one after the other
\* if and only if a chain of shared repositories joins them.
GroupsAreComponents ==
    pc = "done" => \A a, b \in Ids : rootOf[a] = rootOf[b] <=> Connected(a, b)

\* No find ever runs in a circle: the forest stays a forest under path halving.
Terminates == <>(pc = "done")
=============================================================================
