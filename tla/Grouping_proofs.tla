-------------------------- MODULE Grouping_proofs --------------------------
(***************************************************************************)
(* The union-find computes the connected components, for any number of     *)
(* REQs and any repositories.  The argument compares the forest with the   *)
(* graph through the sets that both leave whole: a set is Closed when the  *)
(* forest does not leave it and Separate when sharesRepo does not.         *)
(***************************************************************************)
EXTENDS Grouping, TLAPS

Closed(D) == \A a \in Ids : a \in D <=> parent[a] \in D
Linked(a, b) == \A D \in SUBSET Ids : Closed(D) => (a \in D <=> b \in D)

\* The pair has been through the pair loop.
Processed(a, b) ==
    a < b /\ (pc \in {"collect", "done"} \/ a < i \/ (a = i /\ b < j))

\* The forest joins only what sharesRepo joins, and all of the processed pairs.
Sound == \A C \in SUBSET Ids : Separate(C) => Closed(C)
Complete == \A a, b \in Ids : Processed(a, b) /\ sharesRepo(a, b) => Linked(a, b)

\* What a find under way has reached.
FindInv ==
    /\ pc = "findA" => Linked(x, i) /\ sharesRepo(i, j)
    /\ pc = "findB" => /\ Linked(x, j) /\ sharesRepo(i, j)
                       /\ Linked(ra, i) /\ parent[ra] = ra
    /\ pc = "collect" => Linked(x, i)

\* What has been collected hangs under its root.
RootInv ==
    /\ pc \in {"pair", "findA", "findB"} => \A a \in Ids : rootOf[a] = 0
    /\ \A a \in Ids : rootOf[a] # 0 => Linked(a, rootOf[a]) /\ parent[rootOf[a]] = rootOf[a]
    /\ pc = "collect" => \A a \in Ids : a < i => rootOf[a] # 0
    /\ pc = "done" => \A a \in Ids : rootOf[a] # 0

ForestInv == TypeOK /\ Sound /\ Complete /\ FindInv /\ RootInv

-----------------------------------------------------------------------------
(* Type correctness *)

LEMMA TypeInitially == Init => TypeOK
  BY NType DEF Init, TypeOK, Ids

LEMMA NextPairType ==
  ASSUME TypeOK, i < N, NextPair, pc \in {"pair", "findB"}
  PROVE  i' \in Ids /\ j' \in 1 .. N + 1 /\ (i' < N => i' < j' /\ j' <= N)
<1> USE NType DEF TypeOK, Ids, NextPair
<1>1. CASE j < N
  BY <1>1
<1>2. CASE ~(j < N)
  BY <1>2
<1> QED
  BY <1>1, <1>2

LEMMA TypeStep == TypeOK /\ [Next]_vars => TypeOK'
<1> SUFFICES ASSUME TypeOK, [Next]_vars PROVE TypeOK'
  OBVIOUS
<1> USE NType DEF TypeOK
<1>1. CASE Share
  BY <1>1 DEF Share, Ids
<1>2. CASE Skip
  BY <1>2, NextPairType DEF Skip
<1>3. CASE PairsDone
  BY <1>3 DEF PairsDone, Ids
<1>4. CASE Halve
  BY <1>4 DEF Halve
<1>5. CASE FoundA
  <2>1. j \in Ids
    BY <1>5 DEF FoundA, Ids
  <2> QED
    BY <1>5, <2>1 DEF FoundA
<1>6. CASE Link
  BY <1>6, NextPairType DEF Link
<1>7. CASE Collect
  <2>1. \A a \in Ids : a \in 0 .. N
    BY DEF Ids
  <2>2. rootOf' \in [Ids -> 0 .. N]
    BY <1>7, <2>1 DEF Collect
  <2>3. i < N => i + 1 \in Ids
    BY DEF Ids
  <2> QED
    BY <1>7, <2>2, <2>3 DEF Collect
<1>8. CASE Done \/ UNCHANGED vars
  BY <1>8 DEF Done, vars, cursor
<1> QED
  BY <1>1, <1>2, <1>3, <1>4, <1>5, <1>6, <1>7, <1>8 DEF Next, Step

\* Every reachable state of the union-find is well typed: no index leaves the list.
THEOREM Typing == Spec => []TypeOK
  BY TypeInitially, TypeStep, PTL DEF Spec

-----------------------------------------------------------------------------
(* How the steps change the closed sets *)

LEMMA SharesSymmetric == \A a, b \in Ids : sharesRepo(a, b) => sharesRepo(b, a)
  BY DEF sharesRepo

LEMMA LinkedInSeparate ==
  ASSUME Sound, NEW C \in SUBSET Ids, Separate(C),
         NEW a \in Ids, NEW b \in Ids, Linked(a, b)
  PROVE  a \in C <=> b \in C
  BY DEF Sound, Linked

LEMMA ParentIsLinked ==
  ASSUME TypeOK, NEW a \in Ids, NEW b \in Ids, Linked(a, b)
  PROVE  Linked(parent[a], b)
  BY DEF TypeOK, Linked, Closed

\* Path halving: the closed sets stay what they are.
LEMMA HalveKeepsClosed ==
  ASSUME TypeOK, Halve, NEW D \in SUBSET Ids
  PROVE  Closed(D)' <=> Closed(D)
<1> USE DEF TypeOK, Halve
<1> DEFINE p == parent[x]
<1>0. p \in Ids /\ p # x /\ parent[p] \in Ids
  OBVIOUS
<1>1. \A a \in Ids : a # x => parent'[a] = parent[a]
  OBVIOUS
<1>2. parent'[x] = parent[p] /\ parent'[p] = parent[p]
  BY <1>0
<1>3. Closed(D)' <=> \A a \in Ids : a \in D <=> parent'[a] \in D
  BY DEF Closed, Ids
<1> HIDE DEF p
<1>4. ASSUME Closed(D) PROVE Closed(D)'
  <2>1. x \in D <=> parent[p] \in D
    BY <1>0, <1>4 DEF Closed, p
  <2> QED
    BY <1>1, <1>2, <1>3, <1>4, <2>1 DEF Closed
<1>5. ASSUME Closed(D)' PROVE Closed(D)
  <2>1. x \in D <=> p \in D
    BY <1>0, <1>2, <1>3, <1>5
  <2> QED
    BY <1>1, <1>3, <1>5, <2>1 DEF Closed, p
<1> QED
  BY <1>4, <1>5

\* Linking a root to the other root: the sets closed after it are those closed
\* before it that keep the two roots together.
LEMMA LinkKeepsClosed ==
  ASSUME TypeOK, FindInv, Link, NEW D \in SUBSET Ids
  PROVE  Closed(D)' <=> Closed(D) /\ (ra \in D <=> x \in D)
<1> USE DEF TypeOK, Link
<1>1. ra \in Ids /\ x \in Ids /\ parent[ra] = ra
  BY DEF FindInv
<1>2. \A a \in Ids : parent'[a] = IF a = ra THEN x ELSE parent[a]
  OBVIOUS
<1>3. Closed(D)' <=> \A a \in Ids : a \in D <=> parent'[a] \in D
  BY DEF Closed, Ids
<1> QED
  BY <1>1, <1>2, <1>3 DEF Closed

-----------------------------------------------------------------------------
(* The invariant *)

LEMMA ForestInitially == Init => ForestInv
<1> SUFFICES ASSUME Init PROVE ForestInv
  OBVIOUS
<1> USE NType DEF Init
<1>1. Sound
  BY DEF Sound, Closed
<1>2. Complete
  BY DEF Complete, Processed, Ids
<1>3. FindInv
  BY DEF FindInv
<1>4. RootInv
  BY DEF RootInv, Ids
<1> QED
  BY <1>1, <1>2, <1>3, <1>4, TypeInitially DEF ForestInv

\* What NextPair makes processed: the pair under way and nothing else.
LEMMA NextPairProcesses ==
  ASSUME TypeOK, i < N, NextPair, pc \in {"pair", "findB"}, pc' = "pair",
         NEW a \in Ids, NEW b \in Ids, Processed(a, b)'
  PROVE  Processed(a, b) \/ (a = i /\ b = j)
<1> USE NType DEF Ids
<1>1. CASE j < N
  BY <1>1 DEF TypeOK, NextPair, Processed
<1>2. CASE ~(j < N)
  <2>1. i \in 1 .. N /\ j = N /\ i' = i + 1 /\ j' = i + 2
    BY <1>2 DEF TypeOK, NextPair
  <2>2. a < b /\ (a < i' \/ (a = i' /\ b < j'))
    BY DEF Processed
  <2>3. a <= i
    BY <2>1, <2>2
  <2> QED
    BY <2>1, <2>2, <2>3 DEF Processed
<1> QED
  BY <1>1, <1>2

\* When the forest and the assignment stay, so do Sound and Linked.
LEMMA SameForest ==
  ASSUME parent' = parent, reposById' = reposById
  PROVE  /\ Sound' <=> Sound
         /\ \A a, b \in Ids : Linked(a, b)' <=> Linked(a, b)
         /\ \A a, b \in Ids : sharesRepo(a, b)' <=> sharesRepo(a, b)
  BY DEF Sound, Separate, Closed, Linked, sharesRepo, Ids

LEMMA SoundStep == ForestInv /\ [Next]_vars => Sound'
<1> SUFFICES ASSUME ForestInv, [Next]_vars PROVE Sound'
  OBVIOUS
<1> USE DEF ForestInv
<1>0. reposById' = reposById
  BY DEF Next, Step, Done, vars, Share, Skip, PairsDone, Halve, FoundA, Link, Collect
<1>1. \A C \in SUBSET Ids : Separate(C)' <=> Separate(C)
  BY <1>0 DEF Separate, sharesRepo, Ids
<1>2. CASE Halve
  BY <1>1, <1>2, HalveKeepsClosed DEF Sound, Ids
<1>3. CASE Link
  <2>1. i \in Ids /\ j \in Ids /\ x \in Ids /\ ra \in Ids
    BY <1>3, NType DEF Link, TypeOK, Ids
  <2>2. Linked(ra, i) /\ Linked(x, j) /\ sharesRepo(i, j)
    BY <1>3 DEF Link, FindInv
  <2>3. ASSUME NEW C \in SUBSET Ids, Separate(C) PROVE Closed(C)'
    <3>1. i \in C <=> j \in C
      BY <2>1, <2>2, <2>3, SharesSymmetric DEF Separate
    <3>2. ra \in C <=> x \in C
      BY <2>1, <2>2, <2>3, <3>1, LinkedInSeparate
    <3>3. Closed(C)
      BY <2>3 DEF Sound
    <3> QED
      BY <1>3, <3>2, <3>3, LinkKeepsClosed
  <2> QED
    BY <1>1, <2>3 DEF Sound, Ids
<1>4. CASE parent' = parent
  BY <1>0, <1>4, SameForest
<1> QED
  BY <1>2, <1>3, <1>4
  DEF Next, Step, Done, vars, Share, Skip, PairsDone, FoundA, Collect

\* No step opens a set that was not closed, so what was linked stays linked.
LEMMA ClosedStep ==
  ASSUME ForestInv, [Next]_vars, NEW D \in SUBSET Ids, Closed(D)'
  PROVE  Closed(D)
<1> USE DEF ForestInv
<1>1. CASE Halve
  BY <1>1, HalveKeepsClosed
<1>2. CASE Link
  BY <1>2, LinkKeepsClosed
<1>3. CASE parent' = parent
  BY <1>3 DEF Closed, Ids
<1> QED
  BY <1>1, <1>2, <1>3
  DEF Next, Step, Done, vars, Share, Skip, PairsDone, FoundA, Collect

LEMMA LinkedStep ==
  ASSUME ForestInv, [Next]_vars, NEW a \in Ids, NEW b \in Ids, Linked(a, b)
  PROVE  Linked(a, b)'
  BY ClosedStep DEF Linked, Ids

LEMMA CompleteStep == ForestInv /\ [Next]_vars => Complete'
<1> SUFFICES ASSUME ForestInv, [Next]_vars PROVE Complete'
  OBVIOUS
<1> USE DEF ForestInv
<1>0. reposById' = reposById
  BY DEF Next, Step, Done, vars, Share, Skip, PairsDone, Halve, FoundA, Link, Collect
<1>1. \A a, b \in Ids : sharesRepo(a, b)' <=> sharesRepo(a, b)
  BY <1>0 DEF sharesRepo
<1>2. SUFFICES ASSUME NEW a \in Ids, NEW b \in Ids,
                      Processed(a, b)', sharesRepo(a, b), ~Processed(a, b)
               PROVE  Linked(a, b)'
  BY <1>1, LinkedStep DEF Complete, Ids
<1>3. CASE Skip
  <2>1. a = i /\ b = j
    BY <1>2, <1>3, NextPairProcesses DEF Skip
  <2> QED
    BY <1>2, <1>3, <2>1 DEF Skip
<1>4. CASE Link
  <2>1. a = i /\ b = j
    BY <1>2, <1>4, NextPairProcesses DEF Link, TypeOK
  <2>2. Linked(ra, i) /\ Linked(x, j)
    BY <1>4 DEF Link, FindInv
  <2>3. \A D \in SUBSET Ids : Closed(D)' => Closed(D) /\ (ra \in D <=> x \in D)
    BY <1>4, LinkKeepsClosed
  <2>4. \A D \in SUBSET Ids : Closed(D)' => (a \in D <=> b \in D)
    BY <2>1, <2>2, <2>3 DEF Linked
  <2> QED
    BY <2>4 DEF Linked, Ids
<1>5. CASE PairsDone
  BY <1>2, <1>5, NType DEF PairsDone, Processed, Ids
<1>6. CASE Share \/ Halve \/ FoundA \/ Collect \/ Done \/ UNCHANGED vars
  BY <1>2, <1>6 DEF Share, Halve, FoundA, Collect, Done, vars, cursor, Processed
<1> QED
  BY <1>3, <1>4, <1>5, <1>6 DEF Next, Step

LEMMA FindStep == ForestInv /\ [Next]_vars => FindInv'
<1> SUFFICES ASSUME ForestInv, [Next]_vars PROVE FindInv'
  OBVIOUS
<1> USE DEF ForestInv
<1>1. CASE Share
  <2>1. i \in Ids
    BY DEF TypeOK
  <2> QED
    BY <1>1, <2>1 DEF Share, FindInv, Linked, sharesRepo, Ids
<1>2. CASE PairsDone
  BY <1>2, NType DEF PairsDone, FindInv, Linked, Ids
<1>3. CASE Halve
  <2>1. i \in Ids /\ ra \in Ids /\ x \in Ids /\ parent[x] \in Ids /\ x' = parent[parent[x]]
    BY <1>3 DEF Halve, TypeOK
  <2>2. pc \in {"findA", "collect"} => Linked(parent[parent[x]], i)
    BY <1>3, <2>1, ParentIsLinked DEF FindInv
  <2>3. pc = "findB" => j \in Ids /\ Linked(parent[parent[x]], j)
    <3>1. pc = "findB" => j \in Ids
      BY NType DEF TypeOK, Ids
    <3> QED
      BY <1>3, <2>1, <3>1, ParentIsLinked DEF FindInv
  <2>4. /\ pc \in {"findA", "collect"} => Linked(x, i)'
        /\ pc = "findB" => Linked(x, j)' /\ Linked(ra, i)'
    BY <1>3, <2>1, <2>2, <2>3, ClosedStep DEF Halve, FindInv, Linked, Ids
  <2>5. pc = "findB" => parent'[ra] = ra
    BY <1>3, <2>1 DEF Halve, FindInv, TypeOK
  <2> QED
    BY <1>3, <2>4, <2>5 DEF Halve, FindInv, sharesRepo
<1>4. CASE FoundA
  <2>1. i \in Ids /\ j \in Ids /\ x \in Ids
    BY <1>4, NType DEF FoundA, TypeOK, Ids
  <2>2. Linked(x, i) /\ sharesRepo(i, j) /\ parent[x] = x
    BY <1>4 DEF FoundA, FindInv
  <2>3. Linked(ra, i)' /\ Linked(x, j)'
    BY <1>4, <2>1, <2>2, ClosedStep DEF FoundA, Linked, Ids
  <2> QED
    BY <1>4, <2>2, <2>3 DEF FoundA, FindInv, sharesRepo
<1>5. CASE Link
  BY <1>5 DEF Link, FindInv
<1>6. CASE Collect
  BY <1>6 DEF Collect, FindInv, Linked
<1>7. CASE Skip
  BY <1>7 DEF Skip, FindInv
<1>8. CASE Done \/ UNCHANGED vars
  BY <1>8 DEF Done, vars, cursor, FindInv, Linked, Closed, sharesRepo, Ids
<1> QED
  BY <1>1, <1>2, <1>3, <1>4, <1>5, <1>6, <1>7, <1>8 DEF Next, Step

LEMMA RootStep == ForestInv /\ [Next]_vars => RootInv'
<1> SUFFICES ASSUME ForestInv, [Next]_vars PROVE RootInv'
  OBVIOUS
<1> USE DEF ForestInv
<1>1. \A a \in Ids : rootOf[a] # 0 =>
        \A D \in SUBSET Ids : Closed(D)' => (a \in D <=> rootOf[a] \in D)
  BY ClosedStep DEF RootInv, Linked
<1>2. CASE Share \/ Skip \/ PairsDone \/ FoundA
  <2>1. rootOf' = rootOf /\ \A a \in Ids : rootOf[a] = 0
    BY <1>2 DEF Share, Skip, PairsDone, FoundA, RootInv
  <2>2. pc' = "collect" => \A a \in Ids : ~(a < i')
    BY <1>2, NType DEF Share, Skip, PairsDone, FoundA, Ids
  <2>3. pc' # "done"
    BY <1>2 DEF Share, Skip, PairsDone, FoundA
  <2> QED
    BY <2>1, <2>2, <2>3 DEF RootInv, Ids
<1>3. CASE Link
  BY <1>3 DEF Link, RootInv, Ids
<1>4. CASE Halve
  <2>1. rootOf' = rootOf /\ pc' = pc /\ i' = i /\ pc # "done"
    BY <1>4 DEF Halve
  <2>2. \A c \in Ids : parent[c] = c => parent'[c] = c
    BY <1>4 DEF Halve, TypeOK
  <2>3. \A a \in Ids : rootOf[a] # 0 => rootOf[a] \in Ids
    BY DEF TypeOK, Ids
  <2>4. \A a \in Ids : rootOf[a] # 0 => parent'[rootOf[a]] = rootOf[a]
    BY <2>2, <2>3 DEF RootInv
  <2> QED
    BY <1>1, <2>1, <2>4 DEF RootInv, Linked, Ids
<1>5. CASE Collect
  <2>1. i \in Ids /\ x \in Ids /\ x # 0 /\ parent' = parent /\ parent[x] = x
    BY <1>5 DEF Collect, TypeOK, Ids
  <2>2. \A a \in Ids : rootOf'[a] = IF a = i THEN x ELSE rootOf[a]
    BY <1>5 DEF Collect, TypeOK
  <2>3. \A D \in SUBSET Ids : Closed(D)' => (i \in D <=> x \in D)
    BY <1>5, <2>1, ClosedStep DEF Collect, FindInv, Linked
  <2>4. \A a \in Ids : a < i => rootOf[a] # 0
    BY <1>5 DEF Collect, RootInv
  <2>5. CASE i < N
    <3>1. pc' = "collect" /\ i' = i + 1
      BY <1>5, <2>5 DEF Collect
    <3>2. \A a \in Ids : a < i + 1 => a < i \/ a = i
      BY <2>1 DEF Ids
    <3> QED
      BY <1>1, <2>1, <2>2, <2>3, <2>4, <3>1, <3>2 DEF RootInv, Linked, Ids
  <2>6. CASE ~(i < N)
    <3>1. pc' = "done" /\ \A a \in Ids : a < i \/ a = i
      BY <1>5, <2>6, NType DEF Collect, TypeOK, Ids
    <3> QED
      BY <1>1, <2>1, <2>2, <2>3, <2>4, <3>1 DEF RootInv, Linked, Ids
  <2> QED
    BY <2>5, <2>6
<1>6. CASE Done \/ UNCHANGED vars
  BY <1>1, <1>6 DEF Done, vars, cursor, RootInv, Linked, Ids
<1> QED
  BY <1>2, <1>3, <1>4, <1>5, <1>6 DEF Next, Step

\* The invariant of the union-find: the forest and sharesRepo agree on what has
\* been processed, and what has been collected hangs under its root.
THEOREM Forest == Spec => []ForestInv
<1>1. ForestInv /\ [Next]_vars => ForestInv'
  BY TypeStep, SoundStep, CompleteStep, FindStep, RootStep DEF ForestInv
<1> QED
  BY <1>1, ForestInitially, PTL DEF Spec

-----------------------------------------------------------------------------
(* The groups *)

\* The tree that hangs under a root: the least set with the root in it that has
\* every id whose parent it has.
Under(r) ==
    {c \in Ids : \A E \in SUBSET Ids :
        r \in E /\ (\A e \in Ids : parent[e] \in E => e \in E) => c \in E}

LEMMA UnderIsClosed ==
  ASSUME TypeOK, NEW r \in Ids, parent[r] = r
  PROVE  r \in Under(r) /\ Under(r) \in SUBSET Ids /\ Closed(Under(r))
<1>1. r \in Under(r) /\ Under(r) \in SUBSET Ids
  BY DEF Under
<1>2. ASSUME NEW a \in Ids, parent[a] \in Under(r) PROVE a \in Under(r)
  BY <1>2 DEF Under
<1>3. ASSUME NEW a \in Ids, a \in Under(r) PROVE parent[a] \in Under(r)
  <2> DEFINE E == {e \in Under(r) : parent[e] \in Under(r)}
  <2>1. E \in SUBSET Ids /\ r \in E
    BY <1>1
  <2>2. ASSUME NEW e \in Ids, parent[e] \in E PROVE e \in E
    BY <1>2, <2>2
  <2>3. a \in E
    BY <1>3, <2>1, <2>2 DEF Under
  <2> QED
    BY <2>3
<1> QED
  BY <1>1, <1>2, <1>3 DEF Closed

\* There is only one root in a tree.
LEMMA OneRootUnder ==
  ASSUME TypeOK, NEW r \in Ids, NEW s \in Under(r), parent[s] = s
  PROVE  s = r
<1> SUFFICES ASSUME s # r PROVE FALSE
  OBVIOUS
<1> DEFINE E == Ids \ {s}
<1>1. \A e \in Ids : parent[e] \in E => e \in E
  OBVIOUS
<1>2. s \in E
  BY <1>1 DEF Under
<1> QED
  BY <1>2

LEMMA GroupsFromForest == ForestInv => GroupsAreComponents
<1> SUFFICES ASSUME ForestInv, pc = "done", NEW a \in Ids, NEW b \in Ids
             PROVE  rootOf[a] = rootOf[b] <=> Connected(a, b)
  BY DEF GroupsAreComponents
<1> USE DEF ForestInv
<1> DEFINE r == rootOf[a]  s == rootOf[b]
<1>1. /\ r \in Ids /\ Linked(a, r) /\ parent[r] = r
      /\ s \in Ids /\ Linked(b, s) /\ parent[s] = s
  BY DEF RootInv, TypeOK, Ids
<1> HIDE DEF r, s
<1>2. ASSUME r = s PROVE Connected(a, b)
  BY <1>1, <1>2, LinkedInSeparate DEF Connected
<1>3. ASSUME Connected(a, b) PROVE r = s
  <2> DEFINE D == Under(r)
  <2>1. r \in D /\ D \in SUBSET Ids /\ Closed(D)
    BY <1>1, UnderIsClosed
  <2> HIDE DEF D
  <2>2. ASSUME NEW c \in D, NEW d \in Ids, sharesRepo(c, d) PROVE d \in D
    <3>1. c \in Ids /\ sharesRepo(d, c)
      BY <2>1, <2>2, SharesSymmetric
    <3>2. c < d \/ d < c \/ c = d
      BY <3>1 DEF Ids
    <3>3. c = d \/ Linked(c, d) \/ Linked(d, c)
      BY <2>2, <3>1, <3>2 DEF Complete, Processed
    <3> QED
      BY <2>1, <3>3, <2>2, <3>1 DEF Linked
  <2>3. a \in D
    BY <1>1, <2>1 DEF Linked
  <2>4. b \in D
    BY <1>3, <2>1, <2>2, <2>3 DEF Connected, Separate
  <2>5. s \in D
    BY <1>1, <2>1, <2>4 DEF Linked
  <2> QED
    BY <1>1, <2>5, OneRootUnder DEF D
<1> QED
  BY <1>2, <1>3 DEF r, s

\* When the grouping of the cross-repo REQs ends, two REQs are in the same group
\* if and only if a chain of shared repositories joins them.
THEOREM Groups == Spec => []GroupsAreComponents
  BY Forest, GroupsFromForest, PTL
=============================================================================
