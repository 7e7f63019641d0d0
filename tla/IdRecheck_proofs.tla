-------------------------- MODULE IdRecheck_proofs --------------------------
(***************************************************************************)
(* What a recheck promises without any lock on the remote, for any number  *)
(* of artifacts and repositories: an id that was there when the walk began *)
(* is still ahead of the walk or has been seen, because a merge only moves *)
(* it to the source that is read later.                                    *)
(***************************************************************************)
EXTENDS IdRecheck, Integers, TLAPS

\* The read that sees what b has on the remote now.
Seen(b) == IF stage[b] = "merged" THEN 2 * RepoOf[b] ELSE 2 * RepoOf[b] - 1

\* The id is on the remote where a's walk has not been yet.
Ahead(a, n) == \E b \in Artifacts : stage[b] # "none" /\ pub[b] = n /\ Seen(b) >= at[a]

\* What holds of one artifact and its walk.
PushedPart(a) == stage[a] = "none" <=> pc[a] # "pushed"
BeforePart(a) == before[a] \subseteq OnRemote
DerivingPart(a) ==
    pc[a] = "deriving" =>
        /\ degraded[a] = blind[a]
        /\ \A n \in before[a] : blind[a] \/ n <= high[a] \/ Ahead(a, n)
ProbingPart(a) ==
    pc[a] = "probing" =>
        /\ \A n \in before[a] : n <= high[a]
        /\ target[a] \in before[a] => blind[a] \/ Ahead(a, target[a])
ClearPart(a) == pc[a] = "clear" /\ id[a] \in before[a] => blind[a]
RacePart(a) == stage[a] # "none" /\ pub[a] \in before[a] => blind[a]
FreshPart(a) == pc[a] = "halted" => \A n \in before[a] : suggestion[a] > n

Parts(a) ==
    /\ PushedPart(a) /\ BeforePart(a) /\ DerivingPart(a) /\ ProbingPart(a)
    /\ ClearPart(a) /\ RacePart(a) /\ FreshPart(a)

WalkInv == TypeOK /\ \A a \in Artifacts : Parts(a)

-----------------------------------------------------------------------------
(* Type correctness *)

LEMMA OnRemoteType == TypeOK => OnRemote \subseteq Nat
  BY DEF TypeOK, OnRemote

LEMMA WalkType ==
  ASSUME TypeOK, NEW a \in Artifacts, NEW n \in Nat, Walk(a, n)
  PROVE  TypeOK'
  BY OnRemoteType, NReposType DEF Walk, Goto, TypeOK

LEMMA PassType ==
  ASSUME TypeOK, NEW a \in Artifacts, Pass(a),
         UNCHANGED <<target, suggestion, stage, pub, history>>
  PROVE  TypeOK'
  BY NReposType DEF Pass, Return, Goto, TypeOK, history

LEMMA TypeInitially == Init => TypeOK
<1> SUFFICES ASSUME Init PROVE TypeOK
  OBVIOUS
<1>1. id \in [Artifacts -> Nat]
  BY FirstIdsType DEF Init
<1>2. 1 \in 1 .. 2 * NRepos + 1
  BY NReposType
<1> QED
  BY <1>1, <1>2 DEF Init, TypeOK

LEMMA TypeStep == TypeOK /\ [Next]_vars => TypeOK'
<1> SUFFICES ASSUME TypeOK, [Next]_vars PROVE TypeOK'
  OBVIOUS
<1> USE NReposType
<1>1. ASSUME NEW a \in Artifacts, Recheck(a) PROVE TypeOK'
  BY <1>1, WalkType DEF Recheck, TypeOK
<1>2. ASSUME NEW a \in Artifacts, DeriveRead(a) PROVE TypeOK'
  <2>1. \A k \in IdsAt(at[a]) : k \in Nat
    BY DEF IdsAt, TypeOK
  <2>2. at' \in [Artifacts -> 1 .. 2 * NRepos + 1]
    BY <1>2 DEF DeriveRead, TypeOK, LastRead
  <2>3. high' \in [Artifacts -> Nat]
    BY <1>2, <2>1 DEF DeriveRead, TypeOK
  <2> QED
    BY <1>2, <2>2, <2>3 DEF DeriveRead, TypeOK
<1>3. ASSUME NEW a \in Artifacts, Derived(a) PROVE TypeOK'
  <2>1. CASE degraded[a]
    BY <1>3, <2>1, PassType DEF Derived
  <2>2. CASE ~degraded[a]
    BY <1>3, <2>2 DEF Derived, Goto, TypeOK, history
  <2> QED
    BY <2>1, <2>2
<1>4. ASSUME NEW a \in Artifacts, ProbeMiss(a) PROVE TypeOK'
  <2>1. at[a] \in 1 .. 2 * NRepos /\ 2 * RepoAt(at[a]) + 1 \in 1 .. 2 * NRepos + 1
    BY <1>4 DEF ProbeMiss, TypeOK, LastRead, RepoAt
  <2>2. at[a] + 1 \in 1 .. 2 * NRepos + 1
    BY <2>1
  <2>3. at' \in [Artifacts -> 1 .. 2 * NRepos + 1]
    BY <1>4, <2>1, <2>2 DEF ProbeMiss, TypeOK
  <2> QED
    BY <1>4, <2>3 DEF ProbeMiss, TypeOK
<1>5. ASSUME NEW a \in Artifacts, ProbeHit(a) PROVE TypeOK'
  BY <1>5 DEF ProbeHit, Goto, Return, TypeOK, history
<1>6. ASSUME NEW a \in Artifacts, Probed(a) PROVE TypeOK'
  BY <1>6, PassType DEF Probed
<1>7. ASSUME NEW a \in Artifacts, Renumber(a) PROVE TypeOK'
  BY <1>7, WalkType DEF Renumber, TypeOK
<1>8. ASSUME NEW a \in Artifacts, RenumberIdentical(a) PROVE TypeOK'
  BY <1>8 DEF RenumberIdentical, Goto, TypeOK, history
<1>9. ASSUME NEW a \in Artifacts, Push(a) PROVE TypeOK'
  BY <1>9 DEF Push, Goto, TypeOK, history
<1>10. ASSUME NEW a \in Artifacts, Merge(a) PROVE TypeOK'
  BY <1>10 DEF Merge, TypeOK, author, history
<1>11. CASE AllMerged \/ UNCHANGED vars
  BY <1>11 DEF AllMerged, vars, author, history, TypeOK
<1> QED
  BY <1>1, <1>2, <1>3, <1>4, <1>5, <1>6, <1>7, <1>8, <1>9, <1>10, <1>11 DEF Next, Author

\* Every reachable state of the recheck is well typed: no walk leaves the list of
\* repositories.
THEOREM Typing == Spec => []TypeOK
  BY TypeInitially, TypeStep, PTL DEF Spec

-----------------------------------------------------------------------------
(* The walk *)

LEMMA ReadSees ==
  ASSUME TypeOK, NEW b \in Artifacts, stage[b] # "none"
  PROVE  Seen(b) \in 1 .. LastRead /\ pub[b] \in IdsAt(Seen(b))
<1>1. RepoOf[b] \in Nat /\ 1 <= RepoOf[b] /\ RepoOf[b] <= NRepos
  BY RepoOfType, NReposType
<1>2. CASE stage[b] = "merged"
  <2>1. Seen(b) = 2 * RepoOf[b]
    BY <1>2 DEF Seen
  <2>2. SourceAt(Seen(b)) = "merged" /\ RepoAt(Seen(b)) = RepoOf[b]
    BY <1>1, <2>1 DEF SourceAt, RepoAt
  <2> QED
    BY <1>1, <1>2, <2>1, <2>2, NReposType DEF IdsAt, LastRead
<1>3. CASE stage[b] = "branch"
  <2>1. Seen(b) = 2 * RepoOf[b] - 1
    BY <1>3 DEF Seen
  <2>2. SourceAt(Seen(b)) = "branch" /\ RepoAt(Seen(b)) = RepoOf[b]
    BY <1>1, <2>1 DEF SourceAt, RepoAt
  <2> QED
    BY <1>1, <1>3, <2>1, <2>2, NReposType DEF IdsAt, LastRead
<1> QED
  BY <1>2, <1>3 DEF TypeOK

\* A read takes the ids it sees out of what is ahead, and nothing else.
LEMMA ReadPasses ==
  ASSUME TypeOK, NEW a \in Artifacts, NEW n, Ahead(a, n)
  PROVE  n \in IdsAt(at[a]) \/ \E b \in Artifacts : stage[b] # "none" /\ pub[b] = n /\ Seen(b) >= at[a] + 1
<1>1. PICK b \in Artifacts : stage[b] # "none" /\ pub[b] = n /\ Seen(b) >= at[a]
  BY DEF Ahead
<1>2. Seen(b) \in 1 .. LastRead /\ pub[b] \in IdsAt(Seen(b))
  BY <1>1, ReadSees
<1>3. at[a] \in Nat /\ Seen(b) \in Nat
  BY <1>2 DEF TypeOK, LastRead
<1>4. Seen(b) = at[a] \/ Seen(b) >= at[a] + 1
  BY <1>1, <1>3
<1> QED
  BY <1>1, <1>2, <1>4

LEMMA NothingAheadAtTheEnd ==
  ASSUME TypeOK, NEW a \in Artifacts, at[a] > LastRead, NEW n
  PROVE  ~Ahead(a, n)
<1>1. at[a] \in Nat /\ LastRead \in Nat
  BY NReposType DEF TypeOK, LastRead
<1> QED
  BY <1>1, ReadSees DEF Ahead

-----------------------------------------------------------------------------
(* The steps *)

\* A step of a leaves the remote and all other artifacts alone.
Alone(a) ==
    /\ stage' = stage /\ pub' = pub
    /\ \A c \in Artifacts \ {a} :
         /\ pc'[c] = pc[c] /\ id'[c] = id[c] /\ target'[c] = target[c] /\ at'[c] = at[c]
         /\ high'[c] = high[c] /\ degraded'[c] = degraded[c]
         /\ suggestion'[c] = suggestion[c] /\ before'[c] = before[c] /\ blind'[c] = blind[c]

LEMMA AloneKeepsOthers ==
  ASSUME NEW a \in Artifacts, Alone(a), NEW c \in Artifacts \ {a}, Parts(c)
  PROVE  Parts(c)'
  BY DEF Alone, Parts, PushedPart, BeforePart, DerivingPart, ProbingPart, ClearPart,
     RacePart, FreshPart, Ahead, Seen, OnRemote

LEMMA WalkParts ==
  ASSUME WalkInv, NEW a \in Artifacts, NEW n \in Nat, Walk(a, n), pc[a] # "pushed"
  PROVE  Alone(a) /\ Parts(a)'
<1>1. Alone(a)
  BY DEF Walk, Goto, WalkInv, TypeOK, Alone
<1>2. /\ pc'[a] = "deriving" /\ at'[a] = 1 /\ before'[a] = OnRemote
      /\ degraded'[a] = FALSE /\ blind'[a] = FALSE
  BY DEF Walk, Goto, WalkInv, TypeOK
<1>3. stage[a] = "none"
  BY DEF WalkInv, Parts, PushedPart
<1>4. ASSUME NEW m \in OnRemote PROVE Ahead(a, m)'
  <2>1. PICK b \in Artifacts : stage[b] # "none" /\ pub[b] = m
    BY <1>4 DEF OnRemote
  <2>2. Seen(b) \in 1 .. LastRead
    BY <2>1, ReadSees DEF WalkInv
  <2>3. Seen(b)' = Seen(b) /\ Seen(b) >= 1
    BY <1>1, <2>2, NReposType DEF Alone, Seen, LastRead
  <2> QED
    BY <1>1, <1>2, <2>1, <2>3 DEF Ahead, Alone
<1>5. OnRemote' = OnRemote
  BY <1>1 DEF Alone, OnRemote
<1> QED
  BY <1>1, <1>2, <1>3, <1>4, <1>5 DEF Alone, Parts, PushedPart, BeforePart,
     DerivingPart, ProbingPart, ClearPart, RacePart, FreshPart

LEMMA DeriveReadParts ==
  ASSUME WalkInv, NEW a \in Artifacts, DeriveRead(a)
  PROVE  Alone(a) /\ Parts(a)'
<1>1. Alone(a)
  BY DEF DeriveRead, WalkInv, TypeOK, Alone
<1>2. /\ pc[a] = "deriving" /\ pc'[a] = pc[a] /\ before'[a] = before[a] /\ at'[a] = at[a] + 1
      /\ id'[a] = id[a] /\ target'[a] = target[a]
  BY DEF DeriveRead, WalkInv, TypeOK
<1>3. /\ DerivingPart(a) /\ PushedPart(a) /\ BeforePart(a) /\ TypeOK
      /\ before[a] \subseteq Nat /\ high[a] \in Nat
  BY DEF WalkInv, Parts, TypeOK
<1>4. \/ /\ high'[a] \in Nat /\ high'[a] >= high[a] /\ \A k \in IdsAt(at[a]) : k <= high'[a]
         /\ degraded'[a] = degraded[a] /\ blind'[a] = blind[a]
      \/ degraded'[a] = TRUE /\ blind'[a] = TRUE
  <2>1. IdsAt(at[a]) \subseteq Nat
    BY <1>3 DEF IdsAt, TypeOK
  <2> QED
    BY <1>3, <2>1 DEF DeriveRead, TypeOK
<1>5. \A n \in before[a] : Ahead(a, n) => n \in IdsAt(at[a]) \/ Ahead(a, n)'
  <2>1. ASSUME NEW b \in Artifacts PROVE Seen(b)' = Seen(b)
    BY <1>1 DEF Alone, Seen
  <2> QED
    BY <1>1, <1>2, <1>3, <2>1, ReadPasses DEF Ahead, Alone
<1>6. DerivingPart(a)'
  <2>1. CASE degraded'[a] = TRUE /\ blind'[a] = TRUE
    BY <2>1 DEF DerivingPart
  <2>2. CASE /\ high'[a] \in Nat /\ high'[a] >= high[a] /\ \A k \in IdsAt(at[a]) : k <= high'[a]
             /\ degraded'[a] = degraded[a] /\ blind'[a] = blind[a]
    <3>1. ASSUME NEW n \in before[a] PROVE blind[a] \/ n <= high'[a] \/ Ahead(a, n)'
      BY <1>2, <1>3, <1>5, <2>2, <3>1 DEF DerivingPart
    <3> QED
      BY <1>2, <1>3, <2>2, <3>1 DEF DerivingPart
  <2> QED
    BY <1>4, <2>1, <2>2
<1>7. OnRemote' = OnRemote
  BY <1>1 DEF Alone, OnRemote
<1> QED
  BY <1>1, <1>2, <1>3, <1>6, <1>7 DEF Alone, Parts, PushedPart, BeforePart,
     ProbingPart, ClearPart, RacePart, FreshPart

LEMMA PassParts ==
  ASSUME WalkInv, NEW a \in Artifacts, Pass(a), pc[a] # "pushed",
         UNCHANGED <<target, suggestion, stage, pub, history>>,
         target[a] \in before[a] => blind[a]
  PROVE  Alone(a) /\ Parts(a)'
<1>1. Alone(a)
  BY DEF Pass, Return, Goto, WalkInv, TypeOK, Alone, history
<1>2. /\ pc'[a] \in {"clear", "drafted"} /\ (pc'[a] = "clear" => id'[a] = target[a])
      /\ before'[a] = before[a] /\ blind'[a] = blind[a]
  BY DEF Pass, Goto, WalkInv, TypeOK, history
<1>3. PushedPart(a) /\ BeforePart(a) /\ RacePart(a)
  BY DEF WalkInv, Parts
<1>4. OnRemote' = OnRemote
  BY <1>1 DEF Alone, OnRemote
<1> QED
  BY <1>1, <1>2, <1>3, <1>4 DEF Alone, Parts, PushedPart, BeforePart, DerivingPart,
     ProbingPart, ClearPart, RacePart, FreshPart

LEMMA DerivedParts ==
  ASSUME WalkInv, NEW a \in Artifacts, Derived(a)
  PROVE  Alone(a) /\ Parts(a)'
<1>1. pc[a] = "deriving" /\ at[a] > LastRead /\ DerivingPart(a) /\ BeforePart(a) /\ PushedPart(a)
  BY DEF Derived, WalkInv, Parts
<1>2. CASE degraded[a]
  <2>1. Pass(a) /\ blind[a] /\ UNCHANGED <<target, suggestion, stage, pub, history>>
    BY <1>1, <1>2 DEF Derived, DerivingPart
  <2> QED
    BY <1>1, <2>1, PassParts
<1>3. CASE ~degraded[a]
  <2>1. Alone(a)
    BY <1>3 DEF Derived, Goto, WalkInv, TypeOK, Alone, history
  <2>2. /\ pc'[a] = "probing" /\ at'[a] = 1 /\ before'[a] = before[a] /\ blind'[a] = blind[a]
        /\ high'[a] = high[a] /\ target'[a] = target[a]
    BY <1>3 DEF Derived, Goto, WalkInv, TypeOK, history
  <2>3. \A n \in before[a] : n <= high[a]
    BY <1>1, <1>3, NothingAheadAtTheEnd DEF DerivingPart, WalkInv
  <2>4. target[a] \in before[a] => Ahead(a, target[a])'
    <3>1. SUFFICES ASSUME target[a] \in OnRemote PROVE Ahead(a, target[a])'
      BY <1>1 DEF BeforePart
    <3>2. PICK b \in Artifacts : stage[b] # "none" /\ pub[b] = target[a]
      BY <3>1 DEF OnRemote
    <3>3. Seen(b) \in 1 .. LastRead
      BY <3>2, ReadSees DEF WalkInv
    <3>4. Seen(b)' = Seen(b) /\ Seen(b) >= 1
      BY <2>1, <3>3, NReposType DEF Alone, Seen, LastRead
    <3> QED
      BY <2>1, <2>2, <3>2, <3>4 DEF Ahead, Alone
  <2>5. OnRemote' = OnRemote
    BY <2>1 DEF Alone, OnRemote
  <2> QED
    BY <1>1, <2>1, <2>2, <2>3, <2>4, <2>5 DEF Alone, Parts, PushedPart, BeforePart,
       DerivingPart, ProbingPart, ClearPart, RacePart, FreshPart
<1> QED
  BY <1>2, <1>3

LEMMA ProbeMissParts ==
  ASSUME WalkInv, NEW a \in Artifacts, ProbeMiss(a)
  PROVE  Alone(a) /\ Parts(a)'
<1>1. Alone(a)
  BY DEF ProbeMiss, WalkInv, TypeOK, Alone
<1>2. /\ pc[a] = "probing" /\ pc'[a] = pc[a] /\ before'[a] = before[a] /\ high'[a] = high[a]
      /\ id'[a] = id[a] /\ target'[a] = target[a]
  BY DEF ProbeMiss, WalkInv, TypeOK
<1>3. ProbingPart(a) /\ PushedPart(a) /\ BeforePart(a) /\ TypeOK
  BY DEF WalkInv, Parts
<1>4. \/ target[a] \notin IdsAt(at[a]) /\ at'[a] = at[a] + 1 /\ blind'[a] = blind[a]
      \/ blind'[a] = TRUE
  BY <1>3 DEF ProbeMiss, TypeOK
<1>5. target[a] \in before[a] => blind'[a] \/ Ahead(a, target[a])'
  <2>1. ASSUME NEW b \in Artifacts PROVE Seen(b)' = Seen(b)
    BY <1>1 DEF Alone, Seen
  <2> QED
    BY <1>1, <1>2, <1>3, <1>4, <2>1, ReadPasses DEF ProbingPart, Ahead, Alone
<1>6. OnRemote' = OnRemote
  BY <1>1 DEF Alone, OnRemote
<1> QED
  BY <1>1, <1>2, <1>3, <1>5, <1>6 DEF Alone, Parts, PushedPart, BeforePart,
     DerivingPart, ProbingPart, ClearPart, RacePart, FreshPart

LEMMA ProbeHitParts ==
  ASSUME WalkInv, NEW a \in Artifacts, ProbeHit(a)
  PROVE  Alone(a) /\ Parts(a)'
<1>1. Alone(a)
  BY DEF ProbeHit, Goto, Return, WalkInv, TypeOK, Alone, history
<1>2. /\ pc[a] = "probing" /\ pc'[a] \in {"halted", "drafted"}
      /\ before'[a] = before[a] /\ suggestion'[a] = high[a] + 1
  BY DEF ProbeHit, Goto, WalkInv, TypeOK, history
<1>3. /\ ProbingPart(a) /\ PushedPart(a) /\ BeforePart(a)
      /\ before[a] \subseteq Nat /\ high[a] \in Nat
  BY DEF WalkInv, Parts, TypeOK
<1>4. \A n \in before[a] : high[a] + 1 > n
  BY <1>2, <1>3 DEF ProbingPart
<1>5. OnRemote' = OnRemote
  BY <1>1 DEF Alone, OnRemote
<1> QED
  BY <1>1, <1>2, <1>3, <1>4, <1>5 DEF Alone, Parts, PushedPart, BeforePart,
     DerivingPart, ProbingPart, ClearPart, RacePart, FreshPart

LEMMA ProbedParts ==
  ASSUME WalkInv, NEW a \in Artifacts, Probed(a)
  PROVE  Alone(a) /\ Parts(a)'
<1>1. pc[a] = "probing" /\ at[a] > LastRead /\ ProbingPart(a)
  BY DEF Probed, WalkInv, Parts
<1>2. target[a] \in before[a] => blind[a]
  BY <1>1, NothingAheadAtTheEnd DEF ProbingPart, WalkInv
<1> QED
  BY <1>1, <1>2, PassParts DEF Probed

LEMMA RenumberIdenticalParts ==
  ASSUME WalkInv, NEW a \in Artifacts, RenumberIdentical(a)
  PROVE  Alone(a) /\ Parts(a)'
<1>1. Alone(a)
  BY DEF RenumberIdentical, Goto, WalkInv, TypeOK, Alone, history
<1>2. /\ pc[a] = "halted" /\ pc'[a] = "drafted"
      /\ before'[a] = before[a] /\ blind'[a] = blind[a]
  BY DEF RenumberIdentical, Goto, WalkInv, TypeOK, history
<1>3. PushedPart(a) /\ BeforePart(a) /\ RacePart(a)
  BY DEF WalkInv, Parts
<1>4. OnRemote' = OnRemote
  BY <1>1 DEF Alone, OnRemote
<1> QED
  BY <1>1, <1>2, <1>3, <1>4 DEF Alone, Parts, PushedPart, BeforePart, DerivingPart,
     ProbingPart, ClearPart, RacePart, FreshPart

LEMMA RemoteStepKeepsParts ==
  ASSUME WalkInv, NEW c \in Artifacts, Parts(c),
         \A b \in Artifacts : stage[b] # "none" =>
           stage'[b] # "none" /\ pub'[b] = pub[b] /\ Seen(b)' >= Seen(b),
         pc'[c] = pc[c], id'[c] = id[c], target'[c] = target[c], at'[c] = at[c],
         high'[c] = high[c], degraded'[c] = degraded[c],
         suggestion'[c] = suggestion[c], before'[c] = before[c], blind'[c] = blind[c],
         stage'[c] = "none" <=> stage[c] = "none", pub'[c] = pub[c]
  PROVE  Parts(c)'
<1>1. OnRemote \subseteq OnRemote'
  BY DEF OnRemote
<1>2. ASSUME NEW n, Ahead(c, n) PROVE Ahead(c, n)'
  <2>1. PICK b \in Artifacts : stage[b] # "none" /\ pub[b] = n /\ Seen(b) >= at[c]
    BY <1>2 DEF Ahead
  <2>2. stage'[b] # "none" /\ pub'[b] = n /\ Seen(b)' >= Seen(b)
    BY <2>1
  <2>3. at[c] \in Nat /\ Seen(b) \in Nat
    BY <2>1, ReadSees, NReposType DEF WalkInv, TypeOK, LastRead
  <2>4. Seen(b)' \in Int
    BY RepoOfType DEF Seen
  <2>5. Seen(b)' >= at'[c]
    BY <2>1, <2>2, <2>3, <2>4
  <2> QED
    BY <2>2, <2>5 DEF Ahead
<1>3. PushedPart(c)' /\ BeforePart(c)' /\ ClearPart(c)' /\ RacePart(c)' /\ FreshPart(c)'
  BY <1>1 DEF Parts, PushedPart, BeforePart, ClearPart, RacePart, FreshPart
<1>4. DerivingPart(c)'
  BY <1>2 DEF Parts, DerivingPart
<1>5. ProbingPart(c)'
  BY <1>2 DEF Parts, ProbingPart
<1> QED
  BY <1>3, <1>4, <1>5 DEF Parts

LEMMA PushParts ==
  ASSUME WalkInv, NEW a \in Artifacts, Push(a), NEW c \in Artifacts
  PROVE  Parts(c)'
<1>1. pc[a] = "clear" /\ Parts(a) /\ stage[a] = "none"
  BY DEF Push, WalkInv, Parts, PushedPart
<1>2. /\ pc'[a] = "pushed" /\ stage'[a] = "branch" /\ pub'[a] = id[a]
      /\ \A b \in Artifacts \ {a} : pc'[b] = pc[b] /\ stage'[b] = stage[b] /\ pub'[b] = pub[b]
      /\ UNCHANGED <<id, target, at, high, degraded, suggestion, before, blind>>
  BY DEF Push, Goto, WalkInv, TypeOK, history
<1>3. ASSUME NEW b \in Artifacts, stage[b] # "none"
      PROVE  stage'[b] # "none" /\ pub'[b] = pub[b] /\ Seen(b)' >= Seen(b)
  <2>1. b # a /\ Seen(b) \in Nat
    BY <1>1, <1>3, ReadSees, NReposType DEF WalkInv, LastRead
  <2>2. Seen(b)' = Seen(b)
    BY <1>2, <2>1 DEF Seen
  <2> QED
    BY <1>2, <1>3, <2>1, <2>2
<1>4. CASE c = a
  <2>1. OnRemote \subseteq OnRemote'
    BY <1>3 DEF OnRemote
  <2>2. ClearPart(a) /\ BeforePart(a)
    BY <1>1 DEF Parts
  <2> QED
    BY <1>1, <1>2, <1>4, <2>1, <2>2 DEF Parts, PushedPart, BeforePart, DerivingPart,
       ProbingPart, ClearPart, RacePart, FreshPart
<1>5. CASE c # a
  <2>1. Parts(c)
    BY DEF WalkInv
  <2> QED
    BY <1>2, <1>3, <1>5, <2>1, RemoteStepKeepsParts
<1> QED
  BY <1>4, <1>5

LEMMA MergeParts ==
  ASSUME WalkInv, NEW a \in Artifacts, Merge(a), NEW c \in Artifacts
  PROVE  Parts(c)'
<1>1. /\ stage[a] = "branch" /\ stage'[a] = "merged"
      /\ \A b \in Artifacts \ {a} : stage'[b] = stage[b]
      /\ UNCHANGED <<pub, pc, id, target, at, high, degraded, suggestion, before, blind>>
  BY DEF Merge, author, history, WalkInv, TypeOK
<1>2. ASSUME NEW b \in Artifacts, stage[b] # "none"
      PROVE  stage'[b] # "none" /\ pub'[b] = pub[b] /\ Seen(b)' >= Seen(b)
  <2>1. RepoOf[b] \in Nat
    BY RepoOfType, NReposType
  <2>2. Seen(b)' >= Seen(b)
    BY <1>1, <2>1 DEF Seen
  <2> QED
    BY <1>1, <1>2, <2>2
<1>3. Parts(c)
  BY DEF WalkInv
<1> QED
  BY <1>1, <1>2, <1>3, RemoteStepKeepsParts

LEMMA WalkInitially == Init => WalkInv
<1> SUFFICES ASSUME Init, NEW a \in Artifacts PROVE Parts(a)
  BY TypeInitially DEF WalkInv
<1>1. pc[a] = "drafted" /\ stage[a] = "none" /\ before[a] = {}
  BY DEF Init
<1> QED
  BY <1>1 DEF Parts, PushedPart, BeforePart, DerivingPart, ProbingPart, ClearPart,
     RacePart, FreshPart

LEMMA WalkStep == WalkInv /\ [Next]_vars => WalkInv'
<1> SUFFICES ASSUME WalkInv, [Next]_vars, NEW c \in Artifacts PROVE Parts(c)'
  BY TypeStep DEF WalkInv
<1>1. ASSUME NEW a \in Artifacts, Author(a), ~Push(a) PROVE Parts(c)'
  <2>1. \A n \in Nat : Walk(a, n) /\ pc[a] # "pushed" => Alone(a) /\ Parts(a)'
    BY WalkParts
  <2>2. id[a] \in Nat /\ suggestion[a] \in Nat
    BY DEF WalkInv, TypeOK
  <2>3. Recheck(a) \/ Renumber(a) => Alone(a) /\ Parts(a)'
    BY <2>1, <2>2 DEF Recheck, Renumber
  <2>4. Alone(a) /\ Parts(a)'
    BY <1>1, <2>3, DeriveReadParts, DerivedParts, ProbeMissParts, ProbeHitParts, ProbedParts,
       RenumberIdenticalParts DEF Author
  <2>5. Parts(c)
    BY DEF WalkInv
  <2> QED
    BY <2>4, <2>5, AloneKeepsOthers
<1>2. ASSUME NEW a \in Artifacts, Push(a) PROVE Parts(c)'
  BY <1>2, PushParts
<1>3. ASSUME NEW a \in Artifacts, Merge(a) PROVE Parts(c)'
  BY <1>3, MergeParts
<1>4. CASE UNCHANGED vars
  <2>1. Parts(c)
    BY DEF WalkInv
  <2>2. Alone(c)
    BY <1>4 DEF vars, author, history, Alone
  <2> QED
    BY <1>4, <2>1 DEF vars, author, history, Parts, PushedPart, BeforePart, DerivingPart,
       ProbingPart, ClearPart, RacePart, FreshPart, Ahead, Seen, OnRemote
<1> QED
  BY <1>1, <1>2, <1>3, <1>4 DEF Next, AllMerged

-----------------------------------------------------------------------------
(* The results *)

\* What every walk knows of the remote holds in every reachable state.
THEOREM Walks == Spec => []WalkInv
  BY WalkInitially, WalkStep, PTL DEF Spec

\* Whatever the number of artifacts and repositories and however pushes and merges
\* fall between the reads: an id that was on the remote when the recheck began is
\* pushed again only if a read of that recheck failed.
THEOREM Races == Spec => []DuplicatesAreRaces
<1>1. WalkInv => DuplicatesAreRaces
  BY DEF WalkInv, Parts, RacePart, DuplicatesAreRaces
<1> QED
  BY <1>1, Walks, PTL

\* A halt message suggests an id above all that were on the remote when the recheck
\* began.
THEOREM Fresh == Spec => []SuggestionIsFresh
<1>1. WalkInv => SuggestionIsFresh
  BY DEF WalkInv, Parts, FreshPart, SuggestionIsFresh
<1> QED
  BY <1>1, Walks, PTL
=============================================================================
