------------------------- MODULE AgentsRender_proofs -------------------------
(***************************************************************************)
(* What renders and checks make of the agent files, for any agents, texts, *)
(* configurations, processes, kills and edits: files stay whole, a render  *)
(* leaves what its configuration says, and a check predicts it.            *)
(***************************************************************************)
EXTENDS AgentsRender, Integers, TLAPS, WellFoundedInduction, NaturalsInduction

-----------------------------------------------------------------------------
(* Induction over the lines of a file *)

LEMMA LeastMember == ASSUME NEW S \in SUBSET Nat, S # {} PROVE \E n \in S : \A k \in S : n <= k
<1>1. PICK n \in S : \A y \in S : ~(<<y, n>> \in OpToRel(<, Nat))
  BY NatLessThanWellFounded, WFMin
<1>2. ASSUME NEW y \in S PROVE n <= y
  <2>1. ~(y < n)
    BY <1>1 DEF OpToRel
  <2> QED
    BY <2>1
<1> QED
  BY <1>2

\* S is the set of the numbers of which something is proved.
LEMMA Upto ==
    ASSUME NEW n \in Nat, NEW S, 0 \in S, \A i \in 1 .. n : i - 1 \in S => i \in S
    PROVE  \A i \in 0 .. n : i \in S
<1> DEFINE T == {i \in 0 .. n : i \notin S}
<1> SUFFICES ASSUME T # {} PROVE FALSE
  OBVIOUS
<1>1. PICK i \in T : \A j \in T : i <= j
  <2>1. T \in SUBSET Nat
    OBVIOUS
  <2> HIDE DEF T
  <2> QED
    BY <2>1, LeastMember
<1>2. i \in 1 .. n
  BY <1>1
<1>3. i - 1 \in S
  BY <1>1, <1>2
<1> QED
  BY <1>1, <1>2, <1>3

-----------------------------------------------------------------------------
(* What Rest computes *)

\* rest[i] are the lines up to i that are not the model's.
RestUpto(fm, rest) ==
    rest = [i \in 0 .. Len(fm) |->
               IF i = 0 THEN <<>>
               ELSE IF fm[i].key = "model" THEN rest[i - 1] ELSE Append(rest[i - 1], fm[i])]

LEMMA RestExists == ASSUME NEW fm, Len(fm) \in Nat PROVE \E rest : RestUpto(fm, rest)
<1> DEFINE Turn(f, i) == IF i = 0 THEN <<>>
                         ELSE IF fm[i].key = "model" THEN f[i - 1] ELSE Append(f[i - 1], fm[i])
           D == {k \in Nat : \E f : f = [i \in 0 .. k |-> Turn(f, i)]}
<1>1. 0 \in D
  <2> DEFINE g == [i \in 0 .. 0 |-> <<>>]
  <2>1. g = [i \in 0 .. 0 |-> Turn(g, i)]
    OBVIOUS
  <2> QED
    BY <2>1
<1>2. ASSUME NEW k \in 1 .. Len(fm), k - 1 \in D PROVE k \in D
  <2>1. PICK f : f = [i \in 0 .. k - 1 |-> Turn(f, i)]
    BY <1>2
  <2> DEFINE g == [i \in 0 .. k |-> IF i = k THEN Turn(f, k) ELSE f[i]]
  <2>2. ASSUME NEW i \in 0 .. k PROVE g[i] = Turn(g, i)
    <3>1. CASE i = k
      <4>1. g[k - 1] = f[k - 1] /\ k # 0
        OBVIOUS
      <4>2. g[k] = Turn(f, k)
        OBVIOUS
      <4> HIDE DEF g
      <4> QED
        BY <3>1, <4>1, <4>2
    <3>2. CASE i # k
      <4>1. i \in 0 .. k - 1 /\ g[i] = f[i]
        BY <3>2
      <4>2. f[i] = Turn(f, i)
        BY <4>1, <2>1
      <4>3. i # 0 => g[i - 1] = f[i - 1]
        BY <4>1
      <4> HIDE DEF g
      <4> QED
        BY <4>1, <4>2, <4>3
    <3> QED
      BY <3>1, <3>2
  <2>3. g = [i \in 0 .. k |-> g[i]]
    OBVIOUS
  <2>4. g = [i \in 0 .. k |-> Turn(g, i)]
    <3> HIDE DEF g, Turn
    <3> QED
      BY <2>2, <2>3
  <2>5. \E h : h = [i \in 0 .. k |-> Turn(h, i)]
    <3> HIDE DEF g, Turn
    <3> QED
      BY <2>4
  <2> QED
    BY <2>5
<1>3. Len(fm) \in D
  <2> HIDE DEF D
  <2>1. \A i \in 0 .. Len(fm) : i \in D
    BY <1>1, <1>2, Upto
  <2> QED
    BY <2>1
<1> QED
  BY <1>3 DEF RestUpto

LEMMA RestUnfolds ==
    ASSUME NEW t, Len(t.fm) \in Nat
    PROVE  \E rest : /\ Rest(t) = rest[Len(t.fm)]
                     /\ rest[0] = <<>>
                     /\ \A i \in 1 .. Len(t.fm) :
                           rest[i] = IF t.fm[i].key = "model" THEN rest[i - 1] ELSE Append(rest[i - 1], t.fm[i])
<1> DEFINE rest == CHOOSE f : RestUpto(t.fm, f)
<1>1. RestUpto(t.fm, rest)
  BY RestExists
<1>2. Rest(t) = rest[Len(t.fm)]
  BY DEF Rest, RestUpto
<1> HIDE DEF rest
<1>3. rest[0] = <<>>
  BY <1>1 DEF RestUpto
<1>4. ASSUME NEW i \in 1 .. Len(t.fm)
      PROVE  rest[i] = IF t.fm[i].key = "model" THEN rest[i - 1] ELSE Append(rest[i - 1], t.fm[i])
  <2> DEFINE n == Len(t.fm)
  <2>1. i \in 0 .. n /\ i # 0
    OBVIOUS
  <2> HIDE DEF n
  <2>2. rest = [j \in 0 .. n |-> IF j = 0 THEN <<>>
                ELSE IF t.fm[j].key = "model" THEN rest[j - 1] ELSE Append(rest[j - 1], t.fm[j])]
    BY <1>1 DEF RestUpto, n
  <2> QED
    BY <2>1, <2>2
<1> QED
  BY <1>2, <1>3, <1>4
-----------------------------------------------------------------------------
(* What setting, inserting and deleting a line do to a text *)

\* u is t with the line k replaced by another one, or with one more line, at k.
SetAt(t, u, k) ==
    /\ k \in 1 .. Len(t.fm) /\ Len(u.fm) = Len(t.fm)
    /\ \A i \in 1 .. Len(t.fm) : i # k => u.fm[i] = t.fm[i]
Inserted(t, u, k) ==
    /\ k \in 1 .. Len(t.fm) + 1 /\ Len(u.fm) = Len(t.fm) + 1
    /\ \A i \in 1 .. Len(t.fm) : u.fm[IF i < k THEN i ELSE i + 1] = t.fm[i]

LEMMA SetKeepsRest ==
    ASSUME NEW t, NEW u, NEW k, Len(t.fm) \in Nat, SetAt(t, u, k),
           t.fm[k].key = "model", u.fm[k].key = "model"
    PROVE  Rest(u) = Rest(t)
<1> DEFINE n == Len(t.fm)
<1>1. PICK r : /\ Rest(t) = r[n] /\ r[0] = <<>>
               /\ \A i \in 1 .. n : r[i] = IF t.fm[i].key = "model" THEN r[i - 1] ELSE Append(r[i - 1], t.fm[i])
  BY RestUnfolds
<1>2. PICK q : /\ Rest(u) = q[n] /\ q[0] = <<>>
               /\ \A i \in 1 .. n : q[i] = IF u.fm[i].key = "model" THEN q[i - 1] ELSE Append(q[i - 1], u.fm[i])
  BY RestUnfolds DEF SetAt
<1> DEFINE S == {i \in 0 .. n : q[i] = r[i]}
<1>3. ASSUME NEW i \in 1 .. n, i - 1 \in S PROVE i \in S
  <2>1. q[i - 1] = r[i - 1]
    BY <1>3
  <2>2. (u.fm[i].key = "model" /\ t.fm[i].key = "model") \/ u.fm[i] = t.fm[i]
    BY DEF SetAt
  <2>3. q[i] = r[i]
    BY <1>1, <1>2, <2>1, <2>2
  <2> QED
    BY <2>3
<1>4. \A i \in 0 .. n : i \in S
  <2>1. 0 \in S
    BY <1>1, <1>2
  <2> HIDE DEF S
  <2> QED
    BY <1>3, <2>1, Upto
<1> QED
  BY <1>1, <1>2, <1>4

LEMMA InsertKeepsRest ==
    ASSUME NEW t, NEW u, NEW k, Len(t.fm) \in Nat, Inserted(t, u, k), u.fm[k].key = "model"
    PROVE  Rest(u) = Rest(t)
<1> DEFINE n == Len(t.fm)
<1>1. PICK r : /\ Rest(t) = r[n] /\ r[0] = <<>>
               /\ \A i \in 1 .. n : r[i] = IF t.fm[i].key = "model" THEN r[i - 1] ELSE Append(r[i - 1], t.fm[i])
  BY RestUnfolds
<1>2. PICK q : /\ Rest(u) = q[n + 1] /\ q[0] = <<>>
               /\ \A i \in 1 .. n + 1 :
                     q[i] = IF u.fm[i].key = "model" THEN q[i - 1] ELSE Append(q[i - 1], u.fm[i])
  <2>1. Len(u.fm) = n + 1 /\ Len(u.fm) \in Nat
    BY DEF Inserted
  <2>2. \E q : /\ Rest(u) = q[Len(u.fm)] /\ q[0] = <<>>
               /\ \A i \in 1 .. Len(u.fm) :
                     q[i] = IF u.fm[i].key = "model" THEN q[i - 1] ELSE Append(q[i - 1], u.fm[i])
    BY <2>1, RestUnfolds
  <2> HIDE DEF n
  <2> QED
    BY <2>1, <2>2
<1>3. k \in 1 .. n + 1 /\ q[k] = q[k - 1]
  BY <1>2 DEF Inserted
<1> DEFINE S == {i \in 0 .. n : q[IF i < k THEN i ELSE i + 1] = r[i]}
<1>4. ASSUME NEW i \in 1 .. n, i - 1 \in S PROVE i \in S
  <2>1. q[IF i - 1 < k THEN i - 1 ELSE i] = r[i - 1]
    BY <1>4
  <2>2. u.fm[IF i < k THEN i ELSE i + 1] = t.fm[i]
    BY DEF Inserted
  <2>3. CASE i < k
    <3>1. q[i - 1] = r[i - 1] /\ u.fm[i] = t.fm[i] /\ i \in 1 .. n + 1
      BY <1>3, <2>1, <2>2, <2>3
    <3>2. q[i] = r[i]
      BY <1>1, <1>2, <3>1
    <3> QED
      BY <2>3, <3>2
  <2>4. CASE i >= k
    <3>1. q[i] = r[i - 1]
      BY <1>3, <2>1, <2>4
    <3>2. u.fm[i + 1] = t.fm[i] /\ i + 1 \in 1 .. n + 1 /\ ~(i < k)
      BY <1>3, <2>2, <2>4
    <3>3. q[i + 1] = r[i]
      <4>1. q[i + 1] = IF u.fm[i + 1].key = "model" THEN q[(i + 1) - 1] ELSE Append(q[(i + 1) - 1], u.fm[i + 1])
        BY <1>2, <3>2
      <4> QED
        BY <1>1, <3>1, <3>2, <4>1
    <3> QED
      BY <3>2, <3>3
  <2> QED
    BY <1>3, <2>3, <2>4
<1>5. \A i \in 0 .. n : i \in S
  <2>1. 0 \in S
    BY <1>1, <1>2, <1>3
  <2> HIDE DEF S
  <2> QED
    BY <1>4, <2>1, Upto
<1>6. q[IF n < k THEN n ELSE n + 1] = r[n]
  <2>1. n \in S
    BY <1>5
  <2> QED
    BY <2>1
<1>7. n < k => k = n + 1
  BY <1>3
<1> QED
  BY <1>1, <1>2, <1>3, <1>6, <1>7
-----------------------------------------------------------------------------
(* What RenderText does to a text *)

LEMMA FirstIsFirst ==
    ASSUME NEW fm, Len(fm) \in Nat, DOMAIN fm = 1 .. Len(fm), NEW key, HasKey(fm, key)
    PROVE  /\ First(fm, key) \in 1 .. Len(fm) /\ fm[First(fm, key)].key = key
           /\ \A j \in 1 .. First(fm, key) - 1 : fm[j].key # key
<1> DEFINE S == {i \in 1 .. Len(fm) : fm[i].key = key}
<1>1. S \in SUBSET Nat /\ S # {}
  BY DEF HasKey
<1>2. PICK n \in S : \A i \in S : n <= i
  <2> HIDE DEF S
  <2> QED
    BY <1>1, LeastMember
<1>3. n \in DOMAIN fm /\ fm[n].key = key /\ \A j \in 1 .. n - 1 : fm[j].key # key
  BY <1>2
<1> QED
  BY <1>3 DEF First

FmLines == [key : LineKeys, val : Words, exact : BOOLEAN]

LEMMA FmType ==
    ASSUME NEW t \in Texts
    PROVE  /\ t.split \in BOOLEAN /\ t.fm \in Seq(FmLines)
           /\ Len(t.fm) \in Nat /\ DOMAIN t.fm = 1 .. Len(t.fm)
           /\ \A i \in 1 .. Len(t.fm) : t.fm[i] \in FmLines
<1>1. t.split \in BOOLEAN /\ t.fm \in Seq(FmLines)
  BY DEF Texts, FmLines
<1> DEFINE fm == t.fm
<1> HIDE DEF fm
<1>2. fm \in Seq(FmLines)
  BY <1>1 DEF fm
<1>3. Len(fm) \in Nat /\ DOMAIN fm = 1 .. Len(fm) /\ \A i \in 1 .. Len(fm) : fm[i] \in FmLines
  BY <1>2
<1> QED
  BY <1>1, <1>3 DEF fm

LEMMA SameText == ASSUME NEW t \in Texts, NEW u \in Texts, u.split = t.split, u.fm = t.fm PROVE u = t
<1> DEFINE F == Seq([key : LineKeys, val : Words, exact : BOOLEAN])
<1>1. t \in [split : BOOLEAN, fm : F] /\ u \in [split : BOOLEAN, fm : F]
  BY DEF Texts
<1> HIDE DEF F
<1> QED
  BY <1>1

LEMMA ModelLineType == ASSUME NEW m \in ModelValues PROVE ModelLine(m) \in FmLines
BY WordsType DEF ModelLine, FmLines, LineKeys

\* The four things that happen to a text.
Same(t, u, m) == u = t /\ (~t.split \/ (m = "inherit" /\ ~HasKey(t.fm, "model")))
Reset(t, u, m) ==
    /\ t.split /\ m # "inherit" /\ HasKey(t.fm, "model")
    /\ SetAt(t, u, First(t.fm, "model")) /\ u.fm[First(t.fm, "model")] = ModelLine(m)
Added(t, u, m) ==
    /\ t.split /\ m # "inherit" /\ ~HasKey(t.fm, "model")
    /\ \E k \in 1 .. Len(t.fm) + 1 : Inserted(t, u, k) /\ u.fm[k] = ModelLine(m)
Dropped(t, u, m) ==
    /\ t.split /\ m = "inherit" /\ HasKey(t.fm, "model")
    /\ Inserted(u, t, First(t.fm, "model"))

LEMMA RenderDoes ==
    ASSUME NEW t \in Texts, NEW m \in ModelValues
    PROVE  LET u == RenderText(t, m)
           IN  /\ u \in Texts /\ u.split = t.split
               /\ Same(t, u, m) \/ Reset(t, u, m) \/ Added(t, u, m) \/ Dropped(t, u, m)
<1> DEFINE u == RenderText(t, m)
           fm == t.fm
           n == Len(fm)
           after == IF HasKey(fm, "tier") THEN First(fm, "tier") ELSE 0
           k == First(fm, "model")
<1>0. /\ fm \in Seq(FmLines) /\ n \in Nat /\ DOMAIN fm = 1 .. n
      /\ t \in Texts /\ Texts = [split : BOOLEAN, fm : Seq(FmLines)]
  BY FmType DEF Texts, FmLines
<1>1. CASE ~t.split \/ (m = "inherit" /\ ~HasKey(fm, "model"))
  <2>1. t = [t EXCEPT !.fm = t.fm]
    BY <1>0
  <2>2. u = t
    BY <1>1, <2>1 DEF RenderText
  <2> QED
    BY <1>1, <2>2 DEF Same
<1>2. CASE t.split /\ m # "inherit" /\ HasKey(fm, "model")
  <2> DEFINE g == ReplaceAt(fm, k, ModelLine(m))
  <2>1. k \in 1 .. n
    BY <1>0, <1>2, FirstIsFirst
  <2>2. u = [t EXCEPT !.fm = g]
    BY <1>2 DEF RenderText
  <2>3. g \in Seq(FmLines) /\ Len(g) = n /\ g[k] = ModelLine(m) /\ \A i \in 1 .. n : i # k => g[i] = fm[i]
    <3>1. ModelLine(m) \in FmLines
      BY ModelLineType
    <3> HIDE DEF k, n
    <3>2. g = [fm EXCEPT ![k] = ModelLine(m)]
      BY DEF ReplaceAt
    <3> HIDE DEF g, fm
    <3> QED
      BY <1>0, <2>1, <3>1, <3>2 DEF n
  <2>4. u \in Texts /\ u.split = t.split /\ u.fm = g
    <3> HIDE DEF g, u
    <3> QED
      BY <1>0, <2>2, <2>3
  <2>5. Reset(t, u, m)
    <3> HIDE DEF g, u
    <3> QED
      BY <1>2, <2>1, <2>3, <2>4 DEF Reset, SetAt
  <2> QED
    BY <2>4, <2>5
<1>3. CASE t.split /\ m # "inherit" /\ ~HasKey(fm, "model")
  <2> DEFINE g == InsertAt(fm, after + 1, ModelLine(m))
             j == after + 1
  <2>1. j \in 1 .. n + 1
    BY <1>0, FirstIsFirst
  <2>2. u = [t EXCEPT !.fm = g]
    BY <1>3 DEF RenderText
  <2>3. /\ g \in Seq(FmLines) /\ Len(g) = n + 1 /\ g[j] = ModelLine(m)
        /\ \A i \in 1 .. n : g[IF i < j THEN i ELSE i + 1] = fm[i]
    <3>1. ModelLine(m) \in FmLines
      BY ModelLineType
    <3>2. g = SubSeq(fm, 1, j - 1) \o <<ModelLine(m)>> \o SubSeq(fm, j, n)
      BY DEF InsertAt
    <3> HIDE DEF g, fm, j, n
    <3>3. Len(fm) = n
      BY DEF n
    <3> QED
      BY <1>0, <2>1, <3>1, <3>2, <3>3
  <2>4. u \in Texts /\ u.split = t.split /\ u.fm = g
    <3> HIDE DEF g, u
    <3> QED
      BY <1>0, <2>2, <2>3
  <2>5. Inserted(t, u, j) /\ u.fm[j] = ModelLine(m)
    <3> HIDE DEF g, u, j
    <3> QED
      BY <2>1, <2>3, <2>4 DEF Inserted
  <2>6. Added(t, u, m)
    <3> HIDE DEF g, u, j
    <3> QED
      BY <1>3, <2>1, <2>5 DEF Added
  <2> QED
    BY <2>4, <2>6
<1>4. CASE t.split /\ m = "inherit" /\ HasKey(fm, "model")
  <2> DEFINE g == RemoveAt(fm, k)
  <2>1. k \in 1 .. n
    BY <1>0, <1>4, FirstIsFirst
  <2>2. u = [t EXCEPT !.fm = g]
    BY <1>4 DEF RenderText
  <2>3. /\ g \in Seq(FmLines) /\ Len(g) = n - 1
        /\ \A i \in 1 .. n - 1 : g[i] = fm[IF i < k THEN i ELSE i + 1]
    <3>1. g = SubSeq(fm, 1, k - 1) \o SubSeq(fm, k + 1, n)
      BY DEF RemoveAt
    <3> HIDE DEF g, fm, k, n
    <3>2. Len(fm) = n
      BY DEF n
    <3> QED
      BY <1>0, <2>1, <3>1, <3>2
  <2>4. u \in Texts /\ u.split = t.split /\ u.fm = g
    <3> HIDE DEF g, u
    <3> QED
      BY <1>0, <2>2, <2>3
  <2>5. Dropped(t, u, m)
    <3> HIDE DEF g, u
    <3> QED
      BY <1>0, <1>4, <2>1, <2>3, <2>4 DEF Dropped, Inserted
  <2> QED
    BY <2>4, <2>5
<1> QED
  BY <1>1, <1>2, <1>3, <1>4
LEMMA ShownModel ==
    ASSUME NEW u \in Texts, u.split, NEW k \in 1 .. Len(u.fm), u.fm[k].key = "model",
           \A j \in 1 .. k - 1 : u.fm[j].key # "model"
    PROVE  CurrentModel(u) = u.fm[k].val /\ u.fm[First(u.fm, "model")] = u.fm[k]
<1> DEFINE f == First(u.fm, "model")
<1>1. Len(u.fm) \in Nat /\ DOMAIN u.fm = 1 .. Len(u.fm)
  BY FmType
<1>2. HasKey(u.fm, "model")
  BY <1>1 DEF HasKey
<1>3. f \in 1 .. Len(u.fm) /\ u.fm[f].key = "model" /\ \A j \in 1 .. f - 1 : u.fm[j].key # "model"
  BY <1>1, <1>2, FirstIsFirst
<1>4. f = k
  <2> HIDE DEF f
  <2>1. ~(f < k) /\ ~(k < f)
    BY <1>1, <1>3
  <2> QED
    BY <1>1, <1>3, <2>1
<1> QED
  BY <1>2, <1>4 DEF CurrentModel

\* An inserted line leaves the places of the others in order.
LEMMA InsertedLines ==
    ASSUME NEW t \in Texts, NEW u \in Texts, NEW k, Inserted(t, u, k)
    PROVE  /\ \A i \in 1 .. Len(u.fm) \ {k} :
                 (IF i < k THEN i ELSE i - 1) \in 1 .. Len(t.fm) /\ u.fm[i] = t.fm[IF i < k THEN i ELSE i - 1]
           /\ \A i \in 1 .. Len(t.fm) :
                 (IF i < k THEN i ELSE i + 1) \in 1 .. Len(u.fm) \ {k} /\ u.fm[IF i < k THEN i ELSE i + 1] = t.fm[i]
<1> DEFINE n == Len(t.fm)
<1>1. /\ n \in Nat /\ Len(u.fm) = n + 1 /\ k \in 1 .. n + 1
      /\ \A i \in 1 .. n : u.fm[IF i < k THEN i ELSE i + 1] = t.fm[i]
  BY FmType DEF Inserted
<1> HIDE DEF n
<1>2. ASSUME NEW i \in 1 .. n + 1, i # k
      PROVE  (IF i < k THEN i ELSE i - 1) \in 1 .. n /\ u.fm[i] = t.fm[IF i < k THEN i ELSE i - 1]
  <2>1. CASE i < k
    BY <1>1, <2>1
  <2>2. CASE k < i
    <3>1. i - 1 \in 1 .. n /\ ~(i - 1 < k) /\ (i - 1) + 1 = i /\ ~(i < k)
      BY <1>1, <2>2
    <3> QED
      BY <1>1, <3>1
  <2> QED
    BY <1>1, <1>2, <2>1, <2>2
<1>3. ASSUME NEW i \in 1 .. n
      PROVE  (IF i < k THEN i ELSE i + 1) \in 1 .. (n + 1) \ {k} /\ u.fm[IF i < k THEN i ELSE i + 1] = t.fm[i]
  BY <1>1
<1> QED
  BY <1>1, <1>2, <1>3 DEF n

LEMMA RenderKeepsRest ==
    ASSUME NEW t \in Texts, NEW m \in ModelValues
    PROVE  Rest(RenderText(t, m)) = Rest(t)
<1> DEFINE u == RenderText(t, m)
           k == First(t.fm, "model")
<1> SUFFICES Rest(u) = Rest(t)
  OBVIOUS
<1>1. u \in Texts /\ (Same(t, u, m) \/ Reset(t, u, m) \/ Added(t, u, m) \/ Dropped(t, u, m))
  BY RenderDoes
<1>2. ModelLine(m).key = "model"
  BY DEF ModelLine
<1> HIDE DEF u
<1>3. Len(t.fm) \in Nat /\ Len(u.fm) \in Nat /\ DOMAIN t.fm = 1 .. Len(t.fm)
  BY <1>1, FmType
<1>4. HasKey(t.fm, "model") => t.fm[k].key = "model"
  BY <1>3, FirstIsFirst
<1> HIDE DEF k
<1>5. CASE Reset(t, u, m)
  BY <1>2, <1>3, <1>4, <1>5, SetKeepsRest DEF Reset, k
<1>6. CASE Added(t, u, m)
  BY <1>2, <1>3, <1>6, InsertKeepsRest DEF Added
<1>7. CASE Dropped(t, u, m)
  BY <1>3, <1>4, <1>7, InsertKeepsRest DEF Dropped, k
<1> QED
  BY <1>1, <1>5, <1>6, <1>7 DEF Same

LEMMA RenderKeepsModels ==
    ASSUME NEW t \in Texts, NEW m \in ModelValues
    PROVE  ModelsOf(RenderText(t, m)) \subseteq ModelsOf(t) \cup {m}
<1> DEFINE u == RenderText(t, m)
<1>1. u \in Texts /\ (Same(t, u, m) \/ Reset(t, u, m) \/ Added(t, u, m) \/ Dropped(t, u, m))
  BY RenderDoes
<1>2. ModelLine(m).val = m
  BY DEF ModelLine
<1> HIDE DEF u
<1>3. DOMAIN t.fm = 1 .. Len(t.fm) /\ DOMAIN u.fm = 1 .. Len(u.fm)
  BY <1>1, FmType
<1>4. ASSUME NEW i \in 1 .. Len(u.fm)
      PROVE  u.fm[i].val = m \/ \E j \in 1 .. Len(t.fm) : t.fm[j] = u.fm[i]
  <2>1. CASE Reset(t, u, m)
    BY <1>2, <2>1 DEF Reset, SetAt
  <2>2. CASE Added(t, u, m)
    <3>1. PICK k : Inserted(t, u, k) /\ u.fm[k] = ModelLine(m)
      BY <2>2 DEF Added
    <3> QED
      BY <1>1, <1>2, <3>1, InsertedLines
  <2>3. CASE Dropped(t, u, m)
    <3>1. PICK k : Inserted(u, t, k)
      BY <2>3 DEF Dropped
    <3>2. \A j \in 1 .. Len(u.fm) :
             (IF j < k THEN j ELSE j + 1) \in 1 .. Len(t.fm) \ {k} /\ t.fm[IF j < k THEN j ELSE j + 1] = u.fm[j]
      BY <1>1, <3>1, InsertedLines
    <3> QED
      BY <3>2
  <2> QED
    BY <1>1, <2>1, <2>2, <2>3 DEF Same
<1> QED
  BY <1>3, <1>4 DEF ModelsOf, u

LEMMA RenderDoublesNone ==
    ASSUME NEW t \in Texts, NEW m \in ModelValues, ~Doubled(t)
    PROVE  ~Doubled(RenderText(t, m))
<1> DEFINE u == RenderText(t, m)
<1>1. u \in Texts /\ (Same(t, u, m) \/ Reset(t, u, m) \/ Added(t, u, m) \/ Dropped(t, u, m))
  BY RenderDoes
<1> HIDE DEF u
<1>2. DOMAIN t.fm = 1 .. Len(t.fm) /\ DOMAIN u.fm = 1 .. Len(u.fm) /\ Len(t.fm) \in Nat
  BY <1>1, FmType
<1>3. ASSUME NEW i \in 1 .. Len(u.fm), NEW j \in 1 .. Len(u.fm), i # j,
             u.fm[i].key = "model", u.fm[j].key = "model"
      PROVE  FALSE
  <2>1. CASE Reset(t, u, m)
    <3> DEFINE k == First(t.fm, "model")
    <3>1. t.fm[k].key = "model" /\ k \in 1 .. Len(t.fm)
      BY <1>2, <2>1, FirstIsFirst DEF Reset
    <3>2. Len(u.fm) = Len(t.fm) /\ \A l \in 1 .. Len(t.fm) : l # k => u.fm[l] = t.fm[l]
      BY <2>1 DEF Reset, SetAt
    <3> HIDE DEF k
    <3>3. t.fm[i].key = "model" /\ t.fm[j].key = "model"
      BY <1>3, <3>1, <3>2
    <3> QED
      BY <1>2, <1>3, <3>2, <3>3 DEF Doubled
  <2>2. CASE Added(t, u, m)
    <3>1. PICK k : Inserted(t, u, k)
      BY <2>2 DEF Added
    <3>2. \A l \in 1 .. Len(t.fm) : t.fm[l].key # "model"
      BY <1>2, <2>2 DEF Added, HasKey
    <3>3. \A l \in 1 .. Len(u.fm) \ {k} : u.fm[l].key # "model"
      BY <1>1, <3>1, <3>2, InsertedLines
    <3> QED
      BY <1>3, <3>3
  <2>3. CASE Dropped(t, u, m)
    <3>1. PICK k : Inserted(u, t, k)
      BY <2>3 DEF Dropped
    <3> DEFINE to(l) == IF l < k THEN l ELSE l + 1
    <3>2. \A l \in 1 .. Len(u.fm) : to(l) \in 1 .. Len(t.fm) \ {k} /\ t.fm[to(l)] = u.fm[l]
      BY <1>1, <3>1, InsertedLines
    <3>3. to(i) # to(j)
      <4>1. k \in Int
        BY <1>1, <3>1, FmType DEF Inserted
      <4> QED
        BY <1>3, <4>1
    <3> HIDE DEF to
    <3> QED
      BY <1>2, <1>3, <3>2, <3>3 DEF Doubled
  <2> QED
    BY <1>1, <1>2, <1>3, <2>1, <2>2, <2>3 DEF Same, Doubled
<1> QED
  BY <1>2, <1>3 DEF Doubled, u
LEMMA Absent == ASSUME NEW t \in Texts, ~HasKey(t.fm, "model"), t.split PROVE CurrentModel(t) = "inherit"
BY DEF CurrentModel

\* A text m leaves as it is shows it already, in a render's own spelling, ...
Spelt(u) == u.fm[First(u.fm, "model")].exact
Shows(u, m) ==
    u.split => IF m = "inherit" THEN ~HasKey(u.fm, "model") ELSE CurrentModel(u) = m /\ Spelt(u)

LEMMA LengthTells == ASSUME NEW t \in Texts, NEW u, NEW k, Inserted(t, u, k) \/ Inserted(u, t, k), u \in Texts PROVE u # t
<1>1. Len(t.fm) \in Nat /\ Len(u.fm) \in Nat
  BY FmType
<1> QED
  BY <1>1 DEF Inserted

LEMMA ResetShows ==
    ASSUME NEW t \in Texts, NEW u \in Texts, NEW m, Reset(t, u, m), u.split
    PROVE  CurrentModel(u) = m /\ Spelt(u)
<1> DEFINE k == First(t.fm, "model")
<1>1. k \in 1 .. Len(t.fm) /\ \A j \in 1 .. k - 1 : t.fm[j].key # "model"
  BY FmType, FirstIsFirst DEF Reset
<1>2. Len(t.fm) \in Nat
  BY FmType
<1>3. SetAt(t, u, k) /\ u.fm[k] = ModelLine(m)
  BY DEF Reset
<1> HIDE DEF k
<1>4. k \in 1 .. Len(u.fm) /\ \A j \in 1 .. k - 1 : u.fm[j].key # "model"
  BY <1>1, <1>2, <1>3 DEF SetAt
<1> QED
  BY <1>3, <1>4, ShownModel DEF ModelLine, Spelt

LEMMA AddedShows ==
    ASSUME NEW t \in Texts, NEW u \in Texts, NEW m, Added(t, u, m), u.split
    PROVE  CurrentModel(u) = m /\ Spelt(u)
<1>1. PICK k \in 1 .. Len(t.fm) + 1 : Inserted(t, u, k) /\ u.fm[k] = ModelLine(m)
  BY DEF Added
<1>2. Len(t.fm) \in Nat /\ DOMAIN t.fm = 1 .. Len(t.fm)
  BY FmType
<1>3. \A j \in 1 .. Len(t.fm) : t.fm[j].key # "model"
  BY <1>2 DEF Added, HasKey
<1>4. \A l \in 1 .. Len(u.fm) \ {k} : u.fm[l].key # "model"
  BY <1>1, <1>3, InsertedLines
<1>5. k \in 1 .. Len(u.fm) /\ \A j \in 1 .. k - 1 : u.fm[j].key # "model"
  <2>1. Len(u.fm) = Len(t.fm) + 1
    BY <1>1 DEF Inserted
  <2> QED
    BY <1>2, <1>4, <2>1
<1> QED
  BY <1>1, <1>5, ShownModel DEF ModelLine, Spelt

LEMMA RenderShows ==
    ASSUME NEW t \in Texts, NEW m \in ModelValues, m # "inherit" \/ ~Doubled(t)
    PROVE  Shows(RenderText(t, m), m)
<1> DEFINE u == RenderText(t, m)
<1> SUFFICES ASSUME u.split PROVE IF m = "inherit" THEN ~HasKey(u.fm, "model") ELSE CurrentModel(u) = m /\ Spelt(u)
  BY DEF Shows
<1>1. u \in Texts /\ u.split = t.split /\ (Same(t, u, m) \/ Reset(t, u, m) \/ Added(t, u, m) \/ Dropped(t, u, m))
  BY RenderDoes
<1> HIDE DEF u
<1>2. CASE Same(t, u, m)
  BY <1>1, <1>2 DEF Same
<1>3. CASE Reset(t, u, m)
  BY <1>1, <1>3, ResetShows DEF Reset
<1>4. CASE Added(t, u, m)
  BY <1>1, <1>4, AddedShows DEF Added
<1>5. CASE Dropped(t, u, m)
  <2> DEFINE k == First(t.fm, "model")
  <2>1. DOMAIN t.fm = 1 .. Len(t.fm) /\ DOMAIN u.fm = 1 .. Len(u.fm) /\ Len(t.fm) \in Nat
    BY <1>1, FmType
  <2>2. k \in 1 .. Len(t.fm) /\ t.fm[k].key = "model" /\ Inserted(u, t, k) /\ m = "inherit"
    BY <1>5, <2>1, FirstIsFirst DEF Dropped
  <2> HIDE DEF k
  <2>3. ASSUME NEW l \in 1 .. Len(u.fm), u.fm[l].key = "model" PROVE FALSE
    <3>1. PICK j \in 1 .. Len(t.fm) \ {k} : t.fm[j] = u.fm[l]
      BY <1>1, <2>2, InsertedLines
    <3> QED
      BY <2>1, <2>2, <2>3, <3>1 DEF Doubled
  <2> QED
    BY <2>1, <2>2, <2>3 DEF HasKey
<1> QED
  BY <1>1, <1>2, <1>3, <1>4, <1>5

\* ... and but for a model line that says "inherit" or is spelled otherwise, the other
\* way round.
LEMMA RenderChanges ==
    ASSUME NEW t \in Texts, NEW m \in ModelValues, t.split
    PROVE  /\ RenderText(t, m) = t => Shows(t, m) /\ CurrentModel(t) = m
           /\ (HasKey(t.fm, "model") => m # "inherit" /\ Spelt(t)) /\ CurrentModel(t) = m => RenderText(t, m) = t
<1> DEFINE u == RenderText(t, m)
<1>1. u \in Texts /\ u.split = t.split /\ (Same(t, u, m) \/ Reset(t, u, m) \/ Added(t, u, m) \/ Dropped(t, u, m))
  BY RenderDoes
<1> SUFFICES /\ u = t => Shows(t, m) /\ CurrentModel(t) = m
             /\ (HasKey(t.fm, "model") => m # "inherit" /\ Spelt(t)) /\ CurrentModel(t) = m => u = t
  OBVIOUS
<1> HIDE DEF u
<1>2. CASE Same(t, u, m)
  BY <1>1, <1>2, Absent DEF Same, Shows
<1>3. CASE Reset(t, u, m)
  <2> DEFINE k == First(t.fm, "model")
  <2>1. CurrentModel(u) = m /\ Spelt(u) /\ m # "inherit" /\ HasKey(t.fm, "model")
    BY <1>1, <1>3, ResetShows DEF Reset
  <2>2. ASSUME CurrentModel(t) = m, Spelt(t) PROVE u = t
    <3>1. /\ DOMAIN t.fm = 1 .. Len(t.fm) /\ Len(t.fm) \in Nat /\ t.fm \in Seq(FmLines) /\ u.fm \in Seq(FmLines)
          /\ \A i \in 1 .. Len(t.fm) : t.fm[i] \in FmLines
      BY <1>1, FmType
    <3>2. k \in 1 .. Len(t.fm) /\ t.fm[k].key = "model"
      BY <1>3, <3>1, FirstIsFirst DEF Reset
    <3>3. t.fm[k].val = m /\ t.fm[k].exact
      BY <1>3, <2>2 DEF CurrentModel, Reset, Spelt
    <3> DEFINE line == t.fm[k]
    <3>4. line \in FmLines
      BY <3>1, <3>2
    <3>5. line = ModelLine(m)
      <4> HIDE DEF line
      <4>1. line.key = "model" /\ line.val = m /\ line.exact = TRUE
        BY <3>2, <3>3, <3>4 DEF line, FmLines
      <4> QED
        BY <3>4, <4>1 DEF FmLines, ModelLine
    <3>6. Len(u.fm) = Len(t.fm) /\ u.fm[k] = t.fm[k] /\ \A i \in 1 .. Len(t.fm) : i # k => u.fm[i] = t.fm[i]
      BY <1>3, <3>5 DEF Reset, SetAt
    <3> HIDE DEF k, line
    <3>7. u.fm = t.fm
      <4> DEFINE f == t.fm
                 g == u.fm
      <4>1. f \in Seq(FmLines) /\ g \in Seq(FmLines) /\ Len(g) = Len(f) /\ \A i \in 1 .. Len(f) : g[i] = f[i]
        BY <3>1, <3>6
      <4> HIDE DEF f, g
      <4>2. g = f
        BY <4>1
      <4> QED
        BY <4>2 DEF f, g
    <3> QED
      BY <1>1, <3>7, SameText
  <2> QED
    BY <2>1, <2>2 DEF Shows
<1>4. CASE Added(t, u, m)
  <2>1. CurrentModel(t) = "inherit" /\ m # "inherit"
    BY <1>4, Absent DEF Added
  <2>2. u # t
    BY <1>1, <1>4, LengthTells DEF Added
  <2> QED
    BY <2>1, <2>2
<1>5. CASE Dropped(t, u, m)
  <2>1. u # t
    BY <1>1, <1>5, LengthTells DEF Dropped
  <2> QED
    BY <1>5, <2>1 DEF Dropped
<1> QED
  BY <1>1, <1>2, <1>3, <1>4, <1>5
-----------------------------------------------------------------------------
(* The invariant *)

InTmp(p) == pc[p] \in {"writing", "replacing"}

\* Only a valid configuration gets a process past its start, only a render writes, and a
\* check has reported none of the agents that are still to come.
PlaceInv ==
    \A p \in Procs :
        /\ Running(p) \/ pc[p] = "done" => Valid(conf[p])
        /\ pc[p] = "done" => at[p] \notin Agents
        /\ pc[p] \in Writing => mode[p] = "render"
        /\ \A a \in drift[p] : a < at[p]

\* While a process is calm it runs alone.
CalmInv == \A p, q \in Procs : calm[p] /\ q # p => ~Running(q)

\* A temporary file that nobody else has in use holds what its render puts there.
ClashInv == \A p, q \in Procs : p # q /\ InTmp(p) /\ InTmp(q) /\ at[p] = at[q] => at[p] \in clash
TmpInv ==
    \A p \in Procs : at[p] \notin clash \/ calm[p] =>
        /\ pc[p] = "writing" => fd[p] = "tmp"
        /\ pc[p] = "replacing" => tmp[at[p]] = new[p]

\* FilesWhole, of the text a render is about to put in place as well.
Whole(t, b) ==
    /\ t.split = b.split
    /\ Rest(t) = Rest(b)
    /\ ModelsOf(t) \subseteq ModelValues \cup ModelsOf(b)
WholeInv ==
    \A a \in Agents \ (clash \cup raced) :
        /\ Whole(text[a], base[a])
        /\ \A p \in Procs : pc[p] \in Writing /\ at[p] = a => Whole(new[p], base[a])

\* Where people gave a file one model line, there is one in all that comes of it, in a
\* temporary file that two renders have in use too.
SingleInv ==
    \A a \in Agents \ raced : ~Doubled(base[a]) =>
        /\ ~Doubled(text[a])
        /\ \A p \in Procs : at[p] = a =>
               /\ pc[p] \in Writing => ~Doubled(new[p])
               /\ InTmp(p) /\ tmp[a] # NoTmp => ~Doubled(tmp[a])

\* A calm render has left behind it, and a calm check has told, what their configuration
\* says, and so does the text that the render is about to put in place.
Clean(t, p, a) ==
    t.split =>
        LET m == Target(conf[p], a)
        IN  /\ m # "inherit" => CurrentModel(t) = m
            /\ m = "inherit" /\ a \notin raced /\ ~Doubled(base[a]) => ~HasKey(t.fm, "model")
CleanInv ==
    \A p \in Procs : calm[p] /\ mode[p] = "render" /\ pc[p] \in Writing \cup {"next", "done"} =>
        /\ \A a \in Present : a < at[p] => Clean(text[a], p, a)
        /\ pc[p] \in Writing => Clean(new[p], p, at[p])
DriftInv ==
    \A p \in Procs : calm[p] /\ mode[p] = "check" /\ pc[p] \in {"next", "done"} =>
        \A a \in Present : a < at[p] => (a \in drift[p] <=> CurrentModel(text[a]) # Target(conf[p], a))

Inv ==
    /\ TypeOK /\ PlaceInv /\ CalmInv /\ ClashInv /\ TmpInv
    /\ WholeInv /\ SingleInv /\ CleanInv /\ DriftInv

LEMMA TornType == Torn \in Texts /\ ~Doubled(Torn)
BY DEF Torn, Texts, Doubled

LEMMA TargetType == ASSUME NEW c, Valid(c), NEW a \in Agents PROVE Target(c, a) \in ModelValues
BY ShippedType DEF Valid, Target

LEMMA Initially == Init => Inv
<1> SUFFICES ASSUME Init PROVE Inv
  OBVIOUS
<1>1. /\ text \in [Agents -> Texts] /\ base = text /\ tmp = [a \in Agents |-> NoTmp]
      /\ pc = [p \in Procs |-> "idle"] /\ mode = [p \in Procs |-> "check"] /\ DOMAIN conf = Procs
      /\ at = [p \in Procs |-> 1] /\ new = [p \in Procs |-> Torn] /\ fd = [p \in Procs |-> "none"]
      /\ drift = [p \in Procs |-> {}] /\ edits = 0 /\ starts = 0
      /\ clash = {} /\ raced = {} /\ calm = [p \in Procs |-> FALSE]
  BY TextsType DEF Init
<1>2. 1 \in 1 .. NAgents + 1
  BY NAgentsType
<1>3. TypeOK
  BY <1>1, <1>2, TornType DEF TypeOK, Over, Writing
<1>4. PlaceInv /\ CalmInv /\ ClashInv /\ TmpInv
  BY <1>1 DEF PlaceInv, CalmInv, ClashInv, TmpInv, Running, Over, Writing, InTmp
<1>5. WholeInv /\ SingleInv
  BY <1>1 DEF WholeInv, SingleInv, Whole, Writing, InTmp
<1>6. CleanInv /\ DriftInv
  BY <1>1 DEF CleanInv, DriftInv
<1> QED
  BY <1>3, <1>4, <1>5, <1>6 DEF Inv

-----------------------------------------------------------------------------
(* The types *)

LEMMA StepTypes ==
    ASSUME TypeOK, PlaceInv, NEW p \in Procs, Step(p) \/ Kill(p) PROVE TypeOK'
<1> USE DEF Over, Writing
<1>1. CASE Visit(p)
  <2> DEFINE a == at[p]
             rendered == RenderText(text[a], Target(conf[p], a))
  <2>1. pc[p] = "next" /\ a \in Agents /\ UNCHANGED <<config, disk, mode, conf, fd, bounds, history>>
    BY <1>1 DEF Visit
  <2>2. rendered \in Texts
    <3>1. Target(conf[p], a) \in ModelValues
      BY <2>1, TargetType DEF PlaceInv, Running
    <3> QED
      BY <2>1, <3>1, RenderDoes DEF TypeOK
  <2>3. CASE Goto(p, "opening") /\ new' = [new EXCEPT ![p] = rendered] /\ UNCHANGED <<at, drift>>
    <3> HIDE DEF rendered
    <3> QED
      BY <2>1, <2>2, <2>3 DEF TypeOK, Goto, disk, bounds, history
  <2>4. CASE /\ at' = [at EXCEPT ![p] = @ + 1] /\ UNCHANGED <<pc, new>>
             /\ drift' = [drift EXCEPT ![p] = @ \cup {a}] \/ drift' = drift
    <3>1. at[p] + 1 \in 1 .. NAgents + 1
      BY <2>1, NAgentsType DEF Agents
    <3>2. at' \in [Procs -> 1 .. NAgents + 1]
      BY <2>4, <3>1 DEF TypeOK
    <3>3. \A q \in Procs : pc'[q] \in Writing => at'[q] \in Agents
      BY <2>1, <2>4 DEF TypeOK
    <3>4. drift' \in [Procs -> SUBSET Agents]
      BY <2>1, <2>4 DEF TypeOK
    <3> QED
      BY <2>1, <2>4, <3>2, <3>3, <3>4 DEF TypeOK, disk, bounds, history
  <2> QED
    BY <1>1, <2>3, <2>4 DEF Visit
<1>2. CASE Open(p)
  <2>1. at[p] \in Agents
    BY <1>2 DEF Open, TypeOK
  <2>2. clash' \subseteq Agents
    BY <1>2, <2>1 DEF Open, TypeOK
  <2>3. (\A a \in Agents : tmp'[a] \in Texts \cup {NoTmp}) /\ DOMAIN tmp' = Agents
    BY <1>2, TornType DEF Open, TypeOK
  <2> QED
    BY <1>2, <2>1, <2>2, <2>3 DEF Open, TypeOK, Goto, bounds
<1>3. CASE Write(p)
  <2>1. at[p] \in Agents /\ new[p] \in Texts
    BY <1>3 DEF Write, TypeOK
  <2>2. (\A a \in Agents : tmp'[a] \in Texts \cup {NoTmp}) /\ DOMAIN tmp' = Agents
    BY <1>3, <2>1 DEF Write, TypeOK
  <2>3. text' \in [Agents -> Texts]
    BY <1>3, <2>1 DEF Write, TypeOK
  <2> QED
    BY <1>3, <2>1, <2>2, <2>3 DEF Write, TypeOK, Goto, bounds, history
<1>4. CASE Replace(p)
  <2>1. at[p] \in Agents /\ UNCHANGED <<config, mode, conf, new, drift, bounds, history>> /\ pc[p] = "replacing"
    BY <1>4 DEF Replace, TypeOK
  <2>2. CASE tmp[at[p]] = NoTmp
    BY <1>4, <2>1, <2>2 DEF Replace, TypeOK, Goto, disk, bounds, history
  <2>3. CASE tmp[at[p]] # NoTmp
    <3>1. text' = [text EXCEPT ![at[p]] = tmp[at[p]]] /\ tmp' = [tmp EXCEPT ![at[p]] = NoTmp]
      BY <1>4, <2>3 DEF Replace
    <3>2. at' = [at EXCEPT ![p] = @ + 1] /\ Goto(p, "next")
      BY <1>4, <2>3 DEF Replace
    <3>3. fd' \in [Procs -> {"none", "tmp", "file", "gone"}]
      <4> DEFINE a == at[p]
                 Moved(q) == IF at[q] # a \/ q = p THEN fd[q]
                             ELSE IF fd[q] = "tmp" THEN "file" ELSE IF fd[q] = "file" THEN "gone" ELSE fd[q]
      <4>1. fd' = [q \in Procs |-> Moved(q)]
        BY <1>4, <2>3 DEF Replace
      <4>2. \A q \in Procs : Moved(q) \in {"none", "tmp", "file", "gone"}
        BY DEF TypeOK
      <4> HIDE DEF Moved
      <4> QED
        BY <4>1, <4>2
    <3>4. text' \in [Agents -> Texts] /\ DOMAIN tmp' = Agents /\ \A a \in Agents : tmp'[a] \in Texts \cup {NoTmp}
      BY <2>1, <2>3, <3>1 DEF TypeOK
    <3>5. at[p] + 1 \in 1 .. NAgents + 1
      BY <2>1, NAgentsType DEF Agents
    <3>6. at' \in [Procs -> 1 .. NAgents + 1] /\ \A q \in Procs : pc'[q] \in Writing => at'[q] \in Agents
      BY <3>2, <3>5 DEF TypeOK, Goto
    <3> QED
      BY <2>1, <3>2, <3>3, <3>4, <3>6 DEF TypeOK, Goto, bounds, history
  <2> QED
    BY <2>2, <2>3
<1>5. CASE Finish(p) \/ Kill(p)
  <2>1. UNCHANGED <<config, disk, mode, conf, at, new, drift, bounds, history>>
    BY <1>5 DEF Finish, Kill, local
  <2>2. Goto(p, "done") \/ Goto(p, "killed")
    BY <1>5 DEF Finish, Kill
  <2>3. fd' = fd \/ fd' = [fd EXCEPT ![p] = "none"]
    BY <1>5 DEF Finish, Kill, local
  <2> QED
    BY <2>1, <2>2, <2>3 DEF TypeOK, Goto, disk, bounds, history
<1> QED
  BY <1>1, <1>2, <1>3, <1>4, <1>5 DEF Step

LEMMA StartTypes ==
    ASSUME TypeOK, NEW p \in Procs, NEW k \in {"render", "check"}, Start(p, k) PROVE TypeOK'
<1> DEFINE l == IF Valid(ParseAgents(config)) THEN "next" ELSE "invalid"
<1>1. l \in {"next", "invalid"} /\ Goto(p, l)
  BY DEF Start
<1>2. /\ mode' = [mode EXCEPT ![p] = k] /\ DOMAIN conf' = Procs /\ at' = [at EXCEPT ![p] = 1]
      /\ drift' = [drift EXCEPT ![p] = {}] /\ starts' = starts + 1
      /\ UNCHANGED <<config, disk, new, fd, edits, base, clash, raced>>
  BY DEF Start, TypeOK
<1>3. calm' \in [Procs -> BOOLEAN]
  <2> DEFINE c(q) == q = p /\ \A r \in Procs \ {p} : ~Running(r)
  <2>1. calm' = [q \in Procs |-> c(q)]
    BY DEF Start
  <2>2. \A q \in Procs : c(q) \in BOOLEAN
    OBVIOUS
  <2> HIDE DEF c
  <2> QED
    BY <2>1, <2>2
<1>4. 1 \in 1 .. NAgents + 1
  BY NAgentsType
<1> HIDE DEF l
<1>5. \A q \in Procs : pc'[q] \in Writing => at'[q] \in Agents
  BY <1>1, <1>2 DEF TypeOK, Goto, Writing
<1>6. /\ pc' \in [Procs -> Over \cup Writing \cup {"next"}] /\ mode' \in [Procs -> {"render", "check"}]
      /\ at' \in [Procs -> 1 .. NAgents + 1] /\ drift' \in [Procs -> SUBSET Agents] /\ starts' \in Nat
  BY <1>1, <1>2, <1>4 DEF TypeOK, Goto, Over
<1> QED
  BY <1>2, <1>3, <1>5, <1>6 DEF TypeOK, disk

LEMMA EditTypes == ASSUME TypeOK, NEW a \in Agents, NEW t \in EditTexts, Edit(a, t) PROVE TypeOK'
<1>1. t \in Texts
  BY TextsType
<1>2. raced' \subseteq Agents
  BY DEF Edit, TypeOK
<1>3. text' \in [Agents -> Texts] /\ base' \in [Agents -> Texts]
  BY <1>1 DEF Edit, TypeOK
<1>4. calm' \in [Procs -> BOOLEAN]
  BY DEF Edit
<1> QED
  BY <1>2, <1>3, <1>4 DEF Edit, TypeOK, local
-----------------------------------------------------------------------------
(* Who runs, and who has a temporary file in use *)

\* What a step of p leaves alone of the others.
LEMMA OthersStay ==
    ASSUME TypeOK, NEW p \in Procs, Step(p) \/ Kill(p)
    PROVE  /\ Running(p) /\ UNCHANGED <<config, mode, conf, base, raced, calm>> /\ clash \subseteq clash'
           /\ \A q \in Procs \ {p} : pc'[q] = pc[q] /\ at'[q] = at[q] /\ new'[q] = new[q] /\ drift'[q] = drift[q]
<1> USE DEF Over, Writing
<1>1. Running(p)
  BY DEF Step, Visit, Open, Write, Replace, Finish, Kill, Running
<1>2. UNCHANGED <<config, mode, conf, base, raced, calm>> /\ clash \subseteq clash'
  BY DEF Step, Visit, Open, Write, Replace, Finish, Kill, history, local
<1>3. \A q \in Procs \ {p} : pc'[q] = pc[q]
  BY DEF Step, Visit, Open, Write, Replace, Finish, Kill, Goto, TypeOK
<1>4. \A q \in Procs \ {p} : at'[q] = at[q] /\ new'[q] = new[q] /\ drift'[q] = drift[q]
  BY DEF Step, Visit, Open, Write, Replace, Finish, Kill, local, TypeOK
<1> QED
  BY <1>1, <1>2, <1>3, <1>4

\* Where a step of p takes it.
LEMMA Goes ==
    ASSUME TypeOK, NEW p \in Procs, Step(p) \/ Kill(p)
    PROVE  /\ pc'[p] = "done" => at'[p] \notin Agents
           /\ pc'[p] \in Writing => mode[p] = "render" \/ pc[p] \in Writing
           /\ InTmp(p)' => pc[p] \in {"opening", "writing"} /\ at'[p] = at[p]
BY DEF Step, Visit, Open, Write, Replace, Finish, Kill, Goto, TypeOK, local, Over, Writing, InTmp

LEMMA StartStops ==
    ASSUME TypeOK, NEW p \in Procs, NEW k \in {"render", "check"}, Start(p, k)
    PROVE  /\ pc'[p] \in {"next", "invalid"} /\ (pc'[p] = "next" => Valid(conf'[p])) /\ at'[p] = 1 /\ drift'[p] = {}
           /\ ~calm'[p] \/ \A q \in Procs \ {p} : ~Running(q)
           /\ UNCHANGED <<text, tmp, new, fd, base, clash, raced>>
           /\ \A q \in Procs \ {p} : /\ pc'[q] = pc[q] /\ at'[q] = at[q] /\ mode'[q] = mode[q]
                                     /\ conf'[q] = conf[q] /\ drift'[q] = drift[q] /\ ~calm'[q]
BY DEF Start, TypeOK, Goto, disk

LEMMA StepPlace == ASSUME TypeOK, PlaceInv, NEW p \in Procs, Step(p) \/ Kill(p) PROVE PlaceInv'
<1>1. \A a \in drift'[p] : a < at'[p]
  <2>1. drift[p] \subseteq Agents /\ at[p] \in Nat /\ \A a \in drift[p] : a < at[p]
    BY NAgentsType DEF TypeOK, PlaceInv
  <2>2. CASE Visit(p)
    <3>1. at[p] \in Agents /\ ((at'[p] = at[p] /\ drift' = drift) \/ at'[p] = at[p] + 1)
      BY <2>2 DEF Visit, TypeOK
    <3>2. drift'[p] \subseteq drift[p] \cup {at[p]}
      BY <2>2 DEF Visit, TypeOK
    <3> QED
      BY <2>1, <3>1, <3>2 DEF Agents
  <2>3. CASE Replace(p)
    <3>1. drift' = drift /\ (at'[p] = at[p] \/ at'[p] = at[p] + 1)
      BY <2>3 DEF Replace, TypeOK
    <3> QED
      BY <2>1, <3>1 DEF Agents
  <2>4. CASE Open(p) \/ Write(p) \/ Finish(p) \/ Kill(p)
    BY <2>1, <2>4 DEF Open, Write, Finish, Kill, local
  <2> QED
    BY <2>2, <2>3, <2>4 DEF Step
<1> QED
  BY <1>1, OthersStay, Goes DEF PlaceInv, Running

LEMMA StartPlace ==
    ASSUME TypeOK, PlaceInv, NEW p \in Procs, NEW k \in {"render", "check"}, Start(p, k) PROVE PlaceInv'
BY StartStops DEF PlaceInv, Running, Over, Writing

LEMMA StepCalm == ASSUME TypeOK, CalmInv, NEW p \in Procs, Step(p) \/ Kill(p) PROVE CalmInv'
BY OthersStay DEF CalmInv, Running

LEMMA StartCalm ==
    ASSUME TypeOK, CalmInv, NEW p \in Procs, NEW k \in {"render", "check"}, Start(p, k) PROVE CalmInv'
BY StartStops DEF CalmInv, Running

LEMMA StepClash ==
    ASSUME TypeOK, ClashInv, NEW p \in Procs, Step(p) \/ Kill(p) PROVE ClashInv'
<1>1. ASSUME NEW q \in Procs, p # q, InTmp(p)', InTmp(q)', at'[p] = at'[q] PROVE at'[p] \in clash'
  <2>1. InTmp(q) /\ at[q] = at[p] /\ at'[p] = at[p] /\ pc[p] \in {"opening", "writing"} /\ clash \subseteq clash'
    BY <1>1, OthersStay, Goes DEF InTmp
  <2>2. CASE pc[p] = "writing"
    BY <1>1, <2>1, <2>2 DEF ClashInv, InTmp
  <2>3. CASE pc[p] = "opening"
    <3>1. Open(p)
      BY <1>1, <2>1, <2>3 DEF Step, Visit, Write, Replace, Finish, Kill, Goto, InTmp, TypeOK
    <3> QED
      BY <1>1, <2>1, <3>1 DEF Open, InTmp
  <2> QED
    BY <2>1, <2>2, <2>3
<1>2. ASSUME NEW q \in Procs, NEW r \in Procs, q # r, p # q, p # r, InTmp(q)', InTmp(r)', at'[q] = at'[r]
      PROVE  at'[q] \in clash'
  BY <1>2, OthersStay DEF ClashInv, InTmp
<1> QED
  BY <1>1, <1>2 DEF ClashInv

LEMMA StartClash ==
    ASSUME TypeOK, ClashInv, NEW p \in Procs, NEW k \in {"render", "check"}, Start(p, k) PROVE ClashInv'
BY StartStops DEF ClashInv, InTmp

LEMMA StepTmp ==
    ASSUME TypeOK, ClashInv, CalmInv, TmpInv, NEW p \in Procs, Step(p) \/ Kill(p) PROVE TmpInv'
<1> USE DEF Over, Writing
\* Of the others, in a temporary file that p does not use.
<1>1. ASSUME NEW q \in Procs, q # p, at'[q] \notin clash' \/ calm'[q], pc'[q] \in {"writing", "replacing"}
      PROVE  /\ pc'[q] = "writing" => fd'[q] = "tmp"
             /\ pc'[q] = "replacing" => tmp'[at'[q]] = new'[q]
  <2>1. /\ pc'[q] = pc[q] /\ at'[q] = at[q] /\ new'[q] = new[q] /\ calm'[q] = calm[q] /\ Running(p)
        /\ clash \subseteq clash'
    BY <1>1, OthersStay
  <2>2. ~calm[q] /\ at[q] \notin clash'
    BY <1>1, <2>1 DEF CalmInv
  <2>3. (pc[q] = "writing" => fd[q] = "tmp") /\ (pc[q] = "replacing" => tmp[at[q]] = new[q])
    BY <2>1, <2>2 DEF TmpInv
  <2>4. InTmp(q) /\ ~(InTmp(p) /\ at[p] = at[q])
    BY <1>1, <2>1, <2>2 DEF InTmp, ClashInv
  <2>5. CASE Open(p)
    <3>1. at[p] # at[q]
      BY <1>1, <2>1, <2>2, <2>5 DEF Open, TypeOK
    <3> QED
      BY <1>1, <2>1, <2>3, <2>5, <3>1 DEF Open, TypeOK
  <2>6. CASE Write(p)
    <3>1. at[p] # at[q]
      BY <2>4, <2>6 DEF Write, InTmp
    <3> QED
      BY <1>1, <2>1, <2>3, <2>6, <3>1 DEF Write, TypeOK
  <2>7. CASE Replace(p)
    <3>1. at[p] # at[q]
      BY <2>4, <2>7 DEF Replace, InTmp
    <3> QED
      BY <1>1, <2>1, <2>3, <2>7, <3>1 DEF Replace, TypeOK, disk
  <2>8. CASE Visit(p) \/ Finish(p) \/ Kill(p)
    BY <1>1, <2>1, <2>3, <2>8 DEF Visit, Finish, Kill, TypeOK, disk, local
  <2> QED
    BY <2>5, <2>6, <2>7, <2>8 DEF Step
<1>2. ASSUME at'[p] \notin clash' \/ calm'[p], pc'[p] \in {"writing", "replacing"}
      PROVE  /\ pc'[p] = "writing" => fd'[p] = "tmp"
             /\ pc'[p] = "replacing" => tmp'[at'[p]] = new'[p]
  <2>1. Open(p) \/ Write(p)
    BY <1>2 DEF Step, Visit, Replace, Finish, Kill, Goto, TypeOK
  <2>2. CASE Open(p)
    BY <2>2 DEF Open, Goto, TypeOK
  <2>3. CASE Write(p)
    <3>1. /\ pc[p] = "writing" /\ pc'[p] = "replacing" /\ UNCHANGED <<at, new, clash, calm>> /\ at[p] \in Agents
          /\ tmp' = IF fd[p] = "tmp" THEN [tmp EXCEPT ![at[p]] = new[p]] ELSE tmp
      BY <2>3 DEF Write, Goto, TypeOK, history
    <3>2. fd[p] = "tmp"
      BY <1>2, <3>1 DEF TmpInv
    <3> QED
      BY <3>1, <3>2 DEF TypeOK
  <2> QED
    BY <2>1, <2>2, <2>3
<1> QED
  BY <1>1, <1>2 DEF TmpInv

LEMMA StartTmp ==
    ASSUME TypeOK, TmpInv, NEW p \in Procs, NEW k \in {"render", "check"}, Start(p, k) PROVE TmpInv'
BY StartStops DEF TmpInv
-----------------------------------------------------------------------------
(* What the files hold *)

\* What a step of p does to a file and to the text it is about to put in place.
LEMMA TextStep ==
    ASSUME TypeOK, PlaceInv, NEW p \in Procs, Step(p) \/ Kill(p)
    PROVE  /\ \A a \in Agents : \/ text'[a] = text[a]
                                \/ a = at[p] /\ pc[p] = "writing" /\ fd[p] # "tmp" /\ text'[a] = new[p]
                                \/ a = at[p] /\ pc[p] = "replacing" /\ tmp[a] # NoTmp /\ text'[a] = tmp[a]
           /\ pc'[p] \in Writing =>
                 /\ at'[p] = at[p]
                 /\ \/ pc[p] \in Writing /\ new'[p] = new[p]
                    \/ new'[p] = RenderText(text[at[p]], Target(conf[p], at[p]))
<1> USE DEF Over, Writing
<1>1. CASE Visit(p)
  BY <1>1 DEF Visit, Goto, TypeOK, disk
<1>2. CASE Open(p)
  BY <1>2 DEF Open, Goto, TypeOK
<1>3. CASE Write(p)
  BY <1>3 DEF Write, Goto, TypeOK
<1>4. CASE Replace(p)
  <2>1. pc'[p] \notin Writing /\ pc[p] = "replacing"
    BY <1>4 DEF Replace, Goto, TypeOK
  <2>2. \A a \in Agents : text'[a] = text[a] \/ (a = at[p] /\ tmp[a] # NoTmp /\ text'[a] = tmp[a])
    BY <1>4 DEF Replace, TypeOK, disk
  <2> QED
    BY <2>1, <2>2
<1>5. CASE Finish(p) \/ Kill(p)
  BY <1>5 DEF Finish, Kill, Goto, TypeOK, disk
<1> QED
  BY <1>1, <1>2, <1>3, <1>4, <1>5 DEF Step

\* The model of an agent a process is at is a known one.
LEMMA TargetKnown ==
    ASSUME TypeOK, PlaceInv, NEW p \in Procs, Running(p), at[p] \in Agents
    PROVE  Target(conf[p], at[p]) \in ModelValues /\ text[at[p]] \in Texts
BY TargetType DEF PlaceInv, TypeOK

LEMMA RenderWhole ==
    ASSUME NEW t \in Texts, NEW b, Whole(t, b), NEW m \in ModelValues PROVE Whole(RenderText(t, m), b)
<1>1. RenderText(t, m).split = t.split
  BY RenderDoes
<1>2. Rest(RenderText(t, m)) = Rest(t) /\ ModelsOf(RenderText(t, m)) \subseteq ModelsOf(t) \cup {m}
  BY RenderKeepsRest, RenderKeepsModels
<1> QED
  BY <1>1, <1>2 DEF Whole

LEMMA StepWhole ==
    ASSUME TypeOK, PlaceInv, TmpInv, WholeInv, NEW p \in Procs, Step(p) \/ Kill(p) PROVE WholeInv'
<1> SUFFICES ASSUME NEW a \in Agents, a \notin clash', a \notin raced'
             PROVE  /\ Whole(text'[a], base'[a])
                    /\ \A q \in Procs : pc'[q] \in Writing /\ at'[q] = a => Whole(new'[q], base'[a])
  BY DEF WholeInv, Whole
<1>1. /\ a \notin clash /\ a \notin raced /\ base' = base /\ Running(p)
      /\ \A q \in Procs \ {p} : pc'[q] = pc[q] /\ at'[q] = at[q] /\ new'[q] = new[q]
  BY OthersStay
<1>2. Whole(text[a], base[a]) /\ \A q \in Procs : pc[q] \in Writing /\ at[q] = a => Whole(new[q], base[a])
  BY <1>1 DEF WholeInv
<1>3. at[p] = a => /\ pc[p] = "writing" => fd[p] = "tmp"
                   /\ pc[p] = "replacing" => tmp[a] = new[p]
  BY <1>1 DEF TmpInv
<1>4. Whole(text'[a], base'[a])
  BY <1>1, <1>2, <1>3, TextStep DEF Writing
<1>5. ASSUME pc'[p] \in Writing, at'[p] = a PROVE Whole(new'[p], base'[a])
  <2>1. at[p] = a /\ ((pc[p] \in Writing /\ new'[p] = new[p]) \/ new'[p] = RenderText(text[a], Target(conf[p], a)))
    BY <1>5, TextStep
  <2>2. Target(conf[p], a) \in ModelValues /\ text[a] \in Texts
    BY <1>1, <2>1, TargetKnown
  <2> QED
    BY <1>1, <1>2, <2>1, <2>2, RenderWhole
<1> QED
  BY <1>1, <1>2, <1>4, <1>5

LEMMA StartWhole ==
    ASSUME TypeOK, WholeInv, NEW p \in Procs, NEW k \in {"render", "check"}, Start(p, k) PROVE WholeInv'
BY StartStops DEF WholeInv, Whole, Writing

LEMMA StepSingle ==
    ASSUME TypeOK, PlaceInv, SingleInv, NEW p \in Procs, Step(p) \/ Kill(p) PROVE SingleInv'
<1> SUFFICES ASSUME NEW a \in Agents, a \notin raced', ~Doubled(base'[a])
             PROVE  /\ ~Doubled(text'[a])
                    /\ \A q \in Procs : at'[q] = a =>
                           /\ pc'[q] \in Writing => ~Doubled(new'[q])
                           /\ pc'[q] \in {"writing", "replacing"} /\ tmp'[a] # NoTmp => ~Doubled(tmp'[a])
  BY DEF SingleInv, Doubled, InTmp
<1>1. /\ a \notin raced /\ ~Doubled(base[a]) /\ Running(p)
      /\ \A q \in Procs \ {p} : pc'[q] = pc[q] /\ at'[q] = at[q] /\ new'[q] = new[q]
  BY OthersStay
<1>2. /\ ~Doubled(text[a])
      /\ \A q \in Procs : at[q] = a => /\ pc[q] \in Writing => ~Doubled(new[q])
                                       /\ InTmp(q) /\ tmp[a] # NoTmp => ~Doubled(tmp[a])
  BY <1>1 DEF SingleInv
<1>3. ~Doubled(text'[a])
  BY <1>1, <1>2, TextStep DEF Writing, InTmp
<1>4. ASSUME pc'[p] \in Writing, at'[p] = a PROVE ~Doubled(new'[p])
  <2>1. at[p] = a /\ ((pc[p] \in Writing /\ new'[p] = new[p]) \/ new'[p] = RenderText(text[a], Target(conf[p], a)))
    BY <1>4, TextStep
  <2>2. Target(conf[p], a) \in ModelValues /\ text[a] \in Texts
    BY <1>1, <2>1, TargetKnown
  <2> QED
    BY <1>2, <2>1, <2>2, RenderDoublesNone
\* The temporary file is emptied, written by p, taken away, or as it was.
<1>5. \/ tmp'[a] = Torn \/ tmp'[a] = NoTmp
      \/ at[p] = a /\ pc[p] = "writing" /\ tmp'[a] = new[p]
      \/ tmp'[a] = tmp[a] /\ (InTmp(p)' /\ at'[p] = a => InTmp(p) /\ at[p] = a)
  <2>1. CASE Open(p)
    BY <2>1 DEF Open, TypeOK, Goto, InTmp, Writing
  <2>2. CASE Write(p)
    BY <2>2 DEF Write, TypeOK, Goto, InTmp, Writing
  <2>3. CASE Replace(p)
    BY <2>3 DEF Replace, TypeOK, Goto, InTmp, Writing, disk
  <2>4. CASE Visit(p) \/ Finish(p) \/ Kill(p)
    BY <2>4 DEF Visit, Finish, Kill, TypeOK, Goto, InTmp, Writing, disk
  <2> QED
    BY <2>1, <2>2, <2>3, <2>4 DEF Step
<1>6. ASSUME NEW q \in Procs, at'[q] = a, pc'[q] \in {"writing", "replacing"}, tmp'[a] # NoTmp
      PROVE  ~Doubled(tmp'[a])
  <2>1. CASE tmp'[a] = Torn
    BY <2>1, TornType
  <2>2. CASE at[p] = a /\ pc[p] = "writing" /\ tmp'[a] = new[p]
    BY <1>2, <2>2 DEF Writing
  <2>3. CASE tmp'[a] = tmp[a] /\ (InTmp(p)' /\ at'[p] = a => InTmp(p) /\ at[p] = a)
    <3>1. InTmp(q) /\ at[q] = a
      BY <1>1, <1>6, <2>3 DEF InTmp
    <3> QED
      BY <1>2, <1>6, <2>3, <3>1
  <2> QED
    BY <1>5, <1>6, <2>1, <2>2, <2>3
<1> QED
  BY <1>1, <1>2, <1>3, <1>4, <1>6

LEMMA StartSingle ==
    ASSUME TypeOK, SingleInv, NEW p \in Procs, NEW k \in {"render", "check"}, Start(p, k) PROVE SingleInv'
BY StartStops DEF SingleInv, InTmp, Writing, Doubled
-----------------------------------------------------------------------------
(* What a calm process leaves behind it *)

\* Whoever moves is the calm process, or takes the calm away.
LEMMA CalmAlone ==
    ASSUME TypeOK, CalmInv, NEW p \in Procs, Step(p) \/ Kill(p), NEW q \in Procs, calm'[q] PROVE q = p /\ calm[p]
BY OthersStay DEF CalmInv

LEMMA RenderClean ==
    ASSUME TypeOK, PlaceInv, SingleInv, NEW p \in Procs, Running(p), at[p] \in Agents
    PROVE  LET u == RenderText(text[at[p]], Target(conf[p], at[p]))
           IN  Clean(u, p, at[p]) /\ (u = text[at[p]] => Clean(text[at[p]], p, at[p]))
<1> DEFINE a == at[p]
           m == Target(conf[p], a)
           u == RenderText(text[a], m)
<1>1. m \in ModelValues /\ text[a] \in Texts
  BY TargetKnown
<1>2. a \notin raced /\ ~Doubled(base[a]) => ~Doubled(text[a])
  BY DEF SingleInv
<1>3. m # "inherit" \/ ~Doubled(text[a]) => Shows(u, m)
  BY <1>1, RenderShows
<1> HIDE DEF u
<1>4. Clean(u, p, a)
  <2> HIDE DEF a
  <2>1. m # "inherit" \/ (m = "inherit" /\ a \notin raced /\ ~Doubled(base[a])) => Shows(u, m)
    BY <1>2, <1>3
  <2> QED
    BY <2>1 DEF Clean, Shows
<1> QED
  BY <1>4 DEF u

LEMMA StepClean ==
    ASSUME TypeOK, PlaceInv, CalmInv, TmpInv, SingleInv, CleanInv, NEW p \in Procs, Step(p) \/ Kill(p)
    PROVE  CleanInv'
<1> SUFFICES ASSUME calm'[p], mode'[p] = "render", pc'[p] \in Writing \cup {"next", "done"}
             PROVE  /\ \A a \in Present : a < at'[p] => Clean(text[a], p, a)'
                    /\ pc'[p] \in Writing => Clean(new[p], p, at[p])'
  BY CalmAlone DEF CleanInv, Clean
<1>1. calm[p] /\ mode[p] = "render" /\ Running(p) /\ UNCHANGED <<conf, base, raced>>
  BY CalmAlone, OthersStay
<1>2. pc[p] \in Writing \cup {"next"}
  BY <1>1 DEF Running, Over, Writing, TypeOK
<1>3. /\ \A a \in Present : a < at[p] => Clean(text[a], p, a)
      /\ pc[p] \in Writing => Clean(new[p], p, at[p])
  BY <1>1, <1>2 DEF CleanInv
<1>4. (pc[p] = "writing" => fd[p] = "tmp") /\ (pc[p] = "replacing" => tmp[at[p]] = new[p])
  BY <1>1 DEF TmpInv
<1>5. ASSUME NEW a \in Present, a < at'[p] PROVE Clean(text'[a], p, a)
  <2>1. a \in Agents /\ a \in Nat
    BY PresentType DEF Agents
  <2>2. CASE a < at[p] /\ text'[a] = text[a]
    BY <1>3, <2>2
  <2>3. CASE Replace(p)
    <3>1. tmp[at[p]] # NoTmp /\ at[p] \in Agents /\ at' = [at EXCEPT ![p] = @ + 1] /\ pc[p] = "replacing"
      BY <2>3 DEF Replace, Goto, TypeOK, Writing
    <3>2. text' = [text EXCEPT ![at[p]] = new[p]]
      BY <1>4, <2>3, <3>1 DEF Replace
    <3>3. a < at[p] \/ a = at[p]
      BY <1>5, <2>1, <3>1 DEF Agents, TypeOK
    <3> QED
      BY <1>3, <2>1, <3>1, <3>2, <3>3 DEF TypeOK, Writing
  <2>4. CASE Visit(p)
    <3>1. at[p] \in Agents /\ text' = text
      BY <2>4 DEF Visit, disk
    <3>2. CASE a # at[p]
      <4>1. at'[p] \in {at[p], at[p] + 1}
        BY <2>4 DEF Visit, TypeOK
      <4> QED
        BY <1>3, <1>5, <2>1, <3>1, <3>2, <4>1 DEF Agents
    <3>3. CASE a = at[p]
      <4>1. RenderText(text[a], Target(conf[p], a)) = text[a]
        BY <1>1, <1>5, <2>1, <2>4, <3>3 DEF Visit, Agents
      <4> QED
        BY <1>1, <3>1, <3>3, <4>1, RenderClean
    <3> QED
      BY <3>2, <3>3
  <2>5. CASE Open(p) \/ Write(p) \/ Finish(p) \/ Kill(p)
    <3>1. at' = at /\ text' = text
      BY <1>4, <2>5 DEF Open, Write, Finish, Kill, disk, local
    <3> QED
      BY <1>3, <1>5, <3>1
  <2> QED
    BY <2>3, <2>4, <2>5 DEF Step
<1>6. ASSUME pc'[p] \in Writing PROVE Clean(new'[p], p, at'[p])
  <2>1. /\ at'[p] = at[p] /\ at'[p] \in Agents
        /\ (pc[p] \in Writing /\ new'[p] = new[p]) \/ new'[p] = RenderText(text[at[p]], Target(conf[p], at[p]))
    <3>1. TypeOK'
      BY StepTypes
    <3> QED
      BY <1>6, <3>1, TextStep DEF TypeOK
  <2> QED
    BY <1>1, <1>3, <2>1, RenderClean
<1> QED
  BY <1>1, <1>5, <1>6 DEF Clean

LEMMA StartClean ==
    ASSUME TypeOK, CleanInv, NEW p \in Procs, NEW k \in {"render", "check"}, Start(p, k) PROVE CleanInv'
<1>1. \A a \in Present : ~(a < 1)
  BY PresentType DEF Agents
<1> QED
  BY <1>1, StartStops DEF CleanInv, Writing

LEMMA StepDrift ==
    ASSUME TypeOK, PlaceInv, CalmInv, DriftInv, NEW p \in Procs, Step(p) \/ Kill(p) PROVE DriftInv'
<1> SUFFICES ASSUME calm'[p], mode'[p] = "check", pc'[p] \in {"next", "done"}, NEW a \in Present, a < at'[p]
             PROVE  a \in drift'[p] <=> CurrentModel(text'[a]) # Target(conf'[p], a)
  BY CalmAlone DEF DriftInv
<1>1. calm[p] /\ mode[p] = "check" /\ Running(p) /\ conf' = conf
  BY CalmAlone, OthersStay
<1>2. pc[p] = "next"
  BY <1>1 DEF Running, PlaceInv, TypeOK, Over, Writing
<1>3. a \in Nat /\ a \in Agents
  BY PresentType DEF Agents
<1>4. a < at[p] => (a \in drift[p] <=> CurrentModel(text[a]) # Target(conf[p], a))
  BY <1>1, <1>2 DEF DriftInv
<1>5. CASE Visit(p)
  <2>1. /\ text' = text /\ at' = [at EXCEPT ![p] = @ + 1] /\ at[p] \in Agents
        /\ drift' = IF at[p] \in Present /\ CurrentModel(text[at[p]]) # Target(conf[p], at[p])
                    THEN [drift EXCEPT ![p] = @ \cup {at[p]}] ELSE drift
    BY <1>1, <1>5 DEF Visit, disk
  <2>2. a < at[p] \/ a = at[p]
    BY <1>3, <2>1 DEF TypeOK, Agents
  <2>3. CASE a < at[p]
    <3>1. a \in drift'[p] <=> a \in drift[p]
      BY <1>3, <2>1, <2>3 DEF TypeOK, Agents
    <3> QED
      BY <1>1, <1>4, <2>1, <2>3, <3>1
  <2>4. CASE a = at[p]
    <3>1. at[p] \notin drift[p]
      BY <2>1 DEF PlaceInv, Agents
    <3> QED
      BY <1>1, <2>1, <2>4, <3>1 DEF TypeOK
  <2> QED
    BY <2>2, <2>3, <2>4
<1>6. CASE Finish(p) \/ Kill(p)
  BY <1>4, <1>6, <1>1 DEF Finish, Kill, disk, local
<1> QED
  BY <1>2, <1>5, <1>6 DEF Step, Open, Write, Replace
LEMMA StartDrift ==
    ASSUME TypeOK, DriftInv, NEW p \in Procs, NEW k \in {"render", "check"}, Start(p, k) PROVE DriftInv'
<1>1. \A a \in Present : ~(a < 1)
  BY PresentType DEF Agents
<1> QED
  BY <1>1, StartStops DEF DriftInv

-----------------------------------------------------------------------------
(* Edits, and all together *)

LEMMA EditKeeps == ASSUME Inv, NEW a \in Agents, NEW t \in EditTexts, Edit(a, t) PROVE Inv'
<1> USE DEF Inv
<1>1. /\ text' = [text EXCEPT ![a] = t] /\ base' = [base EXCEPT ![a] = t]
      /\ raced \subseteq raced' /\ (a \in raced' \/ \A p \in Procs : ~(pc[p] \in Writing /\ at[p] = a))
      /\ UNCHANGED <<config, tmp, pc, local, clash>> /\ \A p \in Procs : ~calm'[p]
  BY DEF Edit
<1>2. TypeOK'
  BY EditTypes
<1>3. PlaceInv' /\ CalmInv' /\ ClashInv' /\ TmpInv'
  BY <1>1 DEF PlaceInv, CalmInv, ClashInv, TmpInv, Running, InTmp, local
<1>4. \A b \in Agents : /\ b = a => text'[b] = t /\ base'[b] = t
                        /\ b # a => text'[b] = text[b] /\ base'[b] = base[b]
  BY <1>1 DEF TypeOK
<1>5. WholeInv'
  <2> SUFFICES ASSUME NEW b \in Agents, b \notin clash', b \notin raced'
               PROVE  /\ Whole(text'[b], base'[b])
                      /\ \A p \in Procs : pc'[p] \in Writing /\ at'[p] = b => Whole(new'[p], base'[b])
    BY DEF WholeInv, Whole
  <2>1. CASE b = a
    BY <1>1, <1>4, <2>1 DEF Whole, local
  <2>2. CASE b # a
    BY <1>1, <1>4, <2>2 DEF WholeInv, local
  <2> QED
    BY <2>1, <2>2
<1>6. SingleInv'
  <2> SUFFICES ASSUME NEW b \in Agents, b \notin raced', ~Doubled(base'[b])
               PROVE  /\ ~Doubled(text'[b])
                      /\ \A p \in Procs : at'[p] = b =>
                             /\ pc'[p] \in Writing => ~Doubled(new'[p])
                             /\ pc'[p] \in {"writing", "replacing"} /\ tmp'[b] # NoTmp => ~Doubled(tmp'[b])
    BY DEF SingleInv, Doubled, InTmp
  <2>1. CASE b = a
    BY <1>1, <1>4, <2>1 DEF Writing, local
  <2>2. CASE b # a
    BY <1>1, <1>4, <2>2 DEF SingleInv, InTmp, local
  <2> QED
    BY <2>1, <2>2
<1>7. CleanInv' /\ DriftInv'
  BY <1>1 DEF CleanInv, DriftInv
<1> QED
  BY <1>2, <1>3, <1>5, <1>6, <1>7

\* The configuration file is looked at in Start only.
LEMMA OtherKeeps == ASSUME Inv, UNCHANGED <<disk, pc, local, history>>, edits' \in Nat, starts' = starts PROVE Inv'
<1> USE DEF Inv, disk, local, history
<1>1. TypeOK'
  BY DEF TypeOK
<1>2. PlaceInv' /\ CalmInv' /\ ClashInv' /\ TmpInv'
  BY DEF PlaceInv, CalmInv, ClashInv, TmpInv, Running, InTmp
<1>3. WholeInv' /\ SingleInv'
  BY DEF WholeInv, SingleInv, Whole, InTmp
<1>4. CleanInv' /\ DriftInv'
  BY DEF CleanInv, DriftInv, Clean
<1> QED
  BY <1>1, <1>2, <1>3, <1>4

LEMMA NextKeeps == Inv /\ [Next]_vars => Inv'
<1> SUFFICES ASSUME Inv, [Next]_vars PROVE Inv'
  OBVIOUS
<1>1. ASSUME NEW p \in Procs, Step(p) \/ Kill(p) PROVE Inv'
  BY <1>1, StepTypes, StepPlace, StepCalm, StepClash, StepTmp, StepWhole, StepSingle, StepClean, StepDrift DEF Inv
<1>2. ASSUME NEW p \in Procs, NEW k \in {"render", "check"}, Start(p, k) PROVE Inv'
  <2>1. CleanInv' /\ DriftInv'
    BY <1>2, StartClean, StartDrift DEF Inv
  <2> QED
    BY <1>2, <2>1, StartTypes, StartPlace, StartCalm, StartClash, StartTmp, StartWhole, StartSingle DEF Inv
<1>3. ASSUME NEW a \in Agents, NEW t \in EditTexts, Edit(a, t) PROVE Inv'
  BY <1>3, EditKeeps
<1>4. ASSUME NEW c \in Configs, Configure(c) PROVE Inv'
  <2>1. edits' \in Nat
    BY <1>4 DEF Configure, Inv, TypeOK
  <2> QED
    BY <1>4, <2>1, OtherKeeps DEF Configure
<1>5. CASE UNCHANGED vars
  <2>1. edits' \in Nat /\ starts' = starts
    BY <1>5 DEF vars, bounds, Inv, TypeOK
  <2> QED
    BY <1>5, <2>1, OtherKeeps DEF vars
<1> QED
  BY <1>1, <1>2, <1>3, <1>4, <1>5 DEF Next, Done

LEMMA Inductive == Spec => []Inv
BY Initially, NextKeeps, PTL DEF Spec

-----------------------------------------------------------------------------
\* The state of renders, checks and files has its type in every reachable state; so a
\* render computes a text of every file it looks at.
THEOREM Typing == Spec => []TypeOK
<1>1. Inv => TypeOK
  BY DEF Inv
<1> QED
  BY <1>1, Inductive, PTL

\* Wherever any number of renders are killed, the agent files keep the frontmatter people
\* gave them but for known models in model lines, except where two renders were in one
\* temporary file or an edit fell between a render's read and its replacement.
THEOREM FilesStayWhole == Spec => []FilesWhole
<1>1. Inv => FilesWhole
  BY DEF Inv, WholeInv, Whole, FilesWhole
<1> QED
  BY <1>1, Inductive, PTL

\* What an undisturbed render leaves shows the models its configuration resolves to, after
\* any history of other renders, kills and edits.
THEOREM RendersClean == Spec => []RenderedIsClean
<1>1. Inv => RenderedIsClean
  <2> SUFFICES ASSUME Inv, NEW p \in Procs, NEW a \in Present,
                      pc[p] = "done", mode[p] = "render", calm[p], text[a].split
               PROVE  LET m == Target(conf[p], a)
                      IN  /\ m # "inherit" => CurrentModel(text[a]) = m
                          /\ m = "inherit" /\ a \notin raced /\ ~Doubled(base[a]) => ~HasKey(text[a].fm, "model")
    BY DEF RenderedIsClean
  <2>1. a < at[p]
    BY PresentType, NAgentsType DEF Inv, PlaceInv, TypeOK, Agents
  <2> QED
    BY <2>1 DEF Inv, CleanInv, Clean
<1> QED
  BY <1>1, Inductive, PTL

\* A calm check reports no file that a render would leave alone, and passes over one
\* that it would change only for a literal "inherit" or another spelling.
THEOREM ChecksPredict == Spec => []CheckPredictsRender
<1>1. Inv => CheckPredictsRender
  <2> SUFFICES ASSUME Inv, NEW p \in Procs, NEW a \in Present,
                      pc[p] = "done", mode[p] = "check", calm[p], text[a].split
               PROVE  LET m == Target(conf[p], a)
                          changes == RenderText(text[a], m) # text[a]
                      IN  /\ a \in drift[p] => changes
                          /\ changes /\ a \notin drift[p] =>
                                 /\ HasKey(text[a].fm, "model")
                                 /\ m = "inherit" \/ ~text[a].fm[First(text[a].fm, "model")].exact
    BY DEF CheckPredictsRender
  <2>1. a < at[p] /\ a \in Agents
    BY PresentType, NAgentsType DEF Inv, PlaceInv, TypeOK, Agents
  <2>2. a \in drift[p] <=> CurrentModel(text[a]) # Target(conf[p], a)
    BY <2>1 DEF Inv, DriftInv
  <2>3. Target(conf[p], a) \in ModelValues /\ text[a] \in Texts
    <3>1. Valid(conf[p])
      BY DEF Inv, PlaceInv
    <3> QED
      BY <2>1, <3>1, TargetType DEF Inv, TypeOK
  <2>4. RenderText(text[a], Target(conf[p], a)) = text[a] => CurrentModel(text[a]) = Target(conf[p], a)
    BY <2>3, RenderChanges
  <2>5. \/ RenderText(text[a], Target(conf[p], a)) = text[a]
        \/ CurrentModel(text[a]) # Target(conf[p], a)
        \/ HasKey(text[a].fm, "model") /\ (Target(conf[p], a) = "inherit" \/ ~Spelt(text[a]))
    BY <2>3, RenderChanges
  <2> QED
    BY <2>2, <2>4, <2>5 DEF Spelt
<1> QED
  BY <1>1, Inductive, PTL

\* Rewriting a text touches no line but the model's, and a second rewrite changes nothing,
\* unless a text with two model lines is to inherit: that one loses a line each time.
THEOREM SurgicalAndIdempotent ==
    \A t \in Texts, m \in ModelValues :
        /\ RenderText(t, m).split = t.split /\ Rest(RenderText(t, m)) = Rest(t)
        /\ m # "inherit" \/ ~Doubled(t) => RenderText(RenderText(t, m), m) = RenderText(t, m)
<1> TAKE t \in Texts, m \in ModelValues
<1> DEFINE u == RenderText(t, m)
<1>1. u \in Texts /\ u.split = t.split /\ Rest(u) = Rest(t)
  BY RenderDoes, RenderKeepsRest
<1>2. ASSUME m # "inherit" \/ ~Doubled(t) PROVE RenderText(u, m) = u
  <2>1. Shows(u, m)
    BY <1>2, RenderShows
  <2> HIDE DEF u
  <2>2. CASE ~u.split
    BY <2>2 DEF RenderText
  <2>3. CASE u.split
    <3>1. CurrentModel(u) = m /\ (HasKey(u.fm, "model") => m # "inherit" /\ Spelt(u))
      BY <1>1, <2>1, <2>3, Absent DEF Shows
    <3> QED
      BY <1>1, <2>3, <3>1, RenderChanges
  <2> QED
    BY <2>2, <2>3
<1> QED
  BY <1>1, <1>2
=============================================================================
