---------------------------- MODULE Doctor_proofs ----------------------------
(***************************************************************************)
(* What the telemetry of a delegated step says of it, for any machines,    *)
(* changes of them and bounds, next to any run of doctor.                  *)
(***************************************************************************)
EXTENDS Doctor, Integers, TLAPS, WellFoundedInduction, NaturalsInduction

\* What the sidecar says at each place, and what the step has done by then.  A gate that
\* was marked, or whose mark went astray; a call whose marks did.
Gated(r) == side.invoked = "" /\ side.exit = "" /\ side.reason = r
Passed == Gated("ok") \/ (side = Unmarked /\ did.strayed)
Stopped == (Gated(side.reason) /\ side.reason # "") \/ (side = Unmarked /\ did.strayed)
Called == side.invoked = "1" /\ side.exit = ""
Marked == side.invoked = "1" /\ side.exit # "" /\ (side.exit = "0" <=> did.answered)

Astray == did.strayed /\ Passed
InCall == IF lost THEN Astray ELSE Called

PlaceInv ==
    /\ at = "created" => ~did.ran /\ ~did.answered /\ side = Unmarked
    /\ at = "gated" => ~did.ran /\ ~did.answered /\ Passed
    /\ at = "announced" => ~did.answered /\ InCall
    /\ at \in {"resolved", "waiting"} => did.ran /\ ~did.answered /\ InCall
    /\ at = "returned" => did.ran /\ call.exit # "" /\ (call.exit = "0" <=> did.answered) /\ InCall
    /\ at = "called" => \/ Stopped /\ ~did.ran /\ ~did.passed
                        \/ Marked /\ did.ran
                        \/ Called /\ did.cut
                        \/ Astray

CallInv == "exit" \in DOMAIN call

StepInv == StepTypeOK /\ CallInv /\ PlaceInv /\ RecordsAreTrue

-----------------------------------------------------------------------------
(* Induction over the lines of a file *)

LEMMA LeastMember == ASSUME NEW S \in SUBSET Nat, S # {} PROVE \E n \in S : \A k \in S : n <= k
<1>1. PICK n \in S : \A y \in S : ~(<<y, n>> \in OpToRel(<, Nat))
  BY NatLessThanWellFounded, WFMin
<1>2. ASSUME NEW y \in S PROVE n <= y
  <2>1. ~(y < n)
    BY <1>1 DEF OpToRel
  <2> QED
    BY <2>1
<1> QED
  BY <1>2

\* S is the set of the numbers of which something is proved.
LEMMA Upto ==
    ASSUME NEW n \in Nat, NEW S, 0 \in S, \A i \in 1 .. n : i - 1 \in S => i \in S
    PROVE  \A i \in 0 .. n : i \in S
<1> DEFINE T == {i \in 0 .. n : i \notin S}
<1> SUFFICES ASSUME T # {} PROVE FALSE
  OBVIOUS
<1>1. PICK i \in T : \A j \in T : i <= j
  <2>1. T \in SUBSET Nat
    OBVIOUS
  <2> HIDE DEF T
  <2> QED
    BY <2>1, LeastMember
<1>2. i \in 1 .. n
  BY <1>1
<1>3. i - 1 \in S
  BY <1>1, <1>2
<1> QED
  BY <1>1, <1>2, <1>3

LEMMA GreatestMember ==
    ASSUME NEW n \in Nat, NEW S \in SUBSET (1 .. n), S # {} PROVE \E i \in S : \A k \in S : k <= i
<1> DEFINE T == {n - i : i \in S}
<1>1. T \in SUBSET Nat /\ T # {}
  <2>1. PICK j \in S : TRUE
    OBVIOUS
  <2>2. n - j \in T
    BY <2>1
  <2>3. ASSUME NEW i \in S PROVE n - i \in Nat
    <3>1. i \in 1 .. n
      OBVIOUS
    <3> QED
      BY <3>1
  <2> QED
    BY <2>2, <2>3
<1>2. PICK d \in T : \A e \in T : d <= e
  <2> HIDE DEF T
  <2> QED
    BY <1>1, LeastMember
<1>3. PICK i \in S : d = n - i
  BY <1>2
<1>4. \A k \in S : n - k \in T
  OBVIOUS
<1>5. \A k \in S : k <= i
  <2> HIDE DEF T
  <2> QED
    BY <1>2, <1>3, <1>4
<1> QED
  BY <1>5

-----------------------------------------------------------------------------
(* What ParseBlock computes *)

Begun == [in |-> "before", first |-> 0, out |-> NoKeys]
ReadUpto(lines, section, known, read) ==
    read = [i \in 0 .. Len(lines) |->
               IF i = 0 THEN Begun ELSE BlockLine(section, known, read[i - 1], lines[i])]

LEMMA ReadExists ==
    ASSUME NEW lines, NEW section, NEW known, Len(lines) \in Nat
    PROVE  \E read : ReadUpto(lines, section, known, read)
<1> DEFINE Step(f, i) == IF i = 0 THEN Begun ELSE BlockLine(section, known, f[i - 1], lines[i])
           D == {k \in Nat : \E f : f = [i \in 0 .. k |-> Step(f, i)]}
<1>1. 0 \in D
  <2> DEFINE g == [i \in 0 .. 0 |-> Begun]
  <2>1. g = [i \in 0 .. 0 |-> Step(g, i)]
    OBVIOUS
  <2> QED
    BY <2>1
<1>2. ASSUME NEW k \in 1 .. Len(lines), k - 1 \in D PROVE k \in D
  <2>1. PICK f : f = [i \in 0 .. k - 1 |-> Step(f, i)]
    BY <1>2
  <2> DEFINE g == [i \in 0 .. k |-> IF i = k THEN Step(f, k) ELSE f[i]]
  <2>2. ASSUME NEW i \in 0 .. k PROVE g[i] = Step(g, i)
    <3>1. CASE i = k
      <4>1. g[k - 1] = f[k - 1] /\ k # 0
        OBVIOUS
      <4>2. g[k] = Step(f, k)
        OBVIOUS
      <4> HIDE DEF g
      <4> QED
        BY <3>1, <4>1, <4>2
    <3>2. CASE i # k
      <4>1. i \in 0 .. k - 1 /\ g[i] = f[i]
        BY <3>2
      <4>2. f[i] = Step(f, i)
        BY <4>1, <2>1
      <4>3. i # 0 => g[i - 1] = f[i - 1]
        BY <4>1
      <4> HIDE DEF g
      <4> QED
        BY <4>1, <4>2, <4>3
    <3> QED
      BY <3>1, <3>2
  <2>3. g = [i \in 0 .. k |-> g[i]]
    OBVIOUS
  <2>4. g = [i \in 0 .. k |-> Step(g, i)]
    <3> HIDE DEF g, Step
    <3> QED
      BY <2>2, <2>3
  <2>5. \E h : h = [i \in 0 .. k |-> Step(h, i)]
    <3> HIDE DEF g, Step
    <3> QED
      BY <2>4
  <2> QED
    BY <2>5
<1>3. Len(lines) \in D
  <2> HIDE DEF D
  <2>1. \A i \in 0 .. Len(lines) : i \in D
    BY <1>1, <1>2, Upto
  <2> QED
    BY <2>1
<1> QED
  BY <1>3 DEF ReadUpto

LEMMA ReadUnfolds ==
    ASSUME NEW lines, NEW section, NEW known, Len(lines) \in Nat
    PROVE  \E read : /\ ParseBlock(lines, section, known) = read[Len(lines)].out
                     /\ read[0] = Begun
                     /\ \A i \in 1 .. Len(lines) : read[i] = BlockLine(section, known, read[i - 1], lines[i])
<1> DEFINE read == CHOOSE f : ReadUpto(lines, section, known, f)
<1>1. ReadUpto(lines, section, known, read)
  BY ReadExists
<1>2. ParseBlock(lines, section, known) = read[Len(lines)].out
  BY DEF ParseBlock, ReadUpto, Begun
<1> HIDE DEF read
<1>3. read[0] = Begun
  BY <1>1 DEF ReadUpto
<1>4. ASSUME NEW i \in 1 .. Len(lines) PROVE read[i] = BlockLine(section, known, read[i - 1], lines[i])
  <2> DEFINE n == Len(lines)
  <2>1. i \in 0 .. n /\ i # 0
    OBVIOUS
  <2> HIDE DEF n
  <2>2. read = [j \in 0 .. n |-> IF j = 0 THEN Begun ELSE BlockLine(section, known, read[j - 1], lines[j])]
    BY <1>1 DEF ReadUpto, n
  <2> QED
    BY <2>1, <2>2
<1> QED
  BY <1>2, <1>3, <1>4

\* Where a section opens, and the lines behind that belong to it.
IsOpener(lines, section, o) ==
    o \in DOMAIN lines /\ Opens(lines[o], section) /\ \A j \in 1 .. o - 1 : ~Opens(lines[j], section)
Inside(lines, o, i) == \A j \in o + 1 .. i : lines[j].ind # 0 /\ lines[o + 1].ind <= lines[j].ind

\* The lines up to i that a reader takes a value from, and what it keeps of lines U.
Taken(lines, section, known, i) ==
    {j \in SectionLines(lines, section) : j <= i /\ lines[j].colon /\ lines[j].key \in known}
Keeps(lines, out, U) ==
    /\ out = [k \in DOMAIN out |-> out[k]] /\ DOMAIN out = {lines[j].key : j \in U}
    /\ \A j \in U : (\A k \in U : lines[k].key = lines[j].key => k <= j)
                    => out[lines[j].key] = StripInline(lines[j])

ReadsSo(lines, section, known, s, i) ==
    /\ DOMAIN s = {"in", "first", "out"} /\ s = [x \in DOMAIN s |-> s[x]]
    /\ \/ s.in = "before" /\ s.first = 0 /\ \A j \in 1 .. i : ~Opens(lines[j], section)
       \/ \E o \in 1 .. i :
              /\ IsOpener(lines, section, o)
              /\ \/ /\ s.in = "inside" /\ Inside(lines, o, i)
                    /\ s.first = IF i = o THEN 0 ELSE lines[o + 1].ind
                 \/ s.in = "after" /\ ~Inside(lines, o, i)
    /\ Keeps(lines, s.out, Taken(lines, section, known, i))

Plain(lines) ==
    Len(lines) \in Nat /\ DOMAIN lines = 1 .. Len(lines) /\ \A i \in DOMAIN lines : lines[i].ind \in Nat

LEMMA PlainFile == ASSUME NEW lines \in Files PROVE Plain(lines)
<1> DEFINE T == [ind : Nat, key : STRING, val : STRING, colon : BOOLEAN, note : BOOLEAN, quoted : BOOLEAN]
<1>1. lines \in Seq(T) /\ \A x \in T : x.ind \in Nat
  BY DEF Files
<1> HIDE DEF T
<1>2. Len(lines) \in Nat /\ DOMAIN lines = 1 .. Len(lines) /\ \A i \in 1 .. Len(lines) : lines[i] \in T
  BY <1>1
<1> QED
  BY <1>1, <1>2 DEF Plain

LEMMA OneOpener ==
    ASSUME NEW lines, Plain(lines), NEW section, NEW o, NEW p, IsOpener(lines, section, o), IsOpener(lines, section, p)
    PROVE  o = p
<1>1. o \in Nat /\ p \in Nat /\ o >= 1 /\ p >= 1
  BY DEF IsOpener, Plain
<1>2. ~(o < p)
  BY <1>1 DEF IsOpener
<1>3. ~(p < o)
  BY <1>1 DEF IsOpener
<1> QED
  BY <1>1, <1>2, <1>3

\* A line belongs to the section or not, by where it opens.
LEMMA MemberLine ==
    ASSUME NEW lines, Plain(lines), NEW section, NEW i \in DOMAIN lines
    PROVE  /\ \A o : IsOpener(lines, section, o)
                     => (i \in SectionLines(lines, section) <=> o < i /\ Inside(lines, o, i))
           /\ (\A j \in 1 .. i - 1 : ~Opens(lines[j], section)) => i \notin SectionLines(lines, section)
<1>1. i \in Nat /\ i >= 1 /\ 1 .. i - 1 \subseteq DOMAIN lines
  BY DEF Plain
<1>2. i \in SectionLines(lines, section)
      <=> \E o \in 1 .. i - 1 : IsOpener(lines, section, o) /\ Inside(lines, o, i)
  BY <1>1 DEF SectionLines, IsOpener, Inside
<1>3. ASSUME NEW o, IsOpener(lines, section, o)
      PROVE i \in SectionLines(lines, section) <=> o < i /\ Inside(lines, o, i)
  <2>1. o \in Nat /\ o >= 1
    BY <1>3 DEF IsOpener, Plain
  <2>2. o \in 1 .. i - 1 <=> o < i
    BY <1>1, <2>1
  <2> QED
    BY <1>2, <1>3, <2>2, OneOpener
<1>4. ASSUME \A j \in 1 .. i - 1 : ~Opens(lines[j], section) PROVE i \notin SectionLines(lines, section)
  BY <1>2, <1>4 DEF IsOpener
<1> QED
  BY <1>3, <1>4

LEMMA TakenSame ==
    ASSUME NEW lines, Plain(lines), NEW section, NEW known, NEW i \in DOMAIN lines,
           ~(i \in SectionLines(lines, section) /\ lines[i].colon /\ lines[i].key \in known)
    PROVE  Taken(lines, section, known, i) = Taken(lines, section, known, i - 1)
<1>1. \A j \in SectionLines(lines, section) : j \in Nat
  BY DEF SectionLines, Plain
<1>2. i \in Nat
  BY DEF Plain
<1>3. \A j \in SectionLines(lines, section) : j # i => (j <= i <=> j <= i - 1)
  BY <1>1, <1>2
<1>4. ~(i <= i - 1)
  BY <1>2
<1> QED
  BY <1>3, <1>4 DEF Taken

LEMMA TakenMore ==
    ASSUME NEW lines, Plain(lines), NEW section, NEW known, NEW i \in DOMAIN lines,
           i \in SectionLines(lines, section), lines[i].colon, lines[i].key \in known
    PROVE  Taken(lines, section, known, i) = Taken(lines, section, known, i - 1) \cup {i}
<1>1. \A j \in SectionLines(lines, section) : j \in Nat
  BY DEF SectionLines, Plain
<1>2. i \in Nat
  BY DEF Plain
<1>3. \A j \in SectionLines(lines, section) : j # i => (j <= i <=> j <= i - 1)
  BY <1>1, <1>2
<1>4. i <= i
  BY <1>2
<1> QED
  BY <1>3, <1>4 DEF Taken

LEMMA KeepsMore ==
    ASSUME NEW lines, NEW U, NEW i \in Nat, \A j \in U : j \in Nat /\ j < i, NEW out, Keeps(lines, out, U)
    PROVE  Keeps(lines, Put(out, lines[i].key, StripInline(lines[i])), U \cup {i})
<1> DEFINE new == Put(out, lines[i].key, StripInline(lines[i]))
<1>1. new = [k \in DOMAIN new |-> new[k]] /\ DOMAIN new = DOMAIN out \cup {lines[i].key}
  BY DEF Put
<1>2. DOMAIN new = {lines[j].key : j \in U \cup {i}}
  BY <1>1 DEF Keeps
<1>3. ASSUME NEW j \in U \cup {i}, \A k \in U \cup {i} : lines[k].key = lines[j].key => k <= j
      PROVE new[lines[j].key] = StripInline(lines[j])
  <2>1. CASE j = i
    BY <2>1 DEF Put
  <2>2. CASE j # i
    <3>1. j \in U /\ ~(i <= j)
      BY <2>2
    <3>2. lines[i].key # lines[j].key
      BY <1>3, <3>1
    <3>3. lines[j].key \in DOMAIN out /\ out[lines[j].key] = StripInline(lines[j])
      BY <1>3, <3>1 DEF Keeps
    <3> QED
      BY <3>2, <3>3 DEF Put
  <2> QED
    BY <2>1, <2>2
<1> HIDE DEF new
<1>4. Keeps(lines, new, U \cup {i})
  BY <1>1, <1>2, <1>3 DEF Keeps
<1> QED
  BY <1>4 DEF new

LEMMA ReadsFirst == ASSUME NEW lines, Plain(lines), NEW section, NEW known PROVE ReadsSo(lines, section, known, Begun, 0)
<1>1. Taken(lines, section, known, 0) = {}
  <2>1. \A j \in SectionLines(lines, section) : j \in Nat /\ j >= 1
    BY DEF SectionLines, Plain
  <2>2. \A j \in SectionLines(lines, section) : ~(j <= 0)
    BY <2>1
  <2> QED
    BY <2>2 DEF Taken
<1>2. Keeps(lines, NoKeys, {})
  BY DEF Keeps, NoKeys
<1>3. \A j \in 1 .. 0 : FALSE
  OBVIOUS
<1> QED
  BY <1>1, <1>2, <1>3 DEF ReadsSo, Begun

\* One more line, by what the reader was in.
LEMMA ReadsOn ==
    ASSUME NEW lines, Plain(lines), NEW section, NEW known, NEW i \in DOMAIN lines, NEW s,
           ReadsSo(lines, section, known, s, i - 1)
    PROVE  ReadsSo(lines, section, known, BlockLine(section, known, s, lines[i]), i)
<1> DEFINE new == BlockLine(section, known, s, lines[i])
<1>1. i \in Nat /\ i >= 1 /\ i - 1 \in Nat /\ lines[i].ind \in Nat
  BY DEF Plain
<1>2. CASE s.in = "before" /\ ~Opens(lines[i], section)
  <2>1. new = s
    BY <1>2 DEF BlockLine
  <2>2. s.first = 0 /\ \A j \in 1 .. i - 1 : ~Opens(lines[j], section)
    BY <1>2 DEF ReadsSo
  <2>3. \A j \in 1 .. i : ~Opens(lines[j], section)
    <3>1. \A j \in 1 .. i : j = i \/ j \in 1 .. i - 1
      BY <1>1
    <3> QED
      BY <1>2, <2>2, <3>1
  <2>4. Taken(lines, section, known, i) = Taken(lines, section, known, i - 1)
    BY <2>2, MemberLine, TakenSame
  <2> QED
    BY <1>2, <2>1, <2>2, <2>3, <2>4 DEF ReadsSo
<1>3. CASE s.in = "before" /\ Opens(lines[i], section)
  <2>1. s.first = 0 /\ \A j \in 1 .. i - 1 : ~Opens(lines[j], section)
    BY <1>3 DEF ReadsSo
  <2>2. new = [s EXCEPT !.in = "inside"]
    BY <1>3 DEF BlockLine
  <2>3. /\ DOMAIN new = {"in", "first", "out"} /\ new = [x \in DOMAIN new |-> new[x]]
        /\ new.in = "inside" /\ new.first = 0 /\ new.out = s.out
    BY <2>1, <2>2 DEF ReadsSo
  <2>4. IsOpener(lines, section, i) /\ i \in 1 .. i
    BY <1>1, <1>3, <2>1 DEF IsOpener
  <2>5. Inside(lines, i, i)
    <3>1. \A j \in i + 1 .. i : FALSE
      BY <1>1
    <3> QED
      BY <3>1 DEF Inside
  <2>6. Taken(lines, section, known, i) = Taken(lines, section, known, i - 1)
    BY <2>1, MemberLine, TakenSame
  <2>7. Keeps(lines, new.out, Taken(lines, section, known, i))
    BY <2>3, <2>6 DEF ReadsSo
  <2> HIDE DEF new
  <2>8. ReadsSo(lines, section, known, new, i)
    BY <2>3, <2>4, <2>5, <2>7 DEF ReadsSo
  <2> QED
    BY <2>8 DEF new
<1>4. ASSUME NEW o \in 1 .. i - 1, IsOpener(lines, section, o), s.in = "after", ~Inside(lines, o, i - 1)
      PROVE ReadsSo(lines, section, known, new, i)
  <2>1. new = s
    BY <1>4 DEF BlockLine
  <2>2. ~Inside(lines, o, i)
    <3>1. \A j \in o + 1 .. i - 1 : j \in o + 1 .. i
      BY <1>1
    <3> QED
      BY <1>4, <3>1 DEF Inside
  <2>3. Taken(lines, section, known, i) = Taken(lines, section, known, i - 1)
    BY <1>4, <2>2, MemberLine, TakenSame
  <2>4. o \in 1 .. i
    BY <1>1
  <2> QED
    BY <1>4, <2>1, <2>2, <2>3, <2>4 DEF ReadsSo
<1>5. ASSUME NEW o \in 1 .. i - 1, IsOpener(lines, section, o), s.in = "inside", Inside(lines, o, i - 1),
             s.first = IF i - 1 = o THEN 0 ELSE lines[o + 1].ind
      PROVE ReadsSo(lines, section, known, new, i)
  <2>1. o \in 1 .. i /\ o < i /\ o \in Nat /\ o + 1 \in DOMAIN lines /\ i \in o + 1 .. i
    BY <1>1 DEF Plain
  <2>2. lines[o + 1].ind \in Nat
    BY <2>1 DEF Plain
  <2>3. CASE lines[i].ind = 0 \/ lines[i].ind < s.first
    <3>1. new = [s EXCEPT !.in = "after"]
      BY <1>5, <2>3 DEF BlockLine
    <3>2. /\ DOMAIN new = {"in", "first", "out"} /\ new = [x \in DOMAIN new |-> new[x]]
          /\ new.in = "after" /\ new.out = s.out
      BY <3>1 DEF ReadsSo
    <3>3. ~Inside(lines, o, i)
      <4>1. lines[i].ind = 0 \/ ~(lines[o + 1].ind <= lines[i].ind)
        <5>1. CASE i - 1 = o
          BY <1>1, <1>5, <2>3, <5>1
        <5>2. CASE i - 1 # o
          BY <1>1, <1>5, <2>2, <2>3, <5>2
        <5> QED
          BY <5>1, <5>2
      <4> QED
        BY <2>1, <4>1 DEF Inside
    <3>4. Taken(lines, section, known, i) = Taken(lines, section, known, i - 1)
      BY <1>5, <3>3, MemberLine, TakenSame
    <3>5. Keeps(lines, new.out, Taken(lines, section, known, i))
      BY <3>2, <3>4 DEF ReadsSo
    <3> HIDE DEF new
    <3>6. ReadsSo(lines, section, known, new, i)
      BY <1>5, <2>1, <3>2, <3>3, <3>5 DEF ReadsSo
    <3> QED
      BY <3>6 DEF new
  <2>4. CASE ~(lines[i].ind = 0 \/ lines[i].ind < s.first)
    <3> DEFINE take == lines[i].colon /\ lines[i].key \in known
    <3>1. new = [s EXCEPT !.first = IF @ = 0 THEN lines[i].ind ELSE @,
                          !.out = IF take THEN Put(@, lines[i].key, StripInline(lines[i])) ELSE @]
      BY <1>5, <2>4 DEF BlockLine
    <3>2. /\ DOMAIN new = {"in", "first", "out"} /\ new = [x \in DOMAIN new |-> new[x]]
          /\ new.in = "inside" /\ new.first = (IF s.first = 0 THEN lines[i].ind ELSE s.first)
          /\ new.out = (IF take THEN Put(s.out, lines[i].key, StripInline(lines[i])) ELSE s.out)
      BY <1>5, <3>1 DEF ReadsSo
    <3>3. lines[i].ind # 0 /\ lines[o + 1].ind <= lines[i].ind /\ new.first = lines[o + 1].ind
      <4>1. CASE i - 1 = o
        <5>1. o + 1 = i
          BY <1>1, <2>1, <4>1
        <5> QED
          BY <1>1, <1>5, <2>4, <3>2, <4>1, <5>1
      <4>2. CASE i - 1 # o
        <5>1. o + 1 \in o + 1 .. i - 1
          BY <1>1, <2>1, <4>2
        <5>2. lines[o + 1].ind # 0
          BY <1>5, <5>1 DEF Inside
        <5> QED
          BY <1>1, <1>5, <2>2, <2>4, <3>2, <4>2, <5>2
      <4> QED
        BY <4>1, <4>2
    <3>4. Inside(lines, o, i)
      <4>1. \A j \in o + 1 .. i : j = i \/ j \in o + 1 .. i - 1
        BY <1>1, <2>1
      <4> QED
        BY <1>5, <3>3, <4>1 DEF Inside
    <3>5. i \in SectionLines(lines, section)
      BY <1>5, <2>1, <3>4, MemberLine
    <3>6. Keeps(lines, s.out, Taken(lines, section, known, i - 1))
      BY DEF ReadsSo
    <3>7. Keeps(lines, new.out, Taken(lines, section, known, i))
      <4>1. CASE take
        <5>1. \A j \in Taken(lines, section, known, i - 1) : j \in Nat /\ j < i
          BY <1>1 DEF Taken, SectionLines, Plain
        <5>2. Taken(lines, section, known, i) = Taken(lines, section, known, i - 1) \cup {i}
          BY <3>5, <4>1, TakenMore
        <5>3. new.out = Put(s.out, lines[i].key, StripInline(lines[i]))
          BY <3>2, <4>1
        <5>4. Keeps(lines, Put(s.out, lines[i].key, StripInline(lines[i])), Taken(lines, section, known, i - 1) \cup {i})
          <6> DEFINE U == Taken(lines, section, known, i - 1)
          <6>1. Keeps(lines, s.out, U) /\ i \in Nat /\ \A j \in U : j \in Nat /\ j < i
            BY <1>1, <3>6, <5>1
          <6> SUFFICES Keeps(lines, Put(s.out, lines[i].key, StripInline(lines[i])), U \cup {i})
            OBVIOUS
          <6> HIDE DEF U
          <6> QED
            BY <6>1, KeepsMore
        <5> HIDE DEF new
        <5> QED
          BY <5>2, <5>3, <5>4
      <4>2. CASE ~take
        BY <3>2, <3>6, <4>2, TakenSame
      <4> QED
        BY <4>1, <4>2
    <3>8. i # o
      BY <1>1, <2>1
    <3> HIDE DEF new
    <3>9. ReadsSo(lines, section, known, new, i)
      BY <1>5, <2>1, <3>2, <3>3, <3>4, <3>7, <3>8 DEF ReadsSo
    <3> QED
      BY <3>9 DEF new
  <2> QED
    BY <2>3, <2>4
<1>6. \/ s.in = "before"
      \/ \E o \in 1 .. i - 1 :
             /\ IsOpener(lines, section, o)
             /\ \/ s.in = "inside" /\ Inside(lines, o, i - 1) /\ s.first = IF i - 1 = o THEN 0 ELSE lines[o + 1].ind
                \/ s.in = "after" /\ ~Inside(lines, o, i - 1)
  BY DEF ReadsSo
<1> HIDE DEF new
<1>7. ReadsSo(lines, section, known, new, i)
  BY <1>2, <1>3, <1>4, <1>5, <1>6 DEF new
<1> QED
  BY <1>7 DEF new

\* The reader of one section keeps of each key it knows the value that the section gives
\* it last (parse_delegate_config, parse_forge_config), whatever the file.
THEOREM BlocksAreRead == ASSUME NEW lines \in Files, NEW section, NEW known PROVE BlockIsRead(lines, section, known)
<1> DEFINE n == Len(lines)
           I == {i \in SectionLines(lines, section) : lines[i].colon}
           U == Taken(lines, section, known, n)
           out == ParseBlock(lines, section, known)
<1>1. Plain(lines)
  BY PlainFile
<1>2. n \in Nat /\ DOMAIN lines = 1 .. n
  BY <1>1 DEF Plain
<1>3. Keeps(lines, out, U)
  <2>1. PICK read : /\ out = read[n].out
                    /\ read[0] = Begun
                    /\ \A i \in 1 .. n : read[i] = BlockLine(section, known, read[i - 1], lines[i])
    BY <1>2, ReadUnfolds
  <2> DEFINE S == {i \in 0 .. n : ReadsSo(lines, section, known, read[i], i)}
  <2>2. 0 \in S
    BY <1>1, <1>2, <2>1, ReadsFirst
  <2>3. ASSUME NEW i \in 1 .. n, i - 1 \in S PROVE i \in S
    <3>1. ReadsSo(lines, section, known, read[i - 1], i - 1)
      BY <2>3
    <3>2. ReadsSo(lines, section, known, BlockLine(section, known, read[i - 1], lines[i]), i)
      BY <1>1, <1>2, <3>1, ReadsOn
    <3>3. i \in 0 .. n
      BY <1>2
    <3> QED
      BY <2>1, <3>2, <3>3
  <2>4. n \in S
    <3>1. n \in 0 .. n
      BY <1>2
    <3> HIDE DEF S, n
    <3> QED
      BY <1>2, <2>2, <2>3, <3>1, Upto
  <2> QED
    BY <2>1, <2>4 DEF ReadsSo
<1>4. I \subseteq 1 .. n /\ U = {i \in I : lines[i].key \in known}
  BY <1>2 DEF Taken, SectionLines
<1>5. SectionSays(lines, section) = LastOf(lines, I)
  BY DEF SectionSays
<1> HIDE DEF n, I, U, out
<1>6. ASSUME NEW k \in {lines[i].key : i \in I}, k \in known PROVE k \in DOMAIN out /\ LastOf(lines, I)[k] = out[k]
  <2> DEFINE Ends(i) == lines[i].key = k /\ \A j \in I : lines[j].key = k => j <= i
             J == {i \in I : lines[i].key = k}
             c == CHOOSE i \in I : Ends(i)
  <2>1. J # {} /\ J \in SUBSET (1 .. n)
    BY <1>4
  <2>2. PICK i \in J : \A j \in J : j <= i
    <3> HIDE DEF J
    <3> QED
      BY <1>2, <2>1, GreatestMember
  <2>3. i \in I /\ Ends(i)
    BY <2>2
  <2>4. c \in I /\ Ends(c)
    <3> HIDE DEF Ends
    <3> QED
      BY <2>3
  <2>5. LastOf(lines, I)[k] = StripInline(lines[c])
    BY DEF LastOf
  <2> HIDE DEF c
  <2>6. c \in U /\ lines[c].key = k /\ \A j \in U : lines[j].key = lines[c].key => j <= c
    BY <1>4, <1>6, <2>4
  <2> QED
    BY <1>3, <2>5, <2>6 DEF Keeps
<1>7. DOMAIN LastOf(lines, I) = {lines[i].key : i \in I}
  BY DEF LastOf
<1>8. DOMAIN out = known \cap DOMAIN LastOf(lines, I)
  BY <1>3, <1>4, <1>7 DEF Keeps
<1>9. out = [k \in known \cap DOMAIN LastOf(lines, I) |-> LastOf(lines, I)[k]]
  <2>1. out = [k \in DOMAIN out |-> out[k]]
    BY <1>3 DEF Keeps
  <2> QED
    BY <1>6, <1>7, <1>8, <2>1
<1> QED
  BY <1>5, <1>9 DEF BlockIsRead, out

-----------------------------------------------------------------------------
(* What ParseAgents computes *)

NotBegun == [in |-> "before", sub |-> "", first |-> 0, out |-> [x \in SubMaps |-> NoKeys]]
AgentsUpto(lines, read) ==
    read = [i \in 0 .. Len(lines) |-> IF i = 0 THEN NotBegun ELSE AgentsLine(read[i - 1], lines[i])]

LEMMA AgentsExist == ASSUME NEW lines, Len(lines) \in Nat PROVE \E read : AgentsUpto(lines, read)
<1> DEFINE Turn(f, i) == IF i = 0 THEN NotBegun ELSE AgentsLine(f[i - 1], lines[i])
           D == {k \in Nat : \E f : f = [i \in 0 .. k |-> Turn(f, i)]}
<1>1. 0 \in D
  <2> DEFINE g == [i \in 0 .. 0 |-> NotBegun]
  <2>1. g = [i \in 0 .. 0 |-> Turn(g, i)]
    OBVIOUS
  <2> QED
    BY <2>1
<1>2. ASSUME NEW k \in 1 .. Len(lines), k - 1 \in D PROVE k \in D
  <2>1. PICK f : f = [i \in 0 .. k - 1 |-> Turn(f, i)]
    BY <1>2
  <2> DEFINE g == [i \in 0 .. k |-> IF i = k THEN Turn(f, k) ELSE f[i]]
  <2>2. ASSUME NEW i \in 0 .. k PROVE g[i] = Turn(g, i)
    <3>1. CASE i = k
      <4>1. g[k - 1] = f[k - 1] /\ k # 0
        OBVIOUS
      <4>2. g[k] = Turn(f, k)
        OBVIOUS
      <4> HIDE DEF g
      <4> QED
        BY <3>1, <4>1, <4>2
    <3>2. CASE i # k
      <4>1. i \in 0 .. k - 1 /\ g[i] = f[i]
        BY <3>2
      <4>2. f[i] = Turn(f, i)
        BY <4>1, <2>1
      <4>3. i # 0 => g[i - 1] = f[i - 1]
        BY <4>1
      <4> HIDE DEF g
      <4> QED
        BY <4>1, <4>2, <4>3
    <3> QED
      BY <3>1, <3>2
  <2>3. g = [i \in 0 .. k |-> g[i]]
    OBVIOUS
  <2>4. g = [i \in 0 .. k |-> Turn(g, i)]
    <3> HIDE DEF g, Turn
    <3> QED
      BY <2>2, <2>3
  <2>5. \E h : h = [i \in 0 .. k |-> Turn(h, i)]
    <3> HIDE DEF g, Turn
    <3> QED
      BY <2>4
  <2> QED
    BY <2>5
<1>3. Len(lines) \in D
  <2> HIDE DEF D
  <2>1. \A i \in 0 .. Len(lines) : i \in D
    BY <1>1, <1>2, Upto
  <2> QED
    BY <2>1
<1> QED
  BY <1>3 DEF AgentsUpto

LEMMA AgentsUnfold ==
    ASSUME NEW lines, Len(lines) \in Nat
    PROVE  \E read : /\ ParseAgents(lines) = read[Len(lines)].out
                     /\ read[0] = NotBegun
                     /\ \A i \in 1 .. Len(lines) : read[i] = AgentsLine(read[i - 1], lines[i])
<1> DEFINE read == CHOOSE f : AgentsUpto(lines, f)
<1>1. AgentsUpto(lines, read)
  BY AgentsExist
<1>2. ParseAgents(lines) = read[Len(lines)].out
  BY DEF ParseAgents, AgentsUpto, NotBegun
<1> HIDE DEF read
<1>3. read[0] = NotBegun
  BY <1>1 DEF AgentsUpto
<1>4. ASSUME NEW i \in 1 .. Len(lines) PROVE read[i] = AgentsLine(read[i - 1], lines[i])
  <2> DEFINE n == Len(lines)
  <2>1. i \in 0 .. n /\ i # 0
    OBVIOUS
  <2> HIDE DEF n
  <2>2. read = [j \in 0 .. n |-> IF j = 0 THEN NotBegun ELSE AgentsLine(read[j - 1], lines[j])]
    BY <1>1 DEF AgentsUpto, n
  <2> QED
    BY <2>1, <2>2
<1> QED
  BY <1>2, <1>3, <1>4

\* The sets of lines in AgentsAreRead.
Body(lines) == Within(lines, "agents")
Heads(lines) == {i \in Body(lines) : lines[i].key \in SubMaps /\ Valueless(lines[i])}
KeyLines(lines) == {i \in Body(lines) \ Heads(lines) : lines[i].colon}
Under(lines, h) == {i \in KeyLines(lines) : h < i /\ \A g \in Heads(lines) : g <= h \/ i < g}
Level(lines, h) ==
    {i \in Under(lines, h) : \A j, f \in Under(lines, h) :
         (\A g \in Under(lines, h) : f <= g) /\ j <= i => lines[j].ind >= lines[f].ind}
OfMap(lines, x) == UNION {Level(lines, h) : h \in {g \in Heads(lines) : lines[g].key = x}}
OfTo(lines, x, i) == {j \in OfMap(lines, x) : j <= i}

Unbroken(lines, o, i) == \A j \in o + 1 .. i : lines[j].ind # 0
LastHead(lines, h, i) == h \in Heads(lines) /\ h <= i /\ \A g \in Heads(lines) : g <= i => g <= h
FirstUnder(lines, h, f, i) == f \in Under(lines, h) /\ f <= i /\ \A g \in Under(lines, h) : f <= g

\* Which sub-map the reader is in after i lines, and at what indentation: none yet, one
\* without a key, one with keys, one that a key to the left has ended.
SubState(lines, sub, first, i) ==
    \/ sub = "" /\ \A g \in Heads(lines) : ~(g <= i)
    \/ \E h : /\ LastHead(lines, h, i) /\ sub = lines[h].key /\ first = 0
              /\ \A j \in Under(lines, h) : ~(j <= i)
    \/ \E h, f : /\ LastHead(lines, h, i) /\ sub = lines[h].key
                 /\ FirstUnder(lines, h, f, i) /\ first = lines[f].ind
                 /\ \A j \in Under(lines, h) : j <= i => lines[j].ind >= lines[f].ind
    \/ \E h, f, j : /\ LastHead(lines, h, i) /\ sub = ""
                    /\ FirstUnder(lines, h, f, i)
                    /\ j \in Under(lines, h) /\ j <= i /\ lines[j].ind < lines[f].ind

ReadsAgents(lines, s, i) ==
    /\ DOMAIN s = {"in", "sub", "first", "out"} /\ s = [x \in DOMAIN s |-> s[x]]
    /\ s.out = [x \in SubMaps |-> s.out[x]]
    /\ \/ s.in = "before" /\ s.sub = "" /\ s.first = 0 /\ \A j \in 1 .. i : ~Opens(lines[j], "agents")
       \/ \E o \in 1 .. i :
              /\ IsOpener(lines, "agents", o)
              /\ \/ s.in = "inside" /\ Unbroken(lines, o, i) /\ SubState(lines, s.sub, s.first, i)
                 \/ s.in = "after" /\ ~Unbroken(lines, o, i)
    /\ \A x \in SubMaps : Keeps(lines, s.out[x], OfTo(lines, x, i))

LEMMA BodyLine ==
    ASSUME NEW lines, Plain(lines), NEW i \in DOMAIN lines
    PROVE  /\ \A o : IsOpener(lines, "agents", o) => (i \in Body(lines) <=> o < i /\ Unbroken(lines, o, i))
           /\ (\A j \in 1 .. i - 1 : ~Opens(lines[j], "agents")) => i \notin Body(lines)
<1>1. i \in Nat /\ i >= 1 /\ 1 .. i - 1 \subseteq DOMAIN lines
  BY DEF Plain
<1>2. i \in Body(lines) <=> \E o \in 1 .. i - 1 : IsOpener(lines, "agents", o) /\ Unbroken(lines, o, i)
  BY <1>1 DEF Body, Within, IsOpener, Unbroken
<1>3. ASSUME NEW o, IsOpener(lines, "agents", o) PROVE i \in Body(lines) <=> o < i /\ Unbroken(lines, o, i)
  <2>1. o \in Nat /\ o >= 1
    BY <1>3 DEF IsOpener, Plain
  <2>2. o \in 1 .. i - 1 <=> o < i
    BY <1>1, <2>1
  <2> QED
    BY <1>2, <1>3, <2>2, OneOpener
<1>4. ASSUME \A j \in 1 .. i - 1 : ~Opens(lines[j], "agents") PROVE i \notin Body(lines)
  BY <1>2, <1>4 DEF IsOpener
<1> QED
  BY <1>3, <1>4

LEMMA BodyType ==
    ASSUME NEW lines, Plain(lines), NEW i \in Body(lines)
    PROVE  i \in Nat /\ i >= 1 /\ i \in DOMAIN lines /\ lines[i].ind \in Nat /\ lines[i].ind # 0
<1>1. i \in DOMAIN lines /\ i \in Nat /\ i >= 1 /\ lines[i].ind \in Nat
  BY DEF Body, Within, Plain
<1>2. PICK o \in 1 .. i - 1 : \A j \in o + 1 .. i : lines[j].ind # 0
  BY DEF Body, Within
<1>3. i \in o + 1 .. i
  BY <1>1
<1> QED
  BY <1>1, <1>2, <1>3

LEMMA SetTypes ==
    ASSUME NEW lines, Plain(lines)
    PROVE  /\ Heads(lines) \subseteq Body(lines) /\ KeyLines(lines) \subseteq Body(lines)
           /\ \A i \in Heads(lines) : i \in Nat /\ lines[i].key \in SubMaps
           /\ \A h : \A i \in Under(lines, h) : i \in KeyLines(lines) /\ i \in Nat /\ lines[i].ind \in Nat /\ lines[i].ind # 0
           /\ \A x : \A i \in OfMap(lines, x) : i \in KeyLines(lines) /\ i \in Nat
<1>1. Heads(lines) \subseteq Body(lines) /\ KeyLines(lines) \subseteq Body(lines)
  BY DEF Heads, KeyLines
<1>2. \A i \in Heads(lines) : i \in Nat /\ lines[i].key \in SubMaps
  BY <1>1, BodyType DEF Heads
<1>3. \A i \in KeyLines(lines) : i \in Nat /\ lines[i].ind \in Nat /\ lines[i].ind # 0
  BY <1>1, BodyType
<1>4. \A h : Under(lines, h) \subseteq KeyLines(lines)
  BY DEF Under
<1>5. \A x : OfMap(lines, x) \subseteq KeyLines(lines)
  BY <1>4 DEF OfMap, Level
<1> QED
  BY <1>1, <1>2, <1>3, <1>4, <1>5

\* A line that no sub-map takes changes nothing of what they keep.
LEMMA OfSame ==
    ASSUME NEW lines, Plain(lines), NEW i \in DOMAIN lines, NEW x, i \notin OfMap(lines, x)
    PROVE  OfTo(lines, x, i) = OfTo(lines, x, i - 1)
<1>1. i \in Nat /\ \A j \in OfMap(lines, x) : j \in Nat /\ j # i
  BY SetTypes DEF Plain
<1>2. \A j \in OfMap(lines, x) : j <= i <=> j <= i - 1
  BY <1>1
<1> QED
  BY <1>2 DEF OfTo

LEMMA OfMore ==
    ASSUME NEW lines, Plain(lines), NEW i \in DOMAIN lines, NEW x, i \in OfMap(lines, x)
    PROVE  OfTo(lines, x, i) = OfTo(lines, x, i - 1) \cup {i}
<1>1. i \in Nat /\ \A j \in OfMap(lines, x) : j \in Nat
  BY SetTypes DEF Plain
<1>2. \A j \in OfMap(lines, x) : j # i => (j <= i <=> j <= i - 1)
  BY <1>1
<1>3. i <= i
  BY <1>1
<1> QED
  BY <1>2, <1>3 DEF OfTo

\* A key stands under the last header before it and under no other.
LEMMA UnderLast ==
    ASSUME NEW lines, Plain(lines), NEW i \in KeyLines(lines), NEW h, LastHead(lines, h, i - 1)
    PROVE  /\ i \in Under(lines, h)
           /\ \A g \in Heads(lines) : i \in Under(lines, g) => g = h
           /\ \A x : i \in OfMap(lines, x) <=> i \in Level(lines, h) /\ x = lines[h].key
<1>1. i \in Nat /\ h \in Nat /\ h <= i - 1 /\ h \in Heads(lines)
  BY SetTypes, BodyType DEF LastHead
<1>2. \A g \in Heads(lines) : g \in Nat /\ (g <= h \/ i - 1 < g)
  BY <1>1, SetTypes DEF LastHead
<1>3. \A g \in Heads(lines) : g # i
  BY DEF KeyLines
<1>4. \A g \in Heads(lines) : g <= h \/ i < g
  BY <1>1, <1>2, <1>3
<1>5. i \in Under(lines, h)
  BY <1>1, <1>4 DEF Under
<1>6. ASSUME NEW g \in Heads(lines), i \in Under(lines, g) PROVE g = h
  <2>1. g < i /\ (h <= g \/ i < h)
    BY <1>1, <1>6 DEF Under
  <2> QED
    BY <1>1, <1>2, <2>1
<1>7. ASSUME NEW x PROVE i \in OfMap(lines, x) <=> i \in Level(lines, h) /\ x = lines[h].key
  <2>1. \A g : i \in Level(lines, g) => i \in Under(lines, g)
    BY DEF Level
  <2> QED
    BY <1>1, <1>6, <2>1 DEF OfMap
<1> QED
  BY <1>5, <1>6, <1>7

\* Lines that are neither a header nor a key leave the reader where it is.
LEMMA SubStays ==
    ASSUME NEW lines, Plain(lines), NEW i \in DOMAIN lines, i \notin Heads(lines), i \notin KeyLines(lines),
           NEW sub, NEW first, SubState(lines, sub, first, i - 1)
    PROVE  SubState(lines, sub, first, i)
<1>1. i \in Nat
  BY DEF Plain
<1>2. \A g \in Heads(lines) : g <= i <=> g <= i - 1
  BY <1>1, SetTypes
<1>3. \A h : \A g \in Under(lines, h) : g <= i <=> g <= i - 1
  BY <1>1, SetTypes
<1>4. \A h : LastHead(lines, h, i - 1) => LastHead(lines, h, i)
  BY <1>2 DEF LastHead
<1>5. \A h, f : FirstUnder(lines, h, f, i - 1) => FirstUnder(lines, h, f, i)
  BY <1>3 DEF FirstUnder
<1>6. CASE sub = "" /\ \A g \in Heads(lines) : ~(g <= i - 1)
  BY <1>2, <1>6 DEF SubState
<1>7. ASSUME NEW h, LastHead(lines, h, i - 1), sub = lines[h].key, first = 0,
             \A j \in Under(lines, h) : ~(j <= i - 1)
      PROVE SubState(lines, sub, first, i)
  BY <1>3, <1>4, <1>7 DEF SubState
<1>8. ASSUME NEW h, NEW f, LastHead(lines, h, i - 1), sub = lines[h].key,
             FirstUnder(lines, h, f, i - 1), first = lines[f].ind,
             \A j \in Under(lines, h) : j <= i - 1 => lines[j].ind >= lines[f].ind
      PROVE SubState(lines, sub, first, i)
  BY <1>3, <1>4, <1>5, <1>8 DEF SubState
<1>9. ASSUME NEW h, NEW f, NEW j, LastHead(lines, h, i - 1), sub = "", FirstUnder(lines, h, f, i - 1),
             j \in Under(lines, h), j <= i - 1, lines[j].ind < lines[f].ind
      PROVE SubState(lines, sub, first, i)
  BY <1>3, <1>4, <1>5, <1>9 DEF SubState
<1> QED
  BY <1>6, <1>7, <1>8, <1>9 DEF SubState

\* A key behind a sub-map that has ended is not taken, and one to the left ends it.
LEMMA KeyLost ==
    ASSUME NEW lines, Plain(lines), NEW i \in KeyLines(lines), NEW h, NEW f, NEW j,
           LastHead(lines, h, i - 1), FirstUnder(lines, h, f, i - 1),
           j \in Under(lines, h), j <= i, lines[j].ind < lines[f].ind
    PROVE  (\A x : i \notin OfMap(lines, x)) /\ SubState(lines, "", lines[f].ind, i) /\ SubState(lines, "", 0, i)
<1>1. i \in Nat /\ i \notin Heads(lines)
  BY SetTypes, BodyType DEF KeyLines
<1>2. LastHead(lines, h, i)
  BY <1>1, SetTypes DEF LastHead
<1>3. FirstUnder(lines, h, f, i)
  BY <1>1, SetTypes DEF FirstUnder
<1>4. lines[j].ind \in Nat /\ lines[f].ind \in Nat
  BY SetTypes DEF FirstUnder
<1>5. i \notin Level(lines, h)
  BY <1>4 DEF Level, FirstUnder
<1> QED
  BY <1>2, <1>3, <1>5, UnderLast DEF SubState

\* A key no further left than the first of its sub-map is taken.
LEMMA KeyTaken ==
    ASSUME NEW lines, Plain(lines), NEW i \in KeyLines(lines), NEW h, NEW f, LastHead(lines, h, i - 1),
           FirstUnder(lines, h, f, i), \A j \in Under(lines, h) : j <= i => lines[j].ind >= lines[f].ind
    PROVE  /\ \A x : i \in OfMap(lines, x) <=> x = lines[h].key
           /\ SubState(lines, lines[h].key, lines[f].ind, i)
<1>1. i \in Nat /\ i \notin Heads(lines)
  BY SetTypes, BodyType DEF KeyLines
<1>2. LastHead(lines, h, i)
  BY <1>1, SetTypes DEF LastHead
<1>3. i \in Under(lines, h)
  BY UnderLast
<1>4. ASSUME NEW j \in Under(lines, h), NEW e \in Under(lines, h), \A g \in Under(lines, h) : e <= g, j <= i
      PROVE lines[j].ind >= lines[e].ind
  <2>1. e = f
    <3>1. e <= f /\ f <= e /\ e \in Nat /\ f \in Nat
      BY <1>4, SetTypes DEF FirstUnder
    <3> QED
      BY <3>1
  <2> QED
    BY <1>4, <2>1
<1>5. i \in Level(lines, h)
  BY <1>3, <1>4 DEF Level
<1> QED
  BY <1>2, <1>5, UnderLast DEF SubState

\* What a sub-map keeps when the line i is not taken, and when it is.
LEMMA KeepsSame ==
    ASSUME NEW lines, Plain(lines), NEW i \in DOMAIN lines, NEW out, \A x \in SubMaps : i \notin OfMap(lines, x),
           \A x \in SubMaps : Keeps(lines, out[x], OfTo(lines, x, i - 1))
    PROVE  \A x \in SubMaps : Keeps(lines, out[x], OfTo(lines, x, i))
BY OfSame

LEMMA KeepsTaken ==
    ASSUME NEW lines, Plain(lines), NEW i \in DOMAIN lines, NEW out, NEW x \in SubMaps, i \in OfMap(lines, x),
           Keeps(lines, out, OfTo(lines, x, i - 1))
    PROVE  Keeps(lines, Put(out, lines[i].key, StripInline(lines[i])), OfTo(lines, x, i))
<1> DEFINE U == OfTo(lines, x, i - 1)
<1>1. i \in Nat /\ \A j \in U : j \in Nat /\ j < i
  BY SetTypes DEF OfTo, Plain
<1>2. OfTo(lines, x, i) = U \cup {i}
  BY OfMore
<1>3. Keeps(lines, out, U)
  OBVIOUS
<1> HIDE DEF U
<1>4. Keeps(lines, Put(out, lines[i].key, StripInline(lines[i])), U \cup {i})
  BY <1>1, <1>3, KeepsMore
<1> QED
  BY <1>2, <1>4

LEMMA AgentsBegin == ASSUME NEW lines, Plain(lines) PROVE ReadsAgents(lines, NotBegun, 0)
<1>1. \A x : OfTo(lines, x, 0) = {}
  <2>1. \A x : \A j \in OfMap(lines, x) : j \in KeyLines(lines)
    BY SetTypes
  <2>2. \A j \in KeyLines(lines) : ~(j <= 0)
    BY SetTypes, BodyType
  <2> QED
    BY <2>1, <2>2 DEF OfTo
<1>2. Keeps(lines, NoKeys, {})
  BY DEF Keeps, NoKeys
<1>3. \A j \in 1 .. 0 : FALSE
  OBVIOUS
<1> QED
  BY <1>1, <1>2, <1>3 DEF ReadsAgents, NotBegun

\* One more line inside the section.
LEMMA InsideOn ==
    ASSUME NEW lines, Plain(lines), NEW i \in DOMAIN lines, NEW s, NEW o \in 1 .. i - 1,
           ReadsAgents(lines, s, i - 1), IsOpener(lines, "agents", o), s.in = "inside",
           Unbroken(lines, o, i - 1), SubState(lines, s.sub, s.first, i - 1), lines[i].ind # 0
    PROVE  ReadsAgents(lines, AgentsLine(s, lines[i]), i)
<1> DEFINE new == AgentsLine(s, lines[i])
           head == lines[i].key \in SubMaps /\ Valueless(lines[i])
<1>1. /\ DOMAIN s = {"in", "sub", "first", "out"} /\ s = [x \in DOMAIN s |-> s[x]]
      /\ s.out = [x \in SubMaps |-> s.out[x]]
      /\ \A x \in SubMaps : Keeps(lines, s.out[x], OfTo(lines, x, i - 1))
  BY DEF ReadsAgents
<1>2. i \in Nat /\ i >= 1 /\ o \in 1 .. i /\ o < i /\ o \in Nat
  BY DEF Plain
<1>3. Unbroken(lines, o, i)
  <2>1. \A j \in o + 1 .. i : j = i \/ j \in o + 1 .. i - 1
    BY <1>2
  <2> QED
    BY <2>1 DEF Unbroken
<1>4. i \in Body(lines)
  BY <1>2, <1>3, BodyLine
<1>5. lines[i].ind \in Nat
  BY <1>4, BodyType
<1>6. new = IF head THEN [s EXCEPT !.sub = lines[i].key, !.first = 0]
            ELSE IF s.sub = "" \/ ~lines[i].colon THEN s
            ELSE IF lines[i].ind < s.first THEN [s EXCEPT !.sub = ""]
            ELSE [s EXCEPT !.first = IF @ = 0 THEN lines[i].ind ELSE @,
                           !.out[s.sub] = Put(@, lines[i].key, StripInline(lines[i]))]
  BY DEF AgentsLine
<1> SUFFICES ReadsAgents(lines, new, i)
  OBVIOUS
<1> HIDE DEF new
\* It is enough to follow the sub-map and what the sub-maps keep.
<1>7. ASSUME DOMAIN new = DOMAIN s, new = [x \in DOMAIN new |-> new[x]], new.in = "inside",
             new.out = [x \in SubMaps |-> new.out[x]], SubState(lines, new.sub, new.first, i),
             \A x \in SubMaps : Keeps(lines, new.out[x], OfTo(lines, x, i))
      PROVE ReadsAgents(lines, new, i)
  BY <1>1, <1>2, <1>3, <1>7 DEF ReadsAgents
<1>8. CASE head
  <2>1. /\ DOMAIN new = DOMAIN s /\ new = [x \in DOMAIN new |-> new[x]]
        /\ new.in = "inside" /\ new.out = s.out /\ new.sub = lines[i].key /\ new.first = 0
    BY <1>1, <1>6, <1>8
  <2>2. i \in Heads(lines) /\ i \notin KeyLines(lines)
    BY <1>4, <1>8 DEF Heads, KeyLines
  <2>3. LastHead(lines, i, i) /\ \A j \in Under(lines, i) : ~(j <= i)
    BY <1>2, <2>2, SetTypes DEF LastHead, Under
  <2>4. SubState(lines, new.sub, new.first, i)
    BY <2>1, <2>3 DEF SubState
  <2>5. \A x \in SubMaps : i \notin OfMap(lines, x)
    BY <2>2, SetTypes
  <2>6. \A x \in SubMaps : Keeps(lines, new.out[x], OfTo(lines, x, i))
    BY <1>1, <2>1, <2>5, KeepsSame
  <2> QED
    BY <1>1, <1>7, <2>1, <2>4, <2>6
<1>9. CASE ~head /\ ~lines[i].colon
  <2>1. i \notin Heads(lines) /\ i \notin KeyLines(lines) /\ new = s
    BY <1>6, <1>9 DEF Heads, KeyLines
  <2>2. SubState(lines, s.sub, s.first, i)
    BY <2>1, SubStays
  <2>3. \A x \in SubMaps : Keeps(lines, s.out[x], OfTo(lines, x, i))
    <3>1. \A x \in SubMaps : i \notin OfMap(lines, x)
      BY <2>1, SetTypes
    <3> QED
      BY <1>1, <3>1, KeepsSame
  <2> QED
    BY <1>1, <1>7, <2>1, <2>2, <2>3
<1>10. CASE ~head /\ lines[i].colon /\ s.sub = ""
  <2>1. i \in KeyLines(lines) /\ i \notin Heads(lines) /\ new = s
    BY <1>4, <1>6, <1>10 DEF Heads, KeyLines
  <2>2. (\A x : i \notin OfMap(lines, x)) /\ SubState(lines, s.sub, s.first, i)
    <3>1. CASE \A g \in Heads(lines) : ~(g <= i - 1)
      <4>1. \A g \in Heads(lines) : ~(g <= i)
        BY <1>2, <2>1, <3>1, SetTypes
      <4>2. \A h \in Heads(lines) : i \notin Under(lines, h)
        BY <1>2, <3>1, SetTypes DEF Under
      <4>3. \A x : i \notin OfMap(lines, x)
        BY <4>2 DEF OfMap, Level
      <4>4. SubState(lines, s.sub, s.first, i)
        BY <1>10, <4>1 DEF SubState
      <4> QED
        BY <4>3, <4>4
    <3>2. CASE ~(\A g \in Heads(lines) : ~(g <= i - 1))
      <4>1. "" \notin SubMaps
        BY DEF SubMaps
      <4>2. \A h : LastHead(lines, h, i - 1) => lines[h].key # ""
        BY <4>1, SetTypes DEF LastHead
      <4>3. PICK h, f, j : /\ LastHead(lines, h, i - 1) /\ FirstUnder(lines, h, f, i - 1)
                           /\ j \in Under(lines, h) /\ j <= i - 1 /\ lines[j].ind < lines[f].ind
        BY <1>10, <3>2, <4>2 DEF SubState
      <4>4. j <= i
        BY <1>2, <4>3, SetTypes
      <4>5. LastHead(lines, h, i) /\ FirstUnder(lines, h, f, i)
        BY <1>2, <2>1, <4>3, SetTypes DEF LastHead, FirstUnder
      <4>6. \A x : i \notin OfMap(lines, x)
        BY <2>1, <4>3, <4>4, KeyLost
      <4>7. SubState(lines, s.sub, s.first, i)
        BY <1>10, <4>3, <4>4, <4>5 DEF SubState
      <4> QED
        BY <4>6, <4>7
    <3> QED
      BY <3>1, <3>2
  <2>3. \A x \in SubMaps : Keeps(lines, s.out[x], OfTo(lines, x, i))
    BY <1>1, <2>2, KeepsSame
  <2> QED
    BY <1>1, <1>7, <2>1, <2>2, <2>3
<1>11. CASE ~head /\ lines[i].colon /\ s.sub # "" /\ lines[i].ind < s.first
  <2>1. i \in KeyLines(lines)
    BY <1>4, <1>11 DEF Heads, KeyLines
  <2>2. /\ DOMAIN new = DOMAIN s /\ new = [x \in DOMAIN new |-> new[x]]
        /\ new.in = "inside" /\ new.out = s.out /\ new.sub = "" /\ new.first = s.first
    BY <1>1, <1>6, <1>11
  <2>3. s.first # 0
    <3>1. ~(lines[i].ind < 0)
      BY <1>5
    <3> QED
      BY <1>11, <3>1
  <2>4. PICK h, f : LastHead(lines, h, i - 1) /\ FirstUnder(lines, h, f, i - 1) /\ s.first = lines[f].ind
    BY <1>11, <2>3 DEF SubState
  <2>5. i \in Under(lines, h) /\ i <= i
    BY <1>2, <2>1, <2>4, UnderLast
  <2>6. (\A x : i \notin OfMap(lines, x)) /\ SubState(lines, "", lines[f].ind, i)
    BY <1>11, <2>1, <2>4, <2>5, KeyLost
  <2>7. \A x \in SubMaps : Keeps(lines, new.out[x], OfTo(lines, x, i))
    BY <1>1, <2>2, <2>6, KeepsSame
  <2> QED
    BY <1>1, <1>7, <2>2, <2>4, <2>6, <2>7
<1>12. CASE ~head /\ lines[i].colon /\ s.sub # "" /\ ~(lines[i].ind < s.first)
  <2>1. i \in KeyLines(lines)
    BY <1>4, <1>12 DEF Heads, KeyLines
  <2> DEFINE val == Put(s.out[s.sub], lines[i].key, StripInline(lines[i]))
             first == IF s.first = 0 THEN lines[i].ind ELSE s.first
  <2>2. PICK h, f : /\ LastHead(lines, h, i - 1) /\ s.sub = lines[h].key
                    /\ FirstUnder(lines, h, f, i) /\ first = lines[f].ind
                    /\ \A j \in Under(lines, h) : j <= i => lines[j].ind >= lines[f].ind
    <3>1. CASE \E h : /\ LastHead(lines, h, i - 1) /\ s.sub = lines[h].key /\ s.first = 0
                      /\ \A j \in Under(lines, h) : ~(j <= i - 1)
      <4>1. PICK h : /\ LastHead(lines, h, i - 1) /\ s.sub = lines[h].key /\ s.first = 0
                     /\ \A j \in Under(lines, h) : ~(j <= i - 1)
        BY <3>1
      <4>2. i \in Under(lines, h)
        BY <2>1, <4>1, UnderLast
      <4>3. \A j \in Under(lines, h) : i <= j /\ (j <= i => j = i)
        BY <1>2, <4>1, SetTypes
      <4>4. FirstUnder(lines, h, i, i) /\ \A j \in Under(lines, h) : j <= i => lines[j].ind >= lines[i].ind
        BY <1>2, <1>5, <4>2, <4>3 DEF FirstUnder
      <4>5. first = lines[i].ind
        BY <4>1
      <4> HIDE DEF first
      <4> QED
        BY <4>1, <4>4, <4>5
    <3>2. CASE \E h, f : /\ LastHead(lines, h, i - 1) /\ s.sub = lines[h].key
                         /\ FirstUnder(lines, h, f, i - 1) /\ s.first = lines[f].ind
                         /\ \A j \in Under(lines, h) : j <= i - 1 => lines[j].ind >= lines[f].ind
      <4>1. PICK h, f : /\ LastHead(lines, h, i - 1) /\ s.sub = lines[h].key
                        /\ FirstUnder(lines, h, f, i - 1) /\ s.first = lines[f].ind
                        /\ \A j \in Under(lines, h) : j <= i - 1 => lines[j].ind >= lines[f].ind
        BY <3>2
      <4>2. lines[f].ind \in Nat /\ lines[f].ind # 0 /\ f \in Nat
        BY <4>1, SetTypes DEF FirstUnder
      <4>3. first = lines[f].ind
        BY <4>1, <4>2
      <4>4. FirstUnder(lines, h, f, i)
        BY <1>2, <4>1, <4>2 DEF FirstUnder
      <4>5. \A j \in Under(lines, h) : j <= i => lines[j].ind >= lines[f].ind
        <5>1. \A j \in Under(lines, h) : j <= i => j <= i - 1 \/ j = i
          BY <1>2, SetTypes
        <5>2. lines[i].ind >= lines[f].ind
          <6>1. ~(lines[i].ind < lines[f].ind)
            BY <1>12, <4>1
          <6> QED
            BY <1>5, <4>2, <6>1
        <5> QED
          BY <4>1, <5>1, <5>2
      <4> HIDE DEF first
      <4> QED
        BY <4>1, <4>3, <4>4, <4>5
    <3> QED
      BY <1>12, <3>1, <3>2 DEF SubState
  <2>3. (\A x : i \in OfMap(lines, x) <=> x = s.sub) /\ SubState(lines, s.sub, first, i)
    BY <2>1, <2>2, KeyTaken
  <2>4. s.sub \in SubMaps
    BY <2>2, SetTypes DEF LastHead
  <2>5. /\ DOMAIN new = DOMAIN s /\ new = [x \in DOMAIN new |-> new[x]]
        /\ new.in = "inside" /\ new.sub = s.sub /\ new.first = first
        /\ new.out = [s.out EXCEPT ![s.sub] = val]
    BY <1>1, <1>6, <1>12
  <2> HIDE DEF val, first
  <2>6. /\ new.out = [x \in SubMaps |-> new.out[x]] /\ new.out[s.sub] = val
        /\ \A x \in SubMaps : x # s.sub => new.out[x] = s.out[x]
    <3>1. DOMAIN s.out = SubMaps
      BY <1>1
    <3> QED
      BY <2>4, <2>5, <3>1
  <2>7. Keeps(lines, val, OfTo(lines, s.sub, i))
    BY <1>1, <2>3, <2>4, KeepsTaken DEF val
  <2>8. \A x \in SubMaps : Keeps(lines, new.out[x], OfTo(lines, x, i))
    <3>1. ASSUME NEW x \in SubMaps, x # s.sub PROVE Keeps(lines, new.out[x], OfTo(lines, x, i))
      <4>1. i \notin OfMap(lines, x)
        BY <2>3, <3>1
      <4> QED
        BY <1>1, <2>6, <3>1, <4>1, OfSame
    <3> QED
      BY <2>6, <2>7, <3>1
  <2> QED
    BY <1>7, <2>3, <2>5, <2>6, <2>8
<1> HIDE DEF head
<1> QED
  BY <1>8, <1>9, <1>10, <1>11, <1>12

LEMMA AgentsOn ==
    ASSUME NEW lines, Plain(lines), NEW i \in DOMAIN lines, NEW s, ReadsAgents(lines, s, i - 1)
    PROVE  ReadsAgents(lines, AgentsLine(s, lines[i]), i)
<1> DEFINE new == AgentsLine(s, lines[i])
<1> SUFFICES ReadsAgents(lines, new, i)
  OBVIOUS
<1>1. /\ DOMAIN s = {"in", "sub", "first", "out"} /\ s = [x \in DOMAIN s |-> s[x]]
      /\ s.out = [x \in SubMaps |-> s.out[x]]
      /\ \A x \in SubMaps : Keeps(lines, s.out[x], OfTo(lines, x, i - 1))
  BY DEF ReadsAgents
<1>2. i \in Nat /\ i >= 1
  BY DEF Plain
<1>3. ASSUME i \notin Body(lines) PROVE \A x \in SubMaps : Keeps(lines, s.out[x], OfTo(lines, x, i))
  <2>1. \A x \in SubMaps : i \notin OfMap(lines, x)
    BY <1>3, SetTypes
  <2> QED
    BY <1>1, <2>1, KeepsSame
<1>4. CASE s.in = "before"
  <2>1. s.sub = "" /\ s.first = 0 /\ \A j \in 1 .. i - 1 : ~Opens(lines[j], "agents")
    BY <1>4 DEF ReadsAgents
  <2>2. \A x \in SubMaps : Keeps(lines, s.out[x], OfTo(lines, x, i))
    BY <1>3, <2>1, BodyLine
  <2>3. CASE ~Opens(lines[i], "agents")
    <3>1. new = s
      BY <1>4, <2>3 DEF AgentsLine
    <3>2. \A j \in 1 .. i : ~Opens(lines[j], "agents")
      <4>1. \A j \in 1 .. i : j = i \/ j \in 1 .. i - 1
        BY <1>2
      <4> QED
        BY <2>1, <2>3, <4>1
    <3> QED
      BY <1>1, <1>4, <2>1, <2>2, <3>1, <3>2 DEF ReadsAgents
  <2>4. CASE Opens(lines[i], "agents")
    <3>1. new = [s EXCEPT !.in = "inside"]
      BY <1>4, <2>4 DEF AgentsLine
    <3>2. /\ DOMAIN new = {"in", "sub", "first", "out"} /\ new = [x \in DOMAIN new |-> new[x]]
          /\ new.in = "inside" /\ new.sub = "" /\ new.out = s.out
      BY <1>1, <2>1, <3>1
    <3>3. IsOpener(lines, "agents", i) /\ i \in 1 .. i
      <4>1. i \in 1 .. i
        BY <1>2
      <4> QED
        BY <2>1, <2>4, <4>1 DEF IsOpener
    <3>4. Unbroken(lines, i, i)
      BY <1>2 DEF Unbroken
    <3>5. \A g \in Heads(lines) : ~(g <= i)
      <4>1. \A g \in Body(lines) : i < g
        <5>1. \A g \in Body(lines) : g \in DOMAIN lines /\ g \in Nat
          BY BodyType
        <5> QED
          BY <3>3, <5>1, BodyLine
      <4> QED
        BY <1>2, <4>1, SetTypes
    <3>6. SubState(lines, new.sub, new.first, i)
      BY <3>2, <3>5 DEF SubState
    <3> HIDE DEF new
    <3>7. ReadsAgents(lines, new, i)
      BY <1>1, <2>2, <3>2, <3>3, <3>4, <3>6 DEF ReadsAgents
    <3> QED
      BY <3>7 DEF new
  <2> QED
    BY <2>3, <2>4
<1>5. ASSUME NEW o \in 1 .. i - 1, IsOpener(lines, "agents", o), s.in = "after", ~Unbroken(lines, o, i - 1)
      PROVE ReadsAgents(lines, new, i)
  <2>1. new = s
    BY <1>5 DEF AgentsLine
  <2>2. ~Unbroken(lines, o, i)
    <3>1. \A j \in o + 1 .. i - 1 : j \in o + 1 .. i
      BY <1>2
    <3> QED
      BY <1>5, <3>1 DEF Unbroken
  <2>3. \A x \in SubMaps : Keeps(lines, s.out[x], OfTo(lines, x, i))
    BY <1>3, <1>5, <2>2, BodyLine
  <2>4. o \in 1 .. i
    BY <1>2
  <2> QED
    BY <1>1, <1>5, <2>1, <2>2, <2>3, <2>4 DEF ReadsAgents
<1>6. ASSUME NEW o \in 1 .. i - 1, IsOpener(lines, "agents", o), s.in = "inside", Unbroken(lines, o, i - 1),
             SubState(lines, s.sub, s.first, i - 1)
      PROVE ReadsAgents(lines, new, i)
  <2>1. CASE lines[i].ind = 0
    <3>1. new = [s EXCEPT !.in = "after"]
      BY <1>6, <2>1 DEF AgentsLine
    <3>2. /\ DOMAIN new = {"in", "sub", "first", "out"} /\ new = [x \in DOMAIN new |-> new[x]]
          /\ new.in = "after" /\ new.out = s.out
      BY <1>1, <3>1
    <3>3. ~Unbroken(lines, o, i) /\ o \in 1 .. i
      <4>1. i \in o + 1 .. i /\ o \in 1 .. i
        BY <1>2
      <4> QED
        BY <2>1, <4>1 DEF Unbroken
    <3>4. \A x \in SubMaps : Keeps(lines, s.out[x], OfTo(lines, x, i))
      BY <1>3, <1>6, <3>3, BodyLine
    <3> HIDE DEF new
    <3>5. ReadsAgents(lines, new, i)
      BY <1>1, <1>6, <3>2, <3>3, <3>4 DEF ReadsAgents
    <3> QED
      BY <3>5 DEF new
  <2>2. CASE lines[i].ind # 0
    BY <1>6, <2>2, InsideOn
  <2> QED
    BY <2>1, <2>2
<1>7. \/ s.in = "before"
      \/ \E o \in 1 .. i - 1 :
             /\ IsOpener(lines, "agents", o)
             /\ \/ s.in = "inside" /\ Unbroken(lines, o, i - 1) /\ SubState(lines, s.sub, s.first, i - 1)
                \/ s.in = "after" /\ ~Unbroken(lines, o, i - 1)
  BY DEF ReadsAgents
<1> HIDE DEF new
<1>8. ReadsAgents(lines, new, i)
  BY <1>4, <1>5, <1>6, <1>7
<1> QED
  BY <1>8 DEF new

\* What is kept of some lines is each of their keys with the value of its last line.
LEMMA KeptIsLast ==
    ASSUME NEW lines, NEW n \in Nat, NEW U \in SUBSET (1 .. n), NEW out, Keeps(lines, out, U)
    PROVE  out = LastOf(lines, U)
<1>1. DOMAIN LastOf(lines, U) = {lines[i].key : i \in U} /\ LastOf(lines, U) = [k \in DOMAIN LastOf(lines, U) |-> LastOf(lines, U)[k]]
  BY DEF LastOf
<1>2. ASSUME NEW k \in {lines[i].key : i \in U} PROVE LastOf(lines, U)[k] = out[k]
  <2> DEFINE Ends(i) == lines[i].key = k /\ \A j \in U : lines[j].key = k => j <= i
             J == {i \in U : lines[i].key = k}
             c == CHOOSE i \in U : Ends(i)
  <2>1. J # {} /\ J \in SUBSET (1 .. n)
    OBVIOUS
  <2>2. PICK i \in J : \A j \in J : j <= i
    <3> HIDE DEF J
    <3> QED
      BY <2>1, GreatestMember
  <2>3. i \in U /\ Ends(i)
    BY <2>2
  <2>4. c \in U /\ Ends(c)
    <3> HIDE DEF Ends
    <3> QED
      BY <2>3
  <2>5. LastOf(lines, U)[k] = StripInline(lines[c])
    BY DEF LastOf
  <2> HIDE DEF c
  <2> QED
    BY <2>4, <2>5 DEF Keeps
<1>3. out = [k \in DOMAIN out |-> out[k]] /\ DOMAIN out = {lines[i].key : i \in U}
  BY DEF Keeps
<1> QED
  BY <1>1, <1>2, <1>3

\* The two-level reader keeps of each sub-map the keys under its headers, up to the first
\* that stands left of the header's first key, each with the value of its last line
\* (parse_agents_config), whatever the file.
THEOREM SubMapsAreRead == ASSUME NEW lines \in Files PROVE AgentsAreRead(lines)
<1> DEFINE n == Len(lines)
           out == ParseAgents(lines)
<1>1. Plain(lines)
  BY PlainFile
<1>2. n \in Nat /\ DOMAIN lines = 1 .. n
  BY <1>1 DEF Plain
<1>3. out = [x \in SubMaps |-> out[x]] /\ \A x \in SubMaps : Keeps(lines, out[x], OfTo(lines, x, n))
  <2>1. PICK read : /\ out = read[n].out
                    /\ read[0] = NotBegun
                    /\ \A i \in 1 .. n : read[i] = AgentsLine(read[i - 1], lines[i])
    BY <1>2, AgentsUnfold
  <2> DEFINE S == {i \in 0 .. n : ReadsAgents(lines, read[i], i)}
  <2>2. 0 \in S
    BY <1>1, <1>2, <2>1, AgentsBegin
  <2>3. ASSUME NEW i \in 1 .. n, i - 1 \in S PROVE i \in S
    <3>1. ReadsAgents(lines, read[i - 1], i - 1)
      BY <2>3
    <3>2. ReadsAgents(lines, AgentsLine(read[i - 1], lines[i]), i)
      BY <1>1, <1>2, <3>1, AgentsOn
    <3>3. i \in 0 .. n
      BY <1>2
    <3> QED
      BY <2>1, <3>2, <3>3
  <2>4. n \in S
    <3>1. n \in 0 .. n
      BY <1>2
    <3> HIDE DEF S, n
    <3> QED
      BY <1>2, <2>2, <2>3, <3>1, Upto
  <2> QED
    BY <2>1, <2>4 DEF ReadsAgents
<1>4. ASSUME NEW x \in SubMaps PROVE out[x] = LastOf(lines, OfMap(lines, x))
  <2>1. \A i \in OfMap(lines, x) : i \in 1 .. n
    BY <1>1, <1>2, SetTypes, BodyType
  <2>2. OfTo(lines, x, n) = OfMap(lines, x) /\ OfMap(lines, x) \in SUBSET (1 .. n)
    BY <1>2, <2>1 DEF OfTo
  <2> HIDE DEF n, out
  <2> QED
    BY <1>2, <1>3, <2>2, KeptIsLast
<1>5. out = [x \in SubMaps |-> LastOf(lines, OfMap(lines, x))]
  <2> HIDE DEF out
  <2> QED
    BY <1>3, <1>4
<1> HIDE DEF out
<1>6. AgentsAreRead(lines) <=> out = [x \in SubMaps |-> LastOf(lines, OfMap(lines, x))]
  BY DEF AgentsAreRead, OfMap, Level, Under, KeyLines, Heads, Body, out
<1> QED
  BY <1>5, <1>6

-----------------------------------------------------------------------------
(* The operators *)

LEMMA OneBefore == ASSUME NEW i \in 1 .. 2, i # 1 PROVE 1 \in 1 .. i - 1
OBVIOUS

\* The reason of a gate that passed is recorded as it is.
LEMMA FirstIsOk == FirstOf(<<"ok", "not-invoked">>) = "ok"
<1> DEFINE s == <<"ok", "not-invoked">>
<1>1. DOMAIN s = 1 .. 2 /\ s[1] = "ok"
  OBVIOUS
<1>2. \A i \in 1 .. 2 : (\A j \in 1 .. i - 1 : s[j] = "") => i = 1
  <2> SUFFICES ASSUME NEW i \in 1 .. 2, i # 1, \A j \in 1 .. i - 1 : s[j] = "" PROVE FALSE
    OBVIOUS
  <2>1. 1 \in 1 .. i - 1
    BY OneBefore
  <2> QED
    BY <1>1, <2>1
<1>3. (CHOOSE i \in 1 .. 2 : s[i] # "" /\ \A j \in 1 .. i - 1 : s[j] = "") = 1
  <2>1. 1 \in 1 .. 2 /\ s[1] # "" /\ \A j \in 1 .. 1 - 1 : s[j] = ""
    OBVIOUS
  <2> HIDE DEF s
  <2> QED
    BY <1>2, <2>1
<1>4. 1 \in DOMAIN s /\ s[1] # ""
  BY <1>1
<1>5. (CHOOSE i \in DOMAIN s : s[i] # "" /\ \A j \in 1 .. i - 1 : s[j] = "") = 1
  BY <1>1, <1>3
<1> HIDE DEF s
<1>6. FirstOf(s) = s[1]
  BY <1>4, <1>5 DEF FirstOf
<1> QED
  BY <1>1, <1>6 DEF s

\* A gate that passes says "ok", one that does not gives its reason.
LEMMA GateReason == ASSUME NEW mach
                    PROVE Gate(mach).reason # "" /\ (Gate(mach).rc = 0 => Gate(mach).reason = "ok")
BY DEF Gate

LEMMA Nothing == DidNothing \in [Deeds -> BOOLEAN] /\ DOMAIN Unmarked = Marks
BY DEF DidNothing, Unmarked

\* What the answer of the gate adds to the history.
LEMMA GateDeeds ==
    ASSUME did \in [Deeds -> BOOLEAN], NEW p \in BOOLEAN, NEW c \in BOOLEAN, NEW s \in BOOLEAN,
           did' = [did EXCEPT !.asked = TRUE, !.passed = p, !.consented = c, !.strayed = s]
    PROVE /\ did' \in [Deeds -> BOOLEAN]
          /\ did'.passed = p /\ did'.strayed = s
          /\ did'.ran = did.ran /\ did'.answered = did.answered /\ did'.cut = did.cut
BY DEF Deeds

LEMMA AskGateDeeds ==
    ASSUME did \in [Deeds -> BOOLEAN], lost \in BOOLEAN, AskGate
    PROVE /\ did' \in [Deeds -> BOOLEAN]
          /\ did'.passed = (Gate(m).rc = 0) /\ did'.strayed = Strays
          /\ did'.ran = did.ran /\ did'.answered = did.answered /\ did'.cut = did.cut
<1> DEFINE p == Gate(m).rc = 0
           c == Consents(m)
           s == Strays
<1>0. did.strayed \in BOOLEAN
  BY DEF Deeds
<1>1. p \in BOOLEAN /\ c \in BOOLEAN /\ s \in BOOLEAN
  BY <1>0 DEF Consents, Strays
<1>2. did' = [did EXCEPT !.asked = TRUE, !.passed = p, !.consented = c, !.strayed = s]
  BY DEF AskGate
<1> HIDE DEF p, c, s
<1>3. /\ did' \in [Deeds -> BOOLEAN] /\ did'.passed = p /\ did'.strayed = s
      /\ did'.ran = did.ran /\ did'.answered = did.answered /\ did'.cut = did.cut
  BY <1>1, <1>2, GateDeeds
<1> QED
  BY <1>3 DEF p, s

\* A mark that goes astray is noted.
LEMMA AnnounceDeeds ==
    ASSUME did \in [Deeds -> BOOLEAN], lost \in BOOLEAN, Announce
    PROVE /\ did' \in [Deeds -> BOOLEAN] /\ did'.strayed = Strays
          /\ \A d \in Deeds \ {"strayed"} : did'[d] = did[d]
<1> DEFINE s == Strays
<1>1. did.strayed \in BOOLEAN
  BY DEF Deeds
<1>2. s \in BOOLEAN
  BY <1>1 DEF Strays
<1>3. did' = [did EXCEPT !.strayed = s]
  BY DEF Announce
<1>4. "strayed" \in Deeds
  BY DEF Deeds
<1> HIDE DEF s
<1>5. did' \in [Deeds -> BOOLEAN] /\ did'.strayed = s /\ \A d \in Deeds \ {"strayed"} : did'[d] = did[d]
  BY <1>2, <1>3, <1>4
<1> QED
  BY <1>5 DEF s

\* Likewise the resolution of the provider.
LEMMA CallDeeds ==
    ASSUME did \in [Deeds -> BOOLEAN], CallResolves
    PROVE did' \in [Deeds -> BOOLEAN] /\ did'.ran /\ did'.answered = did.answered /\ did'.strayed = did.strayed
<1> DEFINE k == ~KeyInConfig(m)
           t == OldSetup(Seen)
<1>1. k \in BOOLEAN /\ t \in BOOLEAN
  BY DEF KeyInConfig, OldSetup
<1>2. did' = [did EXCEPT !.ran = TRUE, !.keyless = k, !.today = t]
  BY DEF CallResolves
<1> HIDE DEF k, t
<1> QED
  BY <1>1, <1>2 DEF Deeds

LEMMA InitStep == StepInit => StepInv
<1> SUFFICES ASSUME StepInit PROVE StepInv
  OBVIOUS
<1>1. 0 \in 0 .. MaxChanges
  BY ChangesType
<1>2. side = Unmarked /\ did = DidNothing /\ at = "idle" /\ lost = FALSE /\ changes = 0
  BY DEF StepInit
<1>3. StepTypeOK
  BY Nothing, <1>1, <1>2 DEF StepTypeOK, Places, Between
<1>4. PlaceInv /\ RecordsAreTrue
  BY <1>2 DEF PlaceInv, RecordsAreTrue
<1>5. CallInv
  BY DEF StepInit, CallInv, NoCall
<1> QED
  BY <1>3, <1>4, <1>5 DEF StepInv

-----------------------------------------------------------------------------
(* The steps *)

\* A mark adds to the sidecar, or goes astray.
LEMMA MarkTypes == ASSUME NEW k, NEW v, DOMAIN side = Marks, Mark(k, v) PROVE DOMAIN side' = Marks
BY DEF Mark

LEMMA StepTypes == ASSUME StepTypeOK, StepNext PROVE StepTypeOK'
<1>1. changes' \in 0 .. MaxChanges
  BY DEF StepTypeOK, StepNext, CreateFlag, AskGate, Announce, CannotStart, CallResolves, CallSends, Answered,
         Failed, MarkExit, Cut, SupplyPath, Emit, HandEmit, Abandon, machine
<1>2. at' \in Places /\ lost' \in BOOLEAN
  BY DEF StepTypeOK, StepNext, CreateFlag, AskGate, Announce, CannotStart, CallResolves, CallSends, Answered,
         Failed, MarkExit, Cut, SupplyPath, Emit, HandEmit, Abandon, Exits, Places, Between, Calling
<1>3. DOMAIN side' = Marks
  <2>1. CASE AskGate \/ Announce \/ MarkExit
    BY <2>1, MarkTypes DEF StepTypeOK, AskGate, Announce, MarkExit
  <2>2. CASE side' = Unmarked \/ side' = side
    BY <2>2, Nothing DEF StepTypeOK
  <2> QED
    BY <2>1, <2>2 DEF StepNext, CreateFlag, CannotStart, CallResolves, CallSends, Answered, Failed, Cut,
                      SupplyPath, Emit, HandEmit, Abandon
<1>4. did' \in [Deeds -> BOOLEAN]
  <2>1. CASE AskGate \/ Announce
    BY <2>1, AskGateDeeds, AnnounceDeeds DEF StepTypeOK
  <2>2. CASE did' = DidNothing \/ did' = did
    BY <2>2, Nothing DEF StepTypeOK
  <2>3. CASE CannotStart \/ CallSends \/ Answered \/ Cut
    BY <2>3 DEF StepTypeOK, CannotStart, CallSends, Answered, Cut, Deeds
  <2>4. CASE CallResolves
    BY <2>4, CallDeeds DEF StepTypeOK
  <2> QED
    BY <2>1, <2>2, <2>3, <2>4 DEF StepNext, CreateFlag, Failed, MarkExit, SupplyPath, Emit, HandEmit, Abandon
<1> QED
  BY <1>1, <1>2, <1>3, <1>4 DEF StepTypeOK

LEMMA ExitCode == ASSUME CallInv, NEW c, Exits(c) PROVE call'.exit = c /\ at' = "returned"
BY DEF CallInv, Exits

LEMMA CallStep == ASSUME CallInv, StepNext PROVE CallInv'
<1>1. CASE call' = call \/ call' = NoCall
  <2>1. "exit" \in DOMAIN NoCall
    BY DEF NoCall
  <2> QED
    BY <1>1, <2>1 DEF CallInv
<1>2. CASE Announce
  BY <1>2 DEF Announce, CallInv, NoCall
<1>3. ASSUME NEW c, Exits(c) PROVE CallInv'
  BY <1>3 DEF Exits, CallInv
<1>4. CASE CallResolves
  BY <1>3, <1>4 DEF CallResolves, CallInv
<1> QED
  BY <1>1, <1>2, <1>3, <1>4
     DEF StepNext, CreateFlag, AskGate, CannotStart, CallSends, Answered, Failed, MarkExit, Cut, SupplyPath, Emit,
         HandEmit, Abandon

\* One place at a time, what the sidecar and the history say there.
LEMMA PlaceStep == ASSUME StepInv, StepNext PROVE PlaceInv'
<1> USE DEF StepInv, PlaceInv
<1>0. Unmarked.invoked = "" /\ Unmarked.exit = "" /\ Unmarked.reason = ""
  BY DEF Unmarked, Marks
<1>1. CASE CreateFlag
  BY <1>1 DEF CreateFlag, DidNothing, Deeds
<1>2. CASE AskGate
  <2>1. /\ did'.passed = (Gate(m).rc = 0) /\ did'.strayed = Strays
        /\ did'.ran = did.ran /\ did'.answered = did.answered
    BY <1>2, AskGateDeeds DEF StepTypeOK
  <2>2. /\ at = "created" /\ lost' = lost
        /\ at' = IF Gate(m).rc = 0 THEN "gated" ELSE "called"
        /\ Mark("reason", Gate(m).reason)
    BY <1>2 DEF AskGate
  <2>3. ASSUME ~lost
        PROVE side'.invoked = "" /\ side'.exit = "" /\ side'.reason = Gate(m).reason
    BY <2>2, <2>3 DEF Mark, Unmarked, Marks
  <2>4. lost => side' = Unmarked /\ did'.strayed
    BY <2>1, <2>2 DEF Mark, Strays
  <2>5. Stopped'
    BY <2>3, <2>4, GateReason DEF Stopped, Gated
  <2>6. Gate(m).rc = 0 => Passed'
    BY <2>3, <2>4, GateReason DEF Passed, Gated
  <2> QED
    BY <2>1, <2>2, <2>5, <2>6
<1>3. CASE Announce
  <2>1. /\ did'.strayed = Strays /\ did'.ran = did.ran /\ did'.answered = did.answered
        /\ at = "gated" /\ at' = "announced" /\ lost' = lost /\ Mark("invoked", "1")
    BY <1>3, AnnounceDeeds DEF Announce, StepTypeOK, Deeds
  <2>2. ~lost => Called'
    BY <1>0, <2>1 DEF Mark, Passed, Gated, Called, StepTypeOK, Marks
  <2>3. ASSUME lost PROVE Astray'
    BY <2>1, <2>3 DEF Mark, Passed, Gated, Astray, Strays
  <2> QED
    BY <2>1, <2>2, <2>3 DEF InCall
<1>c. ASSUME side' = side, lost' = lost, did'.strayed = did.strayed
      PROVE InCall' = InCall /\ Astray' = Astray /\ Called' = Called
  BY <1>c DEF InCall, Called, Astray, Passed, Gated
<1>4. CASE CannotStart
  <2>1. did'.ran /\ did'.answered = did.answered /\ did'.strayed = did.strayed
    BY <1>4 DEF CannotStart, StepTypeOK, Deeds
  <2>2. call'.exit \in {"1", "127"}
    BY <1>4, ExitCode DEF CannotStart
  <2>3. InCall' = InCall
    BY <1>4, <1>c, <2>1 DEF CannotStart
  <2> QED
    BY <1>4, <2>1, <2>2, <2>3 DEF CannotStart, Exits
<1>5. CASE CallResolves
  <2>1. did'.ran /\ did'.answered = did.answered /\ did'.strayed = did.strayed
    BY <1>5, CallDeeds DEF StepTypeOK
  <2>2. at' = "resolved" \/ (at' = "returned" /\ call'.exit = "1")
    BY <1>5, ExitCode DEF CallResolves
  <2>3. at = "announced" /\ InCall' = InCall
    BY <1>5, <1>c, <2>1 DEF CallResolves
  <2> QED
    BY <2>1, <2>2, <2>3
<1>6. CASE CallSends
  <2>1. did'.ran = did.ran /\ did'.answered = did.answered /\ did'.strayed = did.strayed
    BY <1>6 DEF CallSends, StepTypeOK, Deeds
  <2>2. at' = "waiting" \/ (at' = "returned" /\ call'.exit = "1")
    BY <1>6, ExitCode DEF CallSends
  <2>3. at = "resolved" /\ InCall' = InCall
    BY <1>6, <1>c, <2>1 DEF CallSends
  <2> QED
    BY <2>1, <2>2, <2>3
<1>7. CASE Answered \/ Failed
  <2>1. did'.ran /\ call'.exit # "" /\ (call'.exit = "0" <=> did'.answered) /\ did'.strayed = did.strayed
    <3>1. CASE Answered
      <4>1. call'.exit = "0"
        BY <3>1, ExitCode DEF Answered
      <4>2. did'.ran /\ did'.answered /\ did'.strayed = did.strayed
        BY <3>1 DEF Answered, StepTypeOK, Deeds
      <4> QED
        BY <4>1, <4>2
    <3>2. CASE Failed
      <4>1. call'.exit = "1"
        BY <3>2, ExitCode DEF Failed
      <4> QED
        BY <3>2, <4>1 DEF Failed
    <3> QED
      BY <1>7, <3>1, <3>2
  <2>2. at = "waiting" /\ at' = "returned" /\ InCall' = InCall
    BY <1>7, <1>c, <2>1 DEF Answered, Failed, Exits
  <2> QED
    BY <2>1, <2>2
<1>8. CASE MarkExit
  <2>1. at = "returned" /\ at' = "called" /\ UNCHANGED <<lost, did>>
    BY <1>8 DEF MarkExit
  <2>2. ~lost => Marked'
    BY <1>8, <2>1 DEF MarkExit, Mark, InCall, Called, Marked, StepTypeOK, Marks
  <2>3. ASSUME lost PROVE Astray'
    BY <1>8, <1>c, <2>1, <2>3 DEF MarkExit, Mark, InCall
  <2> QED
    BY <2>1, <2>2, <2>3
<1>9. CASE Cut
  <2>1. did'.cut /\ did'.strayed = did.strayed
    BY <1>9 DEF Cut, StepTypeOK, Deeds
  <2>2. at \in Calling /\ at' = "called"
    BY <1>9 DEF Cut
  <2>3. Called' = Called /\ Astray' = Astray
    BY <1>9, <1>c, <2>1 DEF Cut
  <2> QED
    BY <2>1, <2>2, <2>3 DEF Calling, InCall
<1>10. CASE SupplyPath
  <2>1. at \in {"created", "gated", "called"} /\ at' = at /\ UNCHANGED <<side, call, did>>
    BY <1>10 DEF SupplyPath
  <2>2. /\ Passed' = Passed /\ Stopped' = Stopped /\ Marked' = Marked /\ Called' = Called
        /\ Astray' = Astray
    BY <2>1 DEF Passed, Stopped, Gated, Marked, Called, Astray
  <2> QED
    BY <2>1, <2>2
<1>11. CASE Emit \/ HandEmit \/ Abandon
  BY <1>11 DEF Emit, HandEmit, Abandon
<1> QED
  BY <1>1, <1>2, <1>3, <1>4, <1>5, <1>6, <1>7, <1>8, <1>9, <1>10, <1>11 DEF StepNext

LEMMA RecordStep == ASSUME StepInv, StepNext PROVE RecordsAreTrue'
<1>1. CASE Emit
  <2>1. /\ at \in {"gated", "called"} /\ UNCHANGED <<lost, did>>
        /\ rec' = Recorded(Resolved) /\ Strays' = Strays
    BY <1>1 DEF Emit, Strays
  <2>2. CASE lost \/ (side = Unmarked /\ did.strayed)
    <3>1. rec' = Record("fail", "fallback", "no-flag")
      BY <2>1, <2>2 DEF Recorded, Resolved, Record
    <3>2. Strays
      BY <2>2 DEF Strays
    <3> QED
      BY <2>1, <3>1, <3>2 DEF RecordsAreTrue, Record
  <2>3. CASE ~lost /\ side # Unmarked /\ Gated(side.reason) /\ side.reason # ""
    <3>1. rec' = Record("fail", "fallback", FirstOf(<<side.reason, "not-invoked">>))
      BY <2>1, <2>3 DEF Recorded, Resolved, Record, Gated
    <3>2. did.ran => did.strayed /\ side.reason = "ok"
      BY <2>1, <2>3 DEF StepInv, PlaceInv, Passed, Astray, Gated, Called, Marked
    <3>3. did.passed => side.reason = "ok"
      BY <2>1, <2>3 DEF StepInv, PlaceInv, Passed, Astray, Gated, Called, Marked
    <3>4. side.reason = "ok" => rec'.reason = "ok"
      BY <3>1, FirstIsOk DEF Record
    <3> QED
      BY <2>1, <3>1, <3>2, <3>3, <3>4 DEF RecordsAreTrue, Record
  <2>4. CASE ~lost /\ Called
    <3>1. rec' = Record("pass", "ghost-skip", "gate-passed-no-call")
      BY <2>1, <2>4 DEF Recorded, Resolved, Record, Called, Unmarked, Marks
    <3>2. did.cut
      BY <2>1, <2>4 DEF StepInv, PlaceInv, Passed, Stopped, Astray, Gated, Called, Marked, Unmarked, Marks
    <3> QED
      BY <2>1, <3>1, <3>2 DEF RecordsAreTrue, Record
  <2>5. CASE ~lost /\ Marked
    <3>1. rec' = IF side.exit = "0" THEN Record("pass", "delegated", "ok")
                 ELSE Record("pass", "fallback", "api-error")
      BY <2>1, <2>5 DEF Recorded, Resolved, Record, Marked, Unmarked, Marks
    <3>2. did.ran
      BY <2>1, <2>5 DEF StepInv, PlaceInv, Passed, Stopped, Astray, Gated, Called, Marked, Unmarked, Marks
    <3>3. CASE side.exit = "0"
      BY <2>1, <2>5, <3>1, <3>2, <3>3 DEF RecordsAreTrue, Record, Marked
    <3>4. CASE side.exit # "0"
      <4>1. rec' = Record("pass", "fallback", "api-error") /\ ~did.answered
        BY <2>5, <3>1, <3>4 DEF Marked
      <4> QED
        BY <2>1, <3>2, <4>1 DEF RecordsAreTrue, Record
    <3> QED
      BY <3>3, <3>4
  <2>6. Unmarked.invoked = "" /\ Unmarked.exit = "" /\ Unmarked.reason = ""
    BY DEF Unmarked, Marks
  <2>7. \/ lost \/ (side = Unmarked /\ did.strayed)
        \/ ~lost /\ side # Unmarked /\ Gated(side.reason) /\ side.reason # ""
        \/ ~lost /\ Called
        \/ ~lost /\ Marked
    BY <2>1, <2>6 DEF StepInv, PlaceInv, Passed, Stopped, Astray, Gated, Called, Marked
  <2> QED
    BY <2>2, <2>3, <2>4, <2>5, <2>7
<1>2. CASE HandEmit
  <2>1. ~did.ran /\ did' = did
    BY <1>2 DEF HandEmit, StepInv, PlaceInv
  <2>2. rec' = Record("pass", "ghost-skip", "unmasked")
    BY <1>2 DEF HandEmit, Recorded, Record
  <2> QED
    BY <2>1, <2>2 DEF RecordsAreTrue, Record
<1>3. CASE at' # "emitted"
  BY <1>3 DEF RecordsAreTrue
<1> QED
  BY <1>1, <1>2, <1>3
     DEF StepNext, CreateFlag, AskGate, Announce, CannotStart, CallResolves, CallSends, Answered, Failed, MarkExit,
         Cut, SupplyPath, Abandon, Exits, Calling, Between

\* Neither changes of the machine nor doctor touch the step.
LEMMA Still == ASSUME StepInv, UNCHANGED step, changes' \in 0 .. MaxChanges PROVE StepInv'
BY DEF StepInv, StepTypeOK, CallInv, PlaceInv, RecordsAreTrue, Gated, Passed, Stopped, Astray, InCall, Called, Marked,
       Strays, step

LEMMA NextStep == StepInv /\ [Next]_vars => StepInv'
<1> SUFFICES ASSUME StepInv, [Next]_vars PROVE StepInv'
  OBVIOUS
<1>1. CASE StepNext
  BY <1>1, StepTypes, CallStep, PlaceStep, RecordStep DEF StepInv
<1>2. CASE UNCHANGED <<machine, step>>
  BY <1>2, Still DEF machine, StepInv, StepTypeOK
<1>3. CASE Change
  <2>1. changes' \in 0 .. MaxChanges
    BY <1>3, ChangesType DEF Change, StepInv, StepTypeOK
  <2> QED
    BY <1>3, <2>1, Still DEF Change
<1> QED
  BY <1>1, <1>2, <1>3 DEF Next, Begin, RunCheck, Finish, vars

LEMMA Inductive == Spec => []StepInv
<1>1. Init => StepInv
  BY InitStep DEF Init
<1> QED
  BY <1>1, NextStep, PTL DEF Spec

-----------------------------------------------------------------------------
(* What leaves the machine *)

LEMMA NoLines == <<>> \in Files
BY DEF Files

LEMMA LinesOfMachine == ASSUME NEW mach, IsMachine(mach) PROVE Lines(mach.machine) \in Files
BY NoLines DEF IsMachine, Lines

\* The reader of the section and what the section says agree on the keys of the reader.
LEMMA DelegateRead ==
    ASSUME NEW mach, IsMachine(mach), NEW k \in DelegateKeys
    PROVE  Get(DelegateConfig(mach), k) = Get(DelegateLines(mach), k)
<1> DEFINE says == DelegateLines(mach)
<1>1. DelegateConfig(mach) = [x \in DelegateKeys \cap DOMAIN says |-> says[x]]
  <2>1. BlockIsRead(Lines(mach.machine), "delegate", DelegateKeys)
    BY LinesOfMachine, BlocksAreRead
  <2> QED
    BY <2>1 DEF BlockIsRead, DelegateConfig, DelegateLines
<1> HIDE DEF says
<1>2. Get(DelegateConfig(mach), k) = Get(says, k)
  BY <1>1 DEF Get
<1> QED
  BY <1>2 DEF says

\* A gate that passes was asked on a machine whose user opted in.
LEMMA GateConsents == ASSUME NEW mach, IsMachine(mach), Gate(mach).rc = 0 PROVE Consents(mach)
<1>1. Env(mach, "ADLC_DISABLE_DELEGATE") # "1" /\ OptedIn(mach)
  BY DEF Gate
<1>2. Get(DelegateConfig(mach), "enabled") = Get(DelegateLines(mach), "enabled")
  BY DelegateRead DEF DelegateKeys
<1> QED
  BY <1>1, <1>2 DEF OptedIn, PrintEnabled, DelegationEnabled, LegacyKeyVars, Consents

\* A call that does not refuse read a configuration without a key.
LEMMA NoKeyRead == ASSUME NEW mach, IsMachine(mach), ~Refuses(mach) PROVE ~KeyInConfig(mach)
<1>1. Get(DelegateConfig(mach), "api_key_env") = Get(DelegateLines(mach), "api_key_env")
  BY DelegateRead DEF DelegateKeys
<1> QED
  BY <1>1, KeysType DEF Refuses, LooksLikeKey, KeyInConfig

LEMMA ThreePlaces == ASSUME NEW i \in 1 .. 3 PROVE i = 1 \/ i = 2 \/ i = 3
OBVIOUS

LEMMA TwoBefore == 3 \in 1 .. 3 /\ \A j \in 1 .. 3 - 1 : j = 1 \/ j = 2
OBVIOUS

LEMMA TripleOf == ASSUME NEW a, NEW b, NEW c
                  PROVE  /\ DOMAIN <<a, b, c>> = 1 .. 3
                         /\ <<a, b, c>>[1] = a /\ <<a, b, c>>[2] = b /\ <<a, b, c>>[3] = c
OBVIOUS

LEMMA FirstOfLast == ASSUME NEW e, e = "", NEW x, x # e PROVE FirstOf(<<e, e, x>>) = x
<1> DEFINE s == <<e, e, x>>
           First(i) == s[i] # "" /\ \A j \in 1 .. i - 1 : s[j] = ""
<1>1. DOMAIN s = 1 .. 3 /\ s[1] = e /\ s[2] = e /\ s[3] = x
  <2>1. DOMAIN s = 1 .. 3
    BY TripleOf
  <2>2. s[1] = e
    BY TripleOf
  <2>3. s[2] = e
    BY TripleOf
  <2>4. s[3] = x
    BY TripleOf
  <2> QED
    BY <2>1, <2>2, <2>3, <2>4
<1> HIDE DEF s
<1>2. \A i \in 1 .. 3 : i # 3 => ~First(i)
  BY <1>1, ThreePlaces
<1>3. \A i \in 1 .. 3 : First(i) => i = 3
  BY <1>2
<1>4. 3 \in 1 .. 3 /\ First(3)
  BY <1>1, TwoBefore
<1>5. (CHOOSE i \in DOMAIN s : First(i)) = 3
  <2> HIDE DEF First
  <2> QED
    BY <1>1, <1>3, <1>4
<1>6. FirstOf(s) = s[3]
  BY <1>1, <1>4, <1>5 DEF FirstOf
<1> QED
  BY <1>1, <1>6 DEF s

LEMMA NothingSaid == ASSUME NEW section, NEW known, NEW k PROVE Get(ParseBlock(<<>>, section, known), k) = ""
<1>1. SectionLines(<<>>, section) = {}
  BY DEF SectionLines
<1>2. DOMAIN SectionSays(<<>>, section) = {}
  BY <1>1 DEF SectionSays, LastOf
<1>3. DOMAIN ParseBlock(<<>>, section, known) = {}
  <2>1. BlockIsRead(<<>>, section, known)
    BY NoLines, BlocksAreRead
  <2> DEFINE says == SectionSays(<<>>, section)
  <2>2. ParseBlock(<<>>, section, known) = [x \in known \cap DOMAIN says |-> says[x]]
    BY <2>1 DEF BlockIsRead
  <2> HIDE DEF says
  <2>3. DOMAIN ParseBlock(<<>>, section, known) = known \cap DOMAIN says
    BY <2>2
  <2> QED
    BY <1>2, <2>3 DEF says
<1> QED
  BY <1>3 DEF Get

\* Without any configuration the call goes where it always went.
LEMMA OldWay ==
    ASSUME NEW mach, OldSetup(mach)
    PROVE  ResolveProvider(mach).url = "shipped" /\ ResolveProvider(mach).keyVar = "MOONSHOT_API_KEY"
<1>1. /\ Env(mach, "ADLC_DELEGATE_API_KEY_ENV") = "" /\ Env(mach, "ADLC_DELEGATE_BASE_URL") = ""
      /\ DelegateConfig(mach) = ParseBlock(<<>>, "delegate", DelegateKeys)
  BY DEF OldSetup, DelegateConfig, Lines
<1>2. \A k : Get(DelegateConfig(mach), k) = ""
  BY <1>1, NothingSaid
<1>3. FirstOf(<<"", "", "shipped">>) = "shipped" /\ FirstOf(<<"", "", "MOONSHOT_API_KEY">>) = "MOONSHOT_API_KEY"
  <2>1. FirstOf(<<"", "", "shipped">>) = "shipped"
    BY "shipped" # "", FirstOfLast
  <2>2. FirstOf(<<"", "", "MOONSHOT_API_KEY">>) = "MOONSHOT_API_KEY"
    BY "MOONSHOT_API_KEY" # "", FirstOfLast
  <2> QED
    BY <2>1, <2>2
<1>4. /\ ResolveProvider(mach).url = FirstOf(<<"", "", "shipped">>)
      /\ ResolveProvider(mach).keyVar = FirstOf(<<"", "", "MOONSHOT_API_KEY">>)
  BY <1>1, <1>2 DEF ResolveProvider, DefaultKeyVar
<1> QED
  BY <1>3, <1>4

LEMMA SeenMachine ==
    ASSUME IsMachine(m) PROVE IsMachine(Seen) /\ KeyInConfig(Seen) = KeyInConfig(m)
<1>1. Seen.machine = m.machine /\ Seen.project = m.project /\ DOMAIN Seen = DOMAIN m
  BY DEF IsMachine, Seen
<1> HIDE DEF Seen
<1> QED
  BY <1>1 DEF IsMachine, KeyInConfig, DelegateLines

\* What a step has behind it at each place, once its gate has passed.
SentInv ==
    /\ at \in {"gated"} \cup Calling => did.consented
    /\ at \in {"resolved", "waiting"} =>
           did.keyless /\ (did.today => call.url = "shipped" /\ call.keyVar = "MOONSHOT_API_KEY")
    /\ at \in {"created", "gated", "announced", "resolved"} => ~did.sent
    /\ DOMAIN call = DOMAIN NoCall
    /\ SentOnlyAsOptedIn

LEMMA MachineStep == ASSUME IsMachine(m), [Next]_vars PROVE IsMachine(m')
<1>1. CASE m' = m
  BY <1>1
<1>2. CASE Change
  <2>1. PICK f \in DOMAIN Values : \E v \in Values[f] : m' = [m EXCEPT ![f] = v]
    BY <1>2 DEF Change
  <2>2. PICK v \in Values[f] : m' = [m EXCEPT ![f] = v]
    BY <2>1
  <2>3. f \in {"machine", "project"} => v \in Files \cup {NoConfig}
    BY MachinesType, <2>2
  <2>4. /\ DOMAIN m' = DOMAIN m
        /\ m'.machine = (IF f = "machine" THEN v ELSE m.machine)
        /\ m'.project = (IF f = "project" THEN v ELSE m.project)
    BY <2>2 DEF IsMachine
  <2> QED
    BY <2>3, <2>4 DEF IsMachine
<1> QED
  BY <1>1, <1>2 DEF Next, StepNext, Begin, RunCheck, Finish, vars, CreateFlag, AskGate, Announce, CannotStart,
         CallResolves, CallSends, Answered, Failed, MarkExit, Cut, SupplyPath, Emit, HandEmit, Abandon, machine

LEMMA ExitsCall ==
    ASSUME DOMAIN call = DOMAIN NoCall, NEW c, Exits(c)
    PROVE  DOMAIN call' = DOMAIN NoCall /\ call'.url = call.url /\ call'.keyVar = call.keyVar
BY DEF Exits, NoCall

LEMMA SentStep == ASSUME StepInv, IsMachine(m), SentInv, StepNext PROVE SentInv'
<1> USE DEF SentInv, SentOnlyAsOptedIn
<1>1. CASE CreateFlag
  <2>1. ~did'.sent /\ at' = "created" /\ call' = NoCall
    BY <1>1 DEF CreateFlag, DidNothing, Deeds
  <2> QED
    BY <2>1 DEF Calling
<1>2. CASE AskGate
  <2>1. did'.consented = Consents(m) /\ did'.sent = did.sent
    <3> DEFINE p == Gate(m).rc = 0
               c == Consents(m)
               s == Strays
    <3> SUFFICES did'.consented = c /\ did'.sent = did.sent
      OBVIOUS
    <3>1. did' = [did EXCEPT !.asked = TRUE, !.passed = p, !.consented = c, !.strayed = s]
      BY <1>2 DEF AskGate
    <3> HIDE DEF p, c, s
    <3> QED
      BY <3>1 DEF StepInv, StepTypeOK, Deeds
  <2>2. /\ at = "created" /\ call' = call
        /\ at' = IF Gate(m).rc = 0 THEN "gated" ELSE "called"
    BY <1>2 DEF AskGate
  <2> QED
    BY <2>1, <2>2, GateConsents DEF Calling
<1>3. CASE Announce
  <2>1. at = "gated" /\ at' = "announced" /\ DOMAIN call' = DOMAIN NoCall
    BY <1>3 DEF Announce, NoCall
  <2>2. did'.sent = did.sent /\ did'.consented = did.consented
    BY <1>3, AnnounceDeeds DEF StepInv, StepTypeOK, Deeds
  <2> QED
    BY <2>1, <2>2
<1>4. CASE CannotStart
  <2>1. did'.sent = did.sent /\ did'.consented = did.consented
    BY <1>4 DEF CannotStart, StepInv, StepTypeOK, Deeds
  <2>2. at = "announced" /\ at' = "returned" /\ DOMAIN call' = DOMAIN NoCall
    BY <1>4, ExitsCall DEF CannotStart, Exits
  <2> QED
    BY <2>1, <2>2 DEF Calling
<1>5. CASE CallResolves
  <2> DEFINE k == ~KeyInConfig(m)
             t == OldSetup(Seen)
  <2>1. /\ did'.sent = did.sent /\ did'.consented = did.consented
        /\ did'.keyless = k /\ did'.today = t
    <3>1. did' = [did EXCEPT !.ran = TRUE, !.keyless = k, !.today = t]
      BY <1>5 DEF CallResolves
    <3> HIDE DEF k, t
    <3> QED
      BY <3>1 DEF StepInv, StepTypeOK, Deeds
  <2>2. at = "announced"
    BY <1>5 DEF CallResolves
  <2>3. CASE Refuses(Seen)
    <3>1. at' = "returned" /\ DOMAIN call' = DOMAIN NoCall
      BY <1>5, <2>3, ExitsCall DEF CallResolves, Exits
    <3> QED
      BY <2>1, <2>2, <3>1 DEF Calling
  <2>4. CASE ~Refuses(Seen)
    <3>1. at' = "resolved" /\ DOMAIN call' = DOMAIN NoCall
          /\ call'.url = ResolveProvider(Seen).url /\ call'.keyVar = ResolveProvider(Seen).keyVar
      BY <1>5, <2>4 DEF CallResolves, NoCall
    <3>2. k
      BY <2>4, SeenMachine, NoKeyRead
    <3>3. t => call'.url = "shipped" /\ call'.keyVar = "MOONSHOT_API_KEY"
      BY <3>1, OldWay
    <3> HIDE DEF k, t
    <3> QED
      BY <2>1, <2>2, <3>1, <3>2, <3>3 DEF Calling
  <2> QED
    BY <2>3, <2>4
<1>6. CASE CallSends
  <2>1. at = "resolved"
    BY <1>6 DEF CallSends
  <2>2. CASE at' = "waiting" /\ did' = [did EXCEPT !.sent = TRUE] /\ call' = call
    BY <2>1, <2>2 DEF StepInv, StepTypeOK, Deeds, Calling
  <2>3. CASE Exits("1") /\ did' = did
    <3>1. at' = "returned" /\ DOMAIN call' = DOMAIN NoCall
      BY <2>3, ExitsCall DEF Exits
    <3> QED
      BY <2>1, <2>3, <3>1 DEF Calling
  <2> QED
    BY <1>6, <2>2, <2>3 DEF CallSends
<1>7. CASE Answered \/ Failed
  <2>1. /\ did'.sent = did.sent /\ did'.consented = did.consented
        /\ did'.keyless = did.keyless /\ did'.today = did.today
    BY <1>7 DEF Answered, Failed, StepInv, StepTypeOK, Deeds
  <2>2. /\ at = "waiting" /\ at' = "returned" /\ DOMAIN call' = DOMAIN NoCall
        /\ call'.url = call.url /\ call'.keyVar = call.keyVar
    BY <1>7, ExitsCall DEF Answered, Failed, Exits
  <2> QED
    BY <2>1, <2>2 DEF Calling
<1>8. CASE Cut
  <2>1. /\ did'.sent = did.sent /\ did'.consented = did.consented
        /\ did'.keyless = did.keyless /\ did'.today = did.today
    BY <1>8 DEF Cut, StepInv, StepTypeOK, Deeds
  <2>2. at \in Calling /\ at' = "called" /\ call' = call
    BY <1>8 DEF Cut
  <2> QED
    BY <2>1, <2>2 DEF Calling
<1>9. CASE MarkExit \/ SupplyPath \/ Emit \/ HandEmit \/ Abandon
  BY <1>9 DEF MarkExit, SupplyPath, Emit, HandEmit, Abandon, Calling
<1> QED
  BY <1>1, <1>2, <1>3, <1>4, <1>5, <1>6, <1>7, <1>8, <1>9 DEF StepNext

LEMMA SentInductive == Spec => [](IsMachine(m) /\ SentInv)
<1>1. Init => IsMachine(m) /\ SentInv
  BY MachinesType DEF Init, StepInit, SentInv, SentOnlyAsOptedIn, Calling, DidNothing, Deeds
<1>2. StepInv /\ (IsMachine(m) /\ SentInv) /\ [Next]_vars => (IsMachine(m) /\ SentInv)'
  <2> SUFFICES ASSUME StepInv, IsMachine(m), SentInv, [Next]_vars PROVE SentInv'
    BY MachineStep
  <2>1. CASE StepNext
    BY <2>1, SentStep
  <2>2. CASE UNCHANGED step
    BY <2>2 DEF step, SentInv, SentOnlyAsOptedIn
  <2> QED
    BY <2>1, <2>2 DEF Next, Begin, RunCheck, Finish, vars, Change
<1> QED
  BY <1>1, <1>2, Inductive, PTL DEF Spec

-----------------------------------------------------------------------------
(* The run of doctor *)

Results == {"PASS", "FAIL", "SKIP"}
Outcomes == [id : Range(Registry), result : Results, raised : BOOLEAN]

RunTypes ==
    /\ place \in {"idle", "checking", "done"} /\ entry \in Entries /\ only \in Requests
    /\ code \in {0, 1, 2, NoCode} /\ (place = "done" <=> code # NoCode)
    /\ still \in BOOLEAN
    /\ registry \in {<<>>, Registry} /\ turn \in 1 .. Len(registry) + 1
    /\ outcomes \in Seq(Outcomes)

\* The report holds the checks that were asked for among those the loop has passed.
Reported ==
    /\ \A i \in DOMAIN outcomes : \E k \in 1 .. turn - 1 : registry[k] = outcomes[i].id /\ Asked(registry[k])
    /\ \A k \in 1 .. turn - 1 : Asked(registry[k]) => \E i \in DOMAIN outcomes : outcomes[i].id = registry[k]
    /\ \A i, j \in DOMAIN outcomes : i < j => Position(outcomes[i].id) < Position(outcomes[j].id)
    /\ code \in {0, 1} => \A k \in turn .. Len(registry) : ~Asked(registry[k])

\* What it says is so as long as nothing changes, and a good verdict rests on it.
Faithful ==
    /\ still /\ place # "idle" =>
           registry = Available /\ \A i \in DOMAIN outcomes : outcomes[i] = Outcome(outcomes[i].id)
    /\ code = 0 /\ entry = "adlc" => \A i \in DOMAIN outcomes : outcomes[i].result # "FAIL"

RunInv == RunTypes /\ Reported /\ Faithful

LEMMA RegistryPlaces ==
    /\ Len(Registry) = 12 /\ DOMAIN Registry = 1 .. 12
    /\ Registry[1] = "skills-symlink" /\ Registry[2] = "agents-symlink" /\ Registry[3] = "toolkit-clean"
    /\ Registry[4] = "path-shims" /\ Registry[5] = "gh-present" /\ Registry[6] = "forge"
    /\ Registry[7] = "git-identity" /\ Registry[8] = "delegate-gate" /\ Registry[9] = "counters"
    /\ Registry[10] = "launchctl" /\ Registry[11] = "template-version" /\ Registry[12] = "claude-code"
BY DEF Registry

LEMMA TwelvePlaces ==
    ASSUME NEW k \in 1 .. 12
    PROVE  k = 1 \/ k = 2 \/ k = 3 \/ k = 4 \/ k = 5 \/ k = 6 \/ k = 7 \/ k = 8 \/ k = 9 \/ k = 10 \/ k = 11 \/ k = 12
OBVIOUS

LEMMA OnePosition == ASSUME NEW i \in 1 .. 12, NEW j \in 1 .. 12, Registry[i] = Registry[j] PROVE i = j
BY RegistryPlaces, TwelvePlaces

LEMMA PositionOf == ASSUME NEW k \in 1 .. 12 PROVE Position(Registry[k]) = k
<1>1. k \in DOMAIN Registry /\ Registry[k] = Registry[k]
  BY RegistryPlaces
<1>2. \A j \in DOMAIN Registry : Registry[j] = Registry[k] => j = k
  BY RegistryPlaces, OnePosition
<1> QED
  BY <1>1, <1>2 DEF Position

LEMMA CheckResults == ASSUME NEW id \in Range(Registry) PROVE Check(id) \in Results
<1>1. PICK k \in 1 .. 12 : id = Registry[k]
  BY RegistryPlaces DEF Range
<1>2. id \in {"skills-symlink", "agents-symlink", "toolkit-clean", "path-shims", "gh-present", "forge",
              "git-identity", "delegate-gate", "counters", "launchctl", "template-version", "claude-code"}
  BY <1>1, RegistryPlaces, TwelvePlaces
<1>3. CheckForge \in Results /\ CheckCounters \in Results /\ CheckLaunchctl \in Results
  BY DEF CheckForge, CheckCounters, CheckLaunchctl, PassIf, Results
<1>4. CheckDelegateGate \in Results
  <2>1. Gate(m).rc = 0 \/ Gate(m).rc = 1 \/ Gate(m).rc = 2
    BY DEF Gate
  <2> DEFINE rc == Gate(m).rc
  <2> HIDE DEF rc
  <2>2. CheckDelegateGate = IF "partials" \notin m.has THEN "FAIL"
                            ELSE CASE rc = 0 -> "PASS" [] rc = 1 -> "SKIP"
                                   [] rc = 2 -> IF ConfigEnabled THEN "FAIL" ELSE "SKIP"
    BY DEF CheckDelegateGate, rc
  <2>3. rc = 0 \/ rc = 1 \/ rc = 2
    BY <2>1 DEF rc
  <2> QED
    BY <2>2, <2>3 DEF Results
<1> QED
  BY <1>2, <1>3, <1>4 DEF Check, PassIf, PassOrSkip, Results

LEMMA OutcomeType == ASSUME NEW id \in Range(Registry) PROVE Outcome(id) \in Outcomes /\ Outcome(id).id = id
BY CheckResults DEF Outcome, Outcomes, Results

LEMMA InitRun == Init => RunInv
<1> SUFFICES ASSUME Init PROVE RunInv
  OBVIOUS
<1>1. outcomes = <<>> /\ registry = <<>> /\ turn = 1 /\ place = "idle" /\ code = NoCode /\ still = TRUE
      /\ entry \in Entries /\ only = NoFilter
  BY DEF Init
<1>2. Len(registry) = 0 /\ DOMAIN outcomes = {} /\ outcomes \in Seq(Outcomes)
  BY <1>1
<1>3. RunTypes
  BY <1>1, <1>2, RequestsType DEF RunTypes, NoCode
<1>4. \A k \in 1 .. turn - 1 : FALSE
  BY <1>1
<1>5. Reported
  BY <1>1, <1>2, <1>4 DEF Reported, NoCode
<1>6. Faithful
  BY <1>1, <1>2 DEF Faithful, NoCode
<1> QED
  BY <1>3, <1>5, <1>6 DEF RunInv

LEMMA BeginStep == ASSUME RunInv, NEW e \in Entries, NEW o \in Requests, Begin(e, o) PROVE RunInv'
<1>1. /\ entry' = e /\ only' = o /\ outcomes' = <<>> /\ still' = TRUE /\ registry' = Available /\ turn' = 1
      /\ (place' = "done" /\ code' = 2) \/ (place' = "checking" /\ code' = NoCode)
      /\ m' = m
  <2>1. IF o # NoFilter /\ ~(Range(o) \subseteq Range(Available))
        THEN place' = "done" /\ code' = 2 ELSE place' = "checking" /\ code' = NoCode
    BY DEF Begin
  <2> QED
    BY <2>1 DEF Begin, machine
<1>2. DOMAIN outcomes' = {} /\ outcomes' \in Seq(Outcomes) /\ \A k \in 1 .. turn' - 1 : FALSE
  BY <1>1
<1>3. registry' \in {<<>>, Registry} /\ turn' \in 1 .. Len(registry') + 1
  BY <1>1, RegistryPlaces DEF Available
<1>4. Available' = Available
  BY <1>1 DEF Available
<1>5. RunTypes'
  BY <1>1, <1>2, <1>3 DEF RunTypes, NoCode
<1>6. Reported'
  BY <1>1, <1>2 DEF Reported, NoCode
<1>7. Faithful'
  BY <1>1, <1>2, <1>4 DEF Faithful, NoCode
<1> QED
  BY <1>5, <1>6, <1>7 DEF RunInv

LEMMA CheckStep == ASSUME RunInv, RunCheck PROVE RunInv'
<1>1. PICK k \in turn .. Len(registry) :
          /\ Asked(registry[k]) /\ \A j \in turn .. k - 1 : ~Asked(registry[j])
          /\ outcomes' = Append(outcomes, Outcome(registry[k]))
          /\ turn' = k + 1
  BY DEF RunCheck
<1>2. /\ UNCHANGED <<m, place, entry, only, registry, code, still>> /\ place = "checking"
  BY DEF RunCheck, machine
<1>3. registry \in {<<>>, Registry} /\ turn \in 1 .. Len(registry) + 1 /\ outcomes \in Seq(Outcomes)
  BY DEF RunInv, RunTypes
<1>4. registry = Registry /\ Len(registry) = 12 /\ turn \in 1 .. 13
  <2>1. Len(<<>>) = 0
    OBVIOUS
  <2>2. registry # <<>>
    BY <1>3, <2>1
  <2>3. registry = Registry /\ Len(registry) = 12
    BY <1>3, <2>2, RegistryPlaces
  <2> QED
    BY <1>3, <2>3
<1>5. k \in 1 .. 12 /\ turn <= k /\ turn \in Nat /\ k \in Nat
  BY <1>4
<1> DEFINE id == registry[k]
           n == Len(outcomes)
           new == Outcome(id)
<1>6. id \in Range(Registry)
  BY <1>4, <1>5, RegistryPlaces DEF Range
<1>7. new \in Outcomes /\ new.id = id
  BY <1>6, OutcomeType
<1> HIDE DEF new
<1>8. n \in Nat /\ DOMAIN outcomes = 1 .. n
  BY <1>3
<1>9. /\ outcomes' \in Seq(Outcomes) /\ DOMAIN outcomes' = 1 .. n + 1
      /\ outcomes'[n + 1] = new /\ \A i \in 1 .. n : outcomes'[i] = outcomes[i]
  <2> HIDE DEF id
  <2>1. outcomes' = Append(outcomes, new)
    BY <1>1 DEF new, id
  <2> DEFINE T == Outcomes
  <2>2. outcomes \in Seq(T) /\ new \in T
    BY <1>3, <1>7
  <2> SUFFICES outcomes' \in Seq(T) /\ DOMAIN outcomes' = 1 .. n + 1
               /\ outcomes'[n + 1] = new /\ \A i \in 1 .. n : outcomes'[i] = outcomes[i]
    OBVIOUS
  <2> HIDE DEF T
  <2> QED
    BY <2>1, <2>2
<1>10. RunTypes'
  <2>1. turn' \in 1 .. Len(registry') + 1
    BY <1>1, <1>2, <1>4, <1>5
  <2> QED
    BY <1>2, <1>9, <2>1 DEF RunInv, RunTypes
<1>11. Asked(id)' = Asked(id) /\ \A j \in 1 .. 12 : Asked(registry[j])' = Asked(registry[j])
  BY <1>2 DEF Asked
<1> HIDE DEF id
<1>12. ASSUME NEW i \in 1 .. n PROVE \E j \in 1 .. turn - 1 : registry[j] = outcomes[i].id /\ Asked(registry[j])
  BY <1>8 DEF RunInv, Reported
<1>13. ASSUME NEW i \in DOMAIN outcomes'
       PROVE \E j \in 1 .. turn' - 1 : registry'[j] = outcomes'[i].id /\ Asked(registry[j])'
  <2>1. CASE i = n + 1
    <3>1. k \in 1 .. turn' - 1
      BY <1>1, <1>5
    <3> QED
      BY <1>1, <1>2, <1>7, <1>9, <1>11, <2>1, <3>1 DEF id
  <2>2. CASE i # n + 1
    <3>1. i \in 1 .. n
      BY <1>8, <1>9, <2>2
    <3>2. PICK j \in 1 .. turn - 1 : registry[j] = outcomes[i].id /\ Asked(registry[j])
      BY <1>12, <3>1
    <3>3. j \in 1 .. turn' - 1 /\ j \in 1 .. 12
      BY <1>1, <1>5
    <3> QED
      BY <1>2, <1>9, <1>11, <3>1, <3>2, <3>3
  <2> QED
    BY <2>1, <2>2
<1>14. ASSUME NEW j \in 1 .. turn' - 1, Asked(registry[j])'
       PROVE \E i \in DOMAIN outcomes' : outcomes'[i].id = registry'[j]
  <2>1. j \in 1 .. k /\ j \in 1 .. 12
    BY <1>1, <1>5
  <2>2. CASE j = k
    <3>1. n + 1 \in DOMAIN outcomes'
      BY <1>8, <1>9
    <3> QED
      BY <1>2, <1>7, <1>9, <2>2, <3>1 DEF id
  <2>3. CASE j # k
    <3>1. j \in turn .. k - 1 \/ j \in 1 .. turn - 1
      BY <1>5, <2>1, <2>3
    <3>2. Asked(registry[j])
      BY <1>11, <1>14, <2>1
    <3>3. j \in 1 .. turn - 1
      BY <1>1, <3>1, <3>2
    <3>4. PICK i \in DOMAIN outcomes : outcomes[i].id = registry[j]
      BY <3>2, <3>3 DEF RunInv, Reported
    <3>5. i \in 1 .. n /\ i \in DOMAIN outcomes'
      BY <1>8, <1>9
    <3> QED
      BY <1>2, <1>9, <3>4, <3>5
  <2> QED
    BY <2>2, <2>3
<1>15. ASSUME NEW i \in DOMAIN outcomes', NEW j \in DOMAIN outcomes', i < j
       PROVE Position(outcomes'[i].id) < Position(outcomes'[j].id)
  <2>1. i \in 1 .. n
    BY <1>8, <1>9, <1>15
  <2>2. CASE j = n + 1
    <3>1. PICK h \in 1 .. turn - 1 : registry[h] = outcomes[i].id
      BY <1>12, <2>1
    <3>2. h \in 1 .. 12 /\ h < k
      BY <1>5
    <3>3. Position(outcomes'[i].id) = h
      BY <1>4, <1>9, <2>1, <3>1, <3>2, PositionOf
    <3>4. Position(outcomes'[j].id) = k
      BY <1>4, <1>5, <1>7, <1>9, <2>2, PositionOf DEF id
    <3> QED
      BY <3>2, <3>3, <3>4
  <2>3. CASE j # n + 1
    <3>1. j \in 1 .. n
      BY <1>8, <1>9, <2>3
    <3>2. Position(outcomes[i].id) < Position(outcomes[j].id)
      BY <1>8, <1>15, <2>1, <3>1 DEF RunInv, Reported
    <3> QED
      BY <1>9, <2>1, <3>1, <3>2
  <2> QED
    BY <2>2, <2>3
<1>16. code' = NoCode
  BY <1>2 DEF RunInv, RunTypes
<1>17. Reported'
  BY <1>13, <1>14, <1>15, <1>16 DEF Reported, NoCode, Position
<1>18. Faithful'
  <2>1. \A x : Outcome(x)' = Outcome(x) /\ Available' = Available
    BY <1>2 DEF Outcome, Raises, Check, Available, CheckForge, CheckDelegateGate, CheckCounters, CheckLaunchctl,
                ConfigEnabled, PatIsSet
  <2>2. ASSUME still, NEW i \in DOMAIN outcomes' PROVE outcomes'[i] = Outcome(outcomes'[i].id)
    <3>1. CASE i = n + 1
      BY <1>7, <1>9, <3>1 DEF new
    <3>2. CASE i # n + 1
      <4>1. i \in 1 .. n
        BY <1>8, <1>9, <3>2
      <4> QED
        BY <1>2, <1>8, <1>9, <2>2, <4>1 DEF RunInv, Faithful
    <3> QED
      BY <3>1, <3>2
  <2>3. still => registry = Available
    BY <1>2 DEF RunInv, Faithful
  <2> QED
    BY <1>2, <1>16, <2>1, <2>2, <2>3 DEF Faithful, NoCode
<1> QED
  BY <1>10, <1>17, <1>18 DEF RunInv

LEMMA FinishStep == ASSUME RunInv, Finish PROVE RunInv'
<1>1. /\ place = "checking" /\ place' = "done" /\ \A k \in turn .. Len(registry) : ~Asked(registry[k])
      /\ code' = IF \E i \in DOMAIN outcomes : CountsAsFail(outcomes[i]) THEN 1 ELSE 0
      /\ UNCHANGED <<m, entry, only, registry, turn, outcomes, still>>
  BY DEF Finish, machine
<1>2. code' \in {0, 1}
  BY <1>1
<1>3. RunTypes'
  BY <1>1, <1>2 DEF RunInv, RunTypes, NoCode
<1>4. Reported'
  BY <1>1 DEF RunInv, Reported, Asked, Position
<1>5. \A x : Outcome(x)' = Outcome(x) /\ Available' = Available
  BY <1>1 DEF Outcome, Raises, Check, Available, CheckForge, CheckDelegateGate, CheckCounters, CheckLaunchctl,
              ConfigEnabled, PatIsSet
<1>6. code' = 0 /\ entry' = "adlc" => \A i \in DOMAIN outcomes' : outcomes'[i].result # "FAIL"
  BY <1>1 DEF CountsAsFail
<1>7. Faithful'
  BY <1>1, <1>5, <1>6 DEF RunInv, Faithful
<1> QED
  BY <1>3, <1>4, <1>7 DEF RunInv

LEMMA ReportSame ==
    ASSUME Reported, UNCHANGED <<only, registry, turn, outcomes, code>> PROVE Reported'
<1>1. \A x : Asked(x)' = Asked(x)
  BY DEF Asked
<1>2. \A i \in DOMAIN outcomes : \E k \in 1 .. turn - 1 : registry[k] = outcomes[i].id /\ Asked(registry[k])'
  BY <1>1 DEF Reported
<1>3. \A k \in 1 .. turn - 1 : Asked(registry[k])' => \E i \in DOMAIN outcomes : outcomes[i].id = registry[k]
  BY <1>1 DEF Reported
<1>4. code \in {0, 1} => \A k \in turn .. Len(registry) : ~Asked(registry[k])'
  BY <1>1 DEF Reported
<1>5. \A i, j \in DOMAIN outcomes : i < j => Position(outcomes[i].id) < Position(outcomes[j].id)
  BY DEF Reported
<1> QED
  BY <1>2, <1>3, <1>4, <1>5 DEF Reported, Position, Asked

LEMMA RunSame == ASSUME RunInv, UNCHANGED doctor, m' = m PROVE RunInv'
<1>1. UNCHANGED <<place, entry, only, registry, turn, outcomes, code, still>>
  BY DEF doctor
<1>2. RunTypes' /\ Reported'
  BY <1>1, ReportSame DEF RunInv, RunTypes
<1>3. \A x : Outcome(x)' = Outcome(x) /\ Available' = Available
  BY DEF Outcome, Raises, Check, Available, CheckForge, CheckDelegateGate, CheckCounters, CheckLaunchctl,
         ConfigEnabled, PatIsSet
<1>4. Faithful'
  BY <1>1, <1>3 DEF RunInv, Faithful
<1> QED
  BY <1>2, <1>4 DEF RunInv

LEMMA RunInductive == Spec => []RunInv
<1>1. RunInv /\ [Next]_vars => RunInv'
  <2> SUFFICES ASSUME RunInv, [Next]_vars PROVE RunInv'
    OBVIOUS
  <2>1. CASE StepNext /\ UNCHANGED doctor
    <3>1. m' = m
      BY <2>1 DEF StepNext, CreateFlag, AskGate, Announce, CannotStart, CallResolves, CallSends, Answered, Failed,
                  MarkExit, Cut, SupplyPath, Emit, HandEmit, Abandon, machine
    <3> QED
      BY <2>1, <3>1, RunSame
  <2>2. CASE UNCHANGED vars
    BY <2>2, RunSame DEF vars, machine
  <2>3. CASE Change /\ still' = FALSE /\ UNCHANGED <<place, entry, only, registry, turn, outcomes, code>>
    <3>1. Reported'
      BY <2>3, ReportSame DEF RunInv
    <3> QED
      BY <2>3, <3>1 DEF RunInv, RunTypes, Faithful
  <2> QED
    BY <2>1, <2>2, <2>3, BeginStep, CheckStep, FinishStep DEF Next
<1> QED
  BY <1>1, InitRun, PTL DEF Spec

-----------------------------------------------------------------------------
(* What a good verdict means *)

\* An approved report covers the registry as it is, each check it asked for passed or
\* was skipped, and the machine still answers them so.
LEMMA ApprovedReport ==
    ASSUME RunInv, Approved
    PROVE  /\ registry = Registry
           /\ \A i \in DOMAIN outcomes : \E k \in 1 .. 12 : Registry[k] = outcomes[i].id /\ Asked(Registry[k])
           /\ \A k \in 1 .. 12 : Asked(Registry[k]) =>
                  /\ \E i \in DOMAIN outcomes : outcomes[i].id = Registry[k]
                  /\ ~Raises(Registry[k]) /\ Check(Registry[k]) # "FAIL"
<1>1. /\ place = "done" /\ code = 0 /\ entry = "adlc" /\ still /\ registry = Registry
      /\ \A i \in DOMAIN outcomes : outcomes[i] = Outcome(outcomes[i].id) /\ outcomes[i].result # "FAIL"
  BY DEF Approved, RunInv, Faithful, Available
<1>2. Len(registry) = 12 /\ turn \in 1 .. 13
  BY <1>1, RegistryPlaces DEF RunInv, RunTypes
<1>3. \A k \in turn .. 12 : ~Asked(registry[k])
  BY <1>1, <1>2 DEF RunInv, Reported
<1>4. ASSUME NEW i \in DOMAIN outcomes PROVE \E k \in 1 .. 12 : Registry[k] = outcomes[i].id /\ Asked(Registry[k])
  <2>1. PICK k \in 1 .. turn - 1 : registry[k] = outcomes[i].id /\ Asked(registry[k])
    BY DEF RunInv, Reported
  <2>2. k \in 1 .. 12
    BY <1>2
  <2> QED
    BY <1>1, <2>1, <2>2
<1>5. ASSUME NEW k \in 1 .. 12, Asked(Registry[k])
      PROVE /\ \E i \in DOMAIN outcomes : outcomes[i].id = Registry[k]
            /\ ~Raises(Registry[k]) /\ Check(Registry[k]) # "FAIL"
  <2>1. k \in turn .. 12 \/ k \in 1 .. turn - 1
    BY <1>2
  <2>2. k \in 1 .. turn - 1
    BY <1>1, <1>3, <1>5, <2>1
  <2>3. PICK i \in DOMAIN outcomes : outcomes[i].id = Registry[k]
    BY <1>1, <1>5, <2>2 DEF RunInv, Reported
  <2>4. Outcome(Registry[k]).result # "FAIL"
    BY <1>1, <2>3
  <2> QED
    BY <2>3, <2>4 DEF Outcome
<1> QED
  BY <1>1, <1>4, <1>5

LEMMA PairOf == ASSUME NEW f, f = [i \in 1 .. 2 |-> f[i]]
                PROVE FirstOf(f) = IF f[1] # "" THEN f[1] ELSE f[2]
<1> DEFINE First(i) == f[i] # "" /\ \A j \in 1 .. i - 1 : f[j] = ""
<1>1. DOMAIN f = 1 .. 2
  OBVIOUS
<1>2. \A i \in 1 .. 2 : i = 1 \/ i = 2
  OBVIOUS
<1>3. 1 \in 1 .. 2 /\ 2 \in 1 .. 2 /\ 1 \in 1 .. 2 - 1 /\ (\A j \in 1 .. 1 - 1 : FALSE) /\ \A j \in 1 .. 2 - 1 : j = 1
  OBVIOUS
<1>4. CASE f[1] # ""
  <2>1. First(1) /\ \A i \in 1 .. 2 : First(i) => i = 1
    BY <1>2, <1>3, <1>4
  <2>2. (CHOOSE i \in DOMAIN f : First(i)) = 1
    <3> HIDE DEF First
    <3> QED
      BY <1>1, <1>3, <2>1
  <2> QED
    BY <1>1, <1>3, <1>4, <2>2 DEF FirstOf
<1>5. CASE f[1] = "" /\ f[2] # ""
  <2>1. First(2) /\ \A i \in 1 .. 2 : First(i) => i = 2
    BY <1>2, <1>3, <1>5
  <2>2. (CHOOSE i \in DOMAIN f : First(i)) = 2
    <3> HIDE DEF First
    <3> QED
      BY <1>1, <1>3, <2>1
  <2> QED
    BY <1>1, <1>3, <1>5, <2>2 DEF FirstOf
<1>6. CASE f[1] = "" /\ f[2] = ""
  <2>1. FirstOf(f) = ""
    BY <1>1, <1>2, <1>6 DEF FirstOf
  <2> QED
    BY <1>6, <2>1
<1> QED
  BY <1>4, <1>5, <1>6

\* The Python reader and the section agree on the provider, and on the variable.
LEMMA ForgeRead ==
    ASSUME NEW c \in Files \cup {NoConfig}
    PROVE  /\ Get(ForgeConfig(c), "provider") = Get(SectionSays(Lines(c), "forge"), "provider")
           /\ Get(ForgeConfig(c), "auth") = Get(SectionSays(Lines(c), "forge"), "auth")
<1> DEFINE says == SectionSays(Lines(c), "forge")
<1>1. BlockIsRead(Lines(c), "forge", {"provider", "auth"})
  BY NoLines, BlocksAreRead DEF Lines
<1>2. ForgeConfig(c) = [x \in {"provider", "auth"} \cap DOMAIN says |-> says[x]]
  BY <1>1 DEF BlockIsRead, ForgeConfig
<1> HIDE DEF says
<1>3. /\ Get(ForgeConfig(c), "provider") = Get(says, "provider")
      /\ Get(ForgeConfig(c), "auth") = Get(says, "auth")
  BY <1>2 DEF Get
<1> QED
  BY <1>3 DEF says

LEMMA NothingWanted == ForgeSays(NoConfig) = ""
<1>1. Get(ForgeConfig(NoConfig), "provider") = ""
  BY NothingSaid DEF ForgeConfig, Lines
<1>2. Lower(Get(SectionSays(Lines(NoConfig), "forge"), "provider")) = ""
  BY <1>1, ForgeRead DEF Lower
<1> QED
  BY <1>2 DEF ForgeSays

LEMMA PythonWants ==
    ASSUME IsMachine(m)
    PROVE  LET said == IF ForgeSays(m.project) # "" THEN ForgeSays(m.project) ELSE ForgeSays(m.machine)
           IN  PythonProvider(m) = IF said = "" THEN DetectProvider(m.origin)
                                   ELSE IF said \in {"github", "azure-devops"} THEN said ELSE "error"
<1> DEFINE Says(c) == LET p == Lower(Get(ForgeConfig(c), "provider")) IN IF p = "auto" THEN "" ELSE p
           f == [i \in 1 .. 2 |-> Says(IF i = 1 THEN m.project ELSE m.machine)]
<1>1. Says(m.project) = ForgeSays(m.project) /\ Says(m.machine) = ForgeSays(m.machine)
  BY ForgeRead DEF IsMachine, ForgeSays
<1>2. f = [i \in 1 .. 2 |-> f[i]] /\ f[1] = Says(m.project) /\ f[2] = Says(m.machine)
  OBVIOUS
<1>3. PythonProvider(m) = LET said == FirstOf(f)
                          IN IF said = "" THEN DetectProvider(m.origin)
                             ELSE IF said \in {"github", "azure-devops"} THEN said ELSE "error"
  BY DEF PythonProvider
<1> HIDE DEF f, Says
<1>4. FirstOf(f) = IF ForgeSays(m.project) # "" THEN ForgeSays(m.project) ELSE ForgeSays(m.machine)
  BY <1>1, <1>2, PairOf
<1> QED
  BY <1>3, <1>4

LEMMA PatNamed == ASSUME IsMachine(m), PatIsSet(m) PROVE AzureLogin
<1>1. Get(ForgeConfig(m.project), "auth") = Get(SectionSays(Lines(m.project), "forge"), "auth")
  BY ForgeRead DEF IsMachine
<1> QED
  BY <1>1 DEF PatIsSet, AzureLogin

\* The shell ends up with the forge that is wanted, or with none.
LEMMA ShellWants ==
    ASSUME IsMachine(m), Env(m, "ADLC_FORGE_PROVIDER_OVERRIDE") = "", Env(m, "ADLC_FORGE_MOCK") # "1",
           {m.project, m.machine} = {NoConfig} => PlainOrigin,
           NEW forge \in {"github", "azure-devops"}, ForgeWanted = forge
    PROVE  ShellProvider(m) \in {forge, "error"}
<1>1. GithubHosts \cap AzureHosts = {}
  BY DEF GithubHosts, AzureHosts
<1> DEFINE said == IF ForgeSays(m.project) # "" THEN ForgeSays(m.project) ELSE ForgeSays(m.machine)
<1>2. said = forge \/ (said = "" /\ DetectProvider(m.origin) = forge)
  BY <1>1 DEF ForgeWanted, DetectProvider
<1>3. CASE m.project # NoConfig \/ m.machine # NoConfig
  <2>1. PythonProvider(m) = forge
    BY <1>2, PythonWants
  <2> QED
    BY <1>3, <2>1 DEF ShellProvider
<1>4. CASE m.project = NoConfig /\ m.machine = NoConfig
  <2>1. said = "" /\ PlainOrigin
    BY <1>4, NothingWanted
  <2>2. DetectProvider(m.origin) = forge
    BY <1>2, <2>1
  <2>3. ShellProvider(m) = IF "github.com" \in m.origin.has THEN "github"
                           ELSE IF m.origin.has # {} THEN "azure-devops" ELSE "error"
    BY <1>4 DEF ShellProvider
  <2> QED
    BY <1>1, <2>1, <2>2, <2>3 DEF DetectProvider, PlainOrigin
<1> QED
  BY <1>3, <1>4

LEMMA ForgeUsable ==
    ASSUME CheckForge # "FAIL", m.remote, IsMachine(m)
    PROVE  /\ ShellProvider(m) = "github" => {"gh", "gh-login"} \subseteq m.has
           /\ ShellProvider(m) = "azure-devops" => "az" \in m.has /\ AzureLogin
           /\ ShellProvider(m) # "error"
<1> DEFINE p == ShellProvider(m)
<1>1. "partials" \in m.has
      /\ (CASE p = "github" -> PassIf({"gh", "gh-login"} \subseteq m.has)
            [] p = "azure-devops" -> PassIf("az" \in m.has /\ ("az-login" \in m.has \/ PatIsSet(m)))
            [] OTHER -> "FAIL") # "FAIL"
  BY DEF CheckForge
<1> SUFFICES /\ p = "github" => {"gh", "gh-login"} \subseteq m.has
             /\ p = "azure-devops" => "az" \in m.has /\ AzureLogin
             /\ p # "error"
  OBVIOUS
<1> HIDE DEF p
<1>2. CASE p = "github"
  BY <1>1, <1>2 DEF PassIf
<1>3. CASE p = "azure-devops"
  <2>1. "az" \in m.has /\ ("az-login" \in m.has \/ PatIsSet(m))
    BY <1>1, <1>3 DEF PassIf
  <2>2. AzureLogin
    BY <2>1, PatNamed DEF AzureLogin
  <2> QED
    BY <1>3, <2>1, <2>2
<1>4. CASE p \notin {"github", "azure-devops"}
  BY <1>1, <1>4
<1> QED
  BY <1>2, <1>3, <1>4

LEMMA Usable == ASSUME RunInv, IsMachine(m) PROVE OkMeansUsable
<1> SUFFICES ASSUME Approved
             PROVE /\ Asked("forge") /\ m.remote
                      /\ Env(m, "ADLC_FORGE_PROVIDER_OVERRIDE") = "" /\ Env(m, "ADLC_FORGE_MOCK") # "1"
                      /\ ({m.project, m.machine} = {NoConfig} => PlainOrigin)
                      => /\ ForgeWanted = "github" => {"gh", "gh-login"} \subseteq m.has
                         /\ ForgeWanted = "azure-devops" => "az" \in m.has /\ AzureLogin
                   /\ Asked("git-identity") => {"git", "git-name", "git-email"} \subseteq m.has
                   /\ Asked("counters") => \A c \in DOMAIN m.counters :
                          m.counters[c] # "other" /\ m.locks[c] # "old"
                   /\ {outcomes[i].id : i \in DOMAIN outcomes} = {id \in Range(Registry) : Asked(id)}
                   /\ \A i, j \in DOMAIN outcomes :
                          i < j => Position(outcomes[i].id) < Position(outcomes[j].id)
  BY DEF OkMeansUsable
<1>1. ASSUME Asked("forge"), m.remote,
             Env(m, "ADLC_FORGE_PROVIDER_OVERRIDE") = "", Env(m, "ADLC_FORGE_MOCK") # "1",
             {m.project, m.machine} = {NoConfig} => PlainOrigin
      PROVE /\ ForgeWanted = "github" => {"gh", "gh-login"} \subseteq m.has
            /\ ForgeWanted = "azure-devops" => "az" \in m.has /\ AzureLogin
  <2>1. Check("forge") # "FAIL"
    <3>1. 6 \in 1 .. 12 /\ Registry[6] = "forge"
      BY RegistryPlaces
    <3> QED
      BY <1>1, <3>1, ApprovedReport
  <2>2. CheckForge # "FAIL"
    BY <2>1 DEF Check
  <2> QED
    BY <1>1, <2>2, ShellWants, ForgeUsable
<1>2. ASSUME Asked("git-identity") PROVE {"git", "git-name", "git-email"} \subseteq m.has
  <2>1. ~Raises("git-identity") /\ Check("git-identity") # "FAIL"
    BY <1>2, ApprovedReport, RegistryPlaces
  <2> QED
    BY <2>1 DEF Raises, Check, PassIf
<1>3. ASSUME Asked("counters"), NEW c \in DOMAIN m.counters PROVE m.counters[c] # "other" /\ m.locks[c] # "old"
  <2>1. Check("counters") # "FAIL"
    BY <1>3, ApprovedReport, RegistryPlaces
  <2>2. CheckCounters # "FAIL"
    BY <2>1 DEF Check
  <2> QED
    BY <2>2 DEF CheckCounters, PassIf
<1>4. {outcomes[i].id : i \in DOMAIN outcomes} = {id \in Range(Registry) : Asked(id)}
  BY ApprovedReport, RegistryPlaces DEF Range
<1>5. \A i, j \in DOMAIN outcomes : i < j => Position(outcomes[i].id) < Position(outcomes[j].id)
  BY DEF RunInv, Reported
<1> QED
  BY <1>1, <1>2, <1>3, <1>4, <1>5

LEMMA LowerEmpty == Lower("") = "" /\ "" \notin TrueWords
BY DEF Lower, TrueWords

LEMMA GateOpens ==
    ASSUME RunInv, IsMachine(m), Approved, Asked("delegate-gate"), DelegationWanted
    PROVE  Gate(m).rc = 0
<1>1. /\ Get(DelegateConfig(m), "enabled") = Get(DelegateLines(m), "enabled")
      /\ Get(DelegateConfig(m), "api_key_env") = Get(DelegateLines(m), "api_key_env")
  BY DelegateRead DEF DelegateKeys
<1>2. Lower(Get(DelegateConfig(m), "enabled")) \in TrueWords /\ ~Refuses(m)
      /\ Env(m, "ADLC_DISABLE_DELEGATE") # "1"
  BY <1>1 DEF DelegationWanted, Refuses
<1>3. m.machine # NoConfig
  <2>1. SUFFICES ASSUME m.machine = NoConfig PROVE FALSE
    OBVIOUS
  <2>2. Get(DelegateConfig(m), "enabled") = ""
    BY <2>1, NothingSaid DEF DelegateConfig, Lines
  <2> QED
    BY <1>2, <2>2, LowerEmpty
<1>4. OptedIn(m) /\ ConfigEnabled
  BY <1>2, <1>3 DEF OptedIn, PrintEnabled, DelegationEnabled, ConfigEnabled
<1>5. Gate(m).rc = 0 \/ Gate(m).rc = 2
  BY <1>2, <1>4 DEF Gate
<1>6. Check("delegate-gate") # "FAIL"
  BY ApprovedReport, RegistryPlaces
<1>7. CheckDelegateGate # "FAIL"
  BY <1>6 DEF Check
<1> DEFINE rc == Gate(m).rc
<1> HIDE DEF rc
<1>8. CheckDelegateGate = IF "partials" \notin m.has THEN "FAIL"
                          ELSE CASE rc = 0 -> "PASS" [] rc = 1 -> "SKIP"
                                 [] rc = 2 -> IF ConfigEnabled THEN "FAIL" ELSE "SKIP"
  BY DEF CheckDelegateGate, rc
<1>9. rc = 0
  <2>1. rc = 0 \/ rc = 2
    BY <1>5 DEF rc
  <2> QED
    BY <1>4, <1>7, <1>8, <2>1
<1> QED
  BY <1>9 DEF rc

-----------------------------------------------------------------------------
\* The telemetry record of a delegated step tells what happened, whatever changes on the
\* machine, whether the agent skips the call, forgets the path of the flag in a fence and
\* knows it in the next, abandons the step, or has the call cut off.
THEOREM RecordsTellTheTruth == Spec => []RecordsAreTrue
<1>1. StepInv => RecordsAreTrue
  BY DEF StepInv
<1> QED
  BY <1>1, Inductive, PTL

\* The state of a delegated step has its type in every reachable state.
THEOREM StepTyping == Spec => []StepTypeOK
<1>1. StepInv => StepTypeOK
  BY DEF StepInv
<1> QED
  BY <1>1, Inductive, PTL

\* No file content leaves the machine in a step whose user had not opted in or had
\* disabled delegation when its gate was asked, or with a key in the configuration the
\* call read, whatever configuration files there are and however they change.
THEOREM SendsOnlyAsOptedIn == Spec => []SentOnlyAsOptedIn
<1>1. SentInv => SentOnlyAsOptedIn
  BY DEF SentInv
<1> QED
  BY <1>1, SentInductive, PTL

\* The state of doctor and of the step beside it has its type in every reachable state:
\* each check that is asked for has a result (checks.py), and there is an exit status
\* once the run is over, and only then.
THEOREM Typing == Spec => []TypeOK
<1>1. StepInv /\ RunInv => TypeOK
  <2> SUFFICES ASSUME StepInv, RunInv PROVE TypeOK
    OBVIOUS
  <2>1. \A i \in DOMAIN outcomes : outcomes[i].result \in {"PASS", "FAIL", "SKIP"}
    <3> DEFINE T == Outcomes
    <3>1. outcomes \in Seq(T) /\ \A o \in T : o.result \in {"PASS", "FAIL", "SKIP"}
      BY DEF RunInv, RunTypes, Outcomes, Results
    <3> HIDE DEF T
    <3> QED
      BY <3>1
  <2> QED
    BY <2>1 DEF TypeOK, StepInv, RunInv, RunTypes
<1> QED
  BY <1>1, Inductive, RunInductive, PTL

\* What `adlc doctor` said OK to is usable for as long as nothing changes (of Azure: there,
\* and logged in or given a variable for the token), and its report is complete, whatever
\* the machines, the changes of them and the values of --checks.
THEOREM OkIsUsable == Spec => []OkMeansUsable
<1>1. RunInv /\ (IsMachine(m) /\ SentInv) => OkMeansUsable
  BY Usable
<1> QED
  BY <1>1, RunInductive, SentInductive, PTL

\* A gate that doctor said OK to lets a delegated step pass, where the configuration
\* asks for delegation.
THEOREM OkIsOpen == Spec => OkOpensGate
<1> DEFINE Opened == Approved /\ Asked("delegate-gate") /\ DelegationWanted
                     /\ at = "created" /\ at' \in {"gated", "called"} => at' = "gated"
<1>1. RunInv /\ (IsMachine(m) /\ SentInv) /\ [Next]_vars => [Opened]_vars
  <2> SUFFICES ASSUME RunInv, IsMachine(m), Next,
                      Approved, Asked("delegate-gate"), DelegationWanted,
                      at = "created", at' \in {"gated", "called"}
               PROVE  at' = "gated"
    OBVIOUS
  <2>1. AskGate
    BY DEF Next, StepNext, Begin, RunCheck, Finish, CreateFlag, Announce, CannotStart, CallResolves, CallSends,
           Answered, Failed, MarkExit, Cut, SupplyPath, Emit, HandEmit, Abandon, Change, step, Between, Calling
  <2> QED
    BY <2>1, GateOpens DEF AskGate
<1> QED
  BY <1>1, RunInductive, SentInductive, PTL DEF Spec, OkOpensGate
=============================================================================
