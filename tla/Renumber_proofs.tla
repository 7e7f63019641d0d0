--------------------------- MODULE Renumber_proofs ---------------------------
(***************************************************************************)
(* Proofs about Renumber, for any artifacts, files, arguments and bounds.  *)
(***************************************************************************)
EXTENDS Renumber, TLAPS

Working == {"asking", "locating", "counting", "approved", "inside", "outside"}
Applying == {"approved", "inside", "outside"}
Rewriting == {"inside", "outside"}

\* OLD and NEW differ from the check of the arguments on, so Sub leaves no OLD.
ArgsInv == pc \in Working => old # new

\* What is about to be written was read since the invocation began, from a file that
\* mentions OLD; unless others touched the file, it still is its text.
BufInv == cur # NoFile => old \in buf /\ (cur \notin disturbed => buf = text[cur])

\* The artifact exists from its location on, --yes was given before anything is
\* applied, and the artifact has NEW before anything is rewritten.
ArtInv ==
    /\ pc \in Applying \cup {"counting"} => art \in there
    /\ pc \in Applying => yes
    /\ pc \in Rewriting => name[art] = new

\* Files the references are looked for in, and that mention OLD.
Mentions(f) == f \notin disturbed /\ Readable(f) /\ old \in text[f]
Reference(f) == Mentions(f) /\ (f \in tracked \/ ~git) /\ ~Begins(art, old, Home[f])
Content(f) == Mentions(f) /\ Home[f] = art

\* Everything that still has to be rewritten is on the list that is worked off next.
ListInv ==
    /\ pc \in {"counting", "approved", "inside"} => \A f \in Files : Reference(f) => f \in refs
    /\ pc = "inside" => \A f \in Files : Content(f) => f \in todo
    /\ pc = "outside" => \A f \in Files : Reference(f) => f \in todo
    /\ pc \in {"outside", "applied"} => \A f \in Files : ~Content(f)
    /\ pc = "applied" => \A f \in Files : ~Reference(f)

-----------------------------------------------------------------------------
(* Types *)

\* The initial arguments are an id, whichever it is.
LEMMA SomeId == (CHOOSE i \in Ids : TRUE) \in Ids
<1>1. \E i \in Ids : TRUE
  BY CallsType
<1> QED
  BY <1>1

LEMMA InitTypes == Init => TypeOK
<1> SUFFICES ASSUME Init PROVE TypeOK
  OBVIOUS
<1>1. old \in Ids /\ new \in Ids
  BY SomeId DEF Init
<1>2. name \in [Entries -> Ids] /\ text \in [Files -> SUBSET Ids] /\ tracked \subseteq Files
  BY FirstNamesType, FirstTextsType, FirstTrackedType DEF Init
<1>3. 0 \in 0 .. MaxRuns /\ 0 \in 0 .. MaxEdits
  BY BoundsType
<1>4. /\ git \in BOOLEAN /\ there = Entries /\ stray = {} /\ pc = "idle" /\ yes = FALSE
      /\ art = 0 /\ refs = {} /\ todo = {} /\ cur = NoFile /\ buf = {}
      /\ runs = 0 /\ edits = 0 /\ was = text /\ disturbed = {}
  BY DEF Init
<1> QED
  BY <1>1, <1>2, <1>3, <1>4 DEF TypeOK, Ended

\* Counting an invocation or an edit stays within its bound.
LEMMA CountsUp == ASSUME NEW n \in Nat, NEW k \in 0 .. n, k < n PROVE k + 1 \in 0 .. n
OBVIOUS

\* A rewritten text is a set of ids.
LEMMA SubTypes == ASSUME NEW ids \in SUBSET Ids, new \in Ids PROVE Sub(ids) \subseteq Ids
BY DEF Sub

\* The steps of the process that change no file of the repository.
LEMMA QuietTypes ==
    ASSUME TypeOK,
           \/ \E c \in Calls, y \in BOOLEAN : Invoke(c[1], c[2], y)
           \/ AskRemote \/ Locate \/ Count \/ LoopEnds \/ Kill
           \/ \E f \in Files : Skip(f)
    PROVE TypeOK'
<1>1. ASSUME NEW c \in Calls, NEW y \in BOOLEAN, Invoke(c[1], c[2], y) PROVE TypeOK'
  <2>1. c[1] \in Ids /\ c[2] \in Ids
    BY CallsType
  <2>2. runs' \in 0 .. MaxRuns
    BY <1>1, BoundsType, CountsUp DEF Invoke, TypeOK
  <2> QED
    BY <1>1, <2>1, <2>2 DEF Invoke, TypeOK, Ended, repo
<1>2. CASE AskRemote
  BY <1>2 DEF AskRemote, TypeOK, Ended, repo, args, found, rewrite, bounds, history
<1>3. CASE Locate
  <2>1. PICK e \in Entries \cup {0} :
            art' = e /\ pc' = (IF e = 0 THEN "refused" ELSE "counting")
            /\ refs' = (IF e = 0 THEN {} ELSE Selected(e))
    BY <1>3 DEF Locate
  <2> QED
    BY <1>3, <2>1 DEF Locate, Selected, TypeOK, Ended, repo, args, rewrite, bounds, history
<1>4. CASE Count
  BY <1>4 DEF Count, TypeOK, Ended, repo, args, rewrite, bounds, history
<1>5. CASE LoopEnds
  BY <1>5 DEF LoopEnds, TypeOK, Ended, repo, args, found, bounds, history
<1>6. CASE Kill
  BY <1>6 DEF Kill, TypeOK, Ended, repo, args, found, bounds, history
<1>7. ASSUME NEW f \in Files, Skip(f) PROVE TypeOK'
  BY <1>7 DEF Skip, TypeOK, Ended, repo, args, found, bounds, history
<1> QED
  BY <1>1, <1>2, <1>3, <1>4, <1>5, <1>6, <1>7

\* The steps that change the repository.
LEMMA LoudTypes ==
    ASSUME TypeOK,
           \/ Move \/ Replace \/ WriteFails \/ GitAdd
           \/ \E f \in Files : Read(f)
           \/ \E f \in Files, i \in EditIds : Edit(f, i)
    PROVE TypeOK'
<1>1. CASE Move
  BY <1>1 DEF Move, Inside, TypeOK, Ended, args, found, bounds, history
<1>2. CASE Replace
  <2>1. Sub(buf) \subseteq Ids
    BY SubTypes DEF TypeOK
  <2> QED
    BY <1>2, <2>1 DEF Replace, TypeOK, Ended, args, found, bounds, history
<1>3. CASE WriteFails
  BY <1>3 DEF WriteFails, TypeOK, Ended, args, found, bounds, history
<1>4. CASE GitAdd
  BY <1>4 DEF GitAdd, TypeOK, Ended, args, found, rewrite, bounds
<1>5. ASSUME NEW f \in Files, Read(f) PROVE TypeOK'
  BY <1>5 DEF Read, TypeOK, Ended, args, found, bounds, history
<1>6. ASSUME NEW f \in Files, NEW i \in EditIds, Edit(f, i) PROVE TypeOK'
  <2>1. edits' \in 0 .. MaxEdits
    BY <1>6, BoundsType, CountsUp DEF Edit, TypeOK
  <2>2. i \in Ids
    BY EditIdsType
  <2> QED
    BY <1>6, <2>1, <2>2 DEF Edit, TypeOK, Ended, args, found, rewrite
<1> QED
  BY <1>1, <1>2, <1>3, <1>4, <1>5, <1>6

LEMMA NextTypes == TypeOK /\ [Next]_vars => TypeOK'
<1> SUFFICES ASSUME TypeOK, [Next]_vars PROVE TypeOK'
  OBVIOUS
<1>1. CASE UNCHANGED vars
  BY <1>1 DEF vars, repo, args, found, rewrite, bounds, history, TypeOK
<1>2. CASE Next /\ ~UNCHANGED vars
  BY <1>2, QuietTypes, LoudTypes DEF Next, Step, Done
<1> QED
  BY <1>1, <1>2

\* The state of renumber has its type in every reachable state, for any repository,
\* arguments and bounds.
THEOREM Typing == Spec => []TypeOK
BY InitTypes, NextTypes, PTL DEF Spec

-----------------------------------------------------------------------------
(* The inductive invariant *)

IInv == TypeOK /\ ArgsInv /\ BufInv /\ ArtInv /\ WholeFiles /\ ListInv

LEMMA InitInv == Init => IInv
<1> SUFFICES ASSUME Init PROVE IInv
  OBVIOUS
<1>1. TypeOK
  BY InitTypes
<1>2. ArgsInv /\ BufInv /\ ArtInv /\ WholeFiles /\ ListInv
  BY DEF Init, ArgsInv, BufInv, ArtInv, WholeFiles, ListInv, Working, Applying, Rewriting
<1> QED
  BY <1>1, <1>2 DEF IInv

\* No OLD is left in a rewritten text.
LEMMA SubRemoves == ASSUME NEW ids, old # new PROVE old \notin Sub(ids)
BY DEF Sub

\* A file is between its read and its replacement in the two loops only, whose pc is
\* among those of ArgsInv and ArtInv.
LEMMA CurWorking == ASSUME IInv, cur # NoFile PROVE pc \in Rewriting /\ old # new
BY DEF IInv, TypeOK, ArgsInv, Working, Rewriting

LEMMA ArgsStep == IInv /\ [Next]_vars => ArgsInv'
<1> SUFFICES ASSUME IInv, [Next]_vars PROVE ArgsInv'
  OBVIOUS
<1> USE DEF IInv, ArgsInv, Working, args
<1>1. ASSUME NEW c \in Calls, NEW y \in BOOLEAN, Invoke(c[1], c[2], y) PROVE ArgsInv'
  BY <1>1 DEF Invoke
<1>2. CASE AskRemote \/ Locate \/ Count \/ Move
  BY <1>2 DEF AskRemote, Locate, Count, Move
<1>3. CASE Replace \/ LoopEnds \/ WriteFails \/ Kill \/ \E f \in Files : Skip(f) \/ Read(f)
  BY <1>3 DEF Replace, LoopEnds, WriteFails, Kill, Skip, Read
<1>4. CASE GitAdd \/ (\E f \in Files, i \in EditIds : Edit(f, i)) \/ UNCHANGED vars
  BY <1>4 DEF GitAdd, Edit, vars
<1> QED
  BY <1>1, <1>2, <1>3, <1>4 DEF Next, Step, Done

LEMMA BufStep == IInv /\ [Next]_vars => BufInv'
<1> SUFFICES ASSUME IInv, [Next]_vars PROVE BufInv'
  OBVIOUS
<1> USE DEF IInv, BufInv
<1>1. ASSUME NEW c \in Calls, NEW y \in BOOLEAN, Invoke(c[1], c[2], y) PROVE BufInv'
  BY <1>1 DEF Invoke
<1>2. CASE AskRemote \/ Locate \/ Count \/ Move
  BY <1>2 DEF AskRemote, Locate, Count, Move, TypeOK, rewrite
<1>3. CASE Replace \/ LoopEnds \/ WriteFails \/ Kill
  BY <1>3 DEF Replace, LoopEnds, WriteFails, Kill
<1>4. ASSUME NEW f \in Files, Skip(f) \/ Read(f) PROVE BufInv'
  BY <1>4 DEF Skip, Read, repo, args, history
<1>5. ASSUME NEW f \in Files, NEW i \in EditIds, Edit(f, i) PROVE BufInv'
  BY <1>5 DEF Edit, args, rewrite, TypeOK
<1>6. CASE GitAdd \/ UNCHANGED vars
  BY <1>6 DEF GitAdd, vars, repo, args, rewrite, history
<1> QED
  BY <1>1, <1>2, <1>3, <1>4, <1>5, <1>6 DEF Next, Step, Done

LEMMA ArtStep == IInv /\ [Next]_vars => ArtInv'
<1> SUFFICES ASSUME IInv, [Next]_vars PROVE ArtInv'
  OBVIOUS
<1> USE DEF IInv, ArtInv, Applying, Rewriting
<1>1. ASSUME NEW c \in Calls, NEW y \in BOOLEAN, Invoke(c[1], c[2], y) PROVE ArtInv'
  BY <1>1 DEF Invoke
<1>2. CASE AskRemote
  BY <1>2 DEF AskRemote
<1>3. CASE Locate
  <2>1. PICK e \in Entries \cup {0} :
            IsLocated(e, old) /\ art' = e /\ pc' = (IF e = 0 THEN "refused" ELSE "counting")
    BY <1>3 DEF Locate
  <2>2. there' = there
    BY <1>3 DEF Locate, repo
  <2> QED
    BY <2>1, <2>2 DEF IsLocated
<1>4. CASE Count
  BY <1>4 DEF Count, repo, args
<1>5. CASE Move
  <2>1. CASE pc' = "aborted"
    BY <2>1
  <2>2. CASE pc' # "aborted"
    <3>1. art' = art /\ yes' = yes /\ new' = new /\ pc' = "inside" /\ pc = "approved"
      BY <1>5, <2>2 DEF Move, args, found
    <3>2. name' = [name EXCEPT ![art] = new] /\ art \in there'
      BY <1>5, <2>2 DEF Move
    <3>3. art \in DOMAIN name
      BY <3>1 DEF TypeOK
    <3> QED
      BY <3>1, <3>2, <3>3
  <2> QED
    BY <2>1, <2>2
<1>6. CASE Replace \/ LoopEnds \/ WriteFails \/ Kill
  BY <1>6 DEF Replace, LoopEnds, WriteFails, Kill, repo, args, found
<1>7. ASSUME NEW f \in Files, Skip(f) \/ Read(f) PROVE ArtInv'
  BY <1>7 DEF Skip, Read, repo, args, found
<1>8. CASE GitAdd \/ (\E f \in Files, i \in EditIds : Edit(f, i)) \/ UNCHANGED vars
  BY <1>8 DEF GitAdd, Edit, vars, repo, args, found
<1> QED
  BY <1>1, <1>2, <1>3, <1>4, <1>5, <1>6, <1>7, <1>8 DEF Next, Step, Done

LEMMA WholeStep == IInv /\ [Next]_vars => WholeFiles'
<1> SUFFICES ASSUME IInv, [Next]_vars PROVE WholeFiles'
  OBVIOUS
<1> USE DEF IInv, WholeFiles
<1>1. ASSUME NEW c \in Calls, NEW y \in BOOLEAN, Invoke(c[1], c[2], y) PROVE WholeFiles'
  BY <1>1 DEF Invoke, repo
<1>2. CASE AskRemote \/ Locate \/ Count \/ Move
  BY <1>2 DEF AskRemote, Locate, Count, Move, repo, args, history
<1>3. CASE Replace
  <2>1. /\ old' = old /\ new' = new /\ was' = was /\ disturbed' = disturbed
        /\ text' = [text EXCEPT ![cur] = Sub(buf)] /\ cur # NoFile
    BY <1>3 DEF Replace, args, history
  <2>2. old # new /\ old \in buf /\ (cur \notin disturbed => buf = text[cur])
    BY <2>1, CurWorking DEF BufInv
  <2> SUFFICES ASSUME NEW f \in Files \ disturbed
               PROVE \/ text'[f] = was[f]
                     \/ old \in was[f] /\ text'[f] = (was[f] \ {old}) \cup {new}
    BY <2>1
  <2>3. CASE f # cur
    BY <2>1, <2>3 DEF TypeOK
  <2>4. CASE f = cur
    <3>1. old \in text[f]
      BY <2>2, <2>4
    <3>2. text[f] = was[f]
      BY <2>2, <3>1
    <3>3. text'[f] = Sub(text[f])
      BY <2>1, <2>2, <2>4 DEF TypeOK
    <3> QED
      BY <3>1, <3>2, <3>3 DEF Sub
  <2> QED
    BY <2>3, <2>4
<1>4. CASE LoopEnds \/ WriteFails \/ Kill \/ \E f \in Files : Skip(f) \/ Read(f)
  BY <1>4 DEF LoopEnds, WriteFails, Kill, Skip, Read, repo, args, history
<1>5. ASSUME NEW f \in Files, NEW i \in EditIds, Edit(f, i) PROVE WholeFiles'
  <2>1. disturbed' = disturbed \cup {f} /\ \A g \in Files \ {f} : text'[g] = text[g]
    BY <1>5 DEF Edit, TypeOK
  <2> QED
    BY <1>5, <2>1 DEF Edit, args
<1>6. CASE GitAdd \/ UNCHANGED vars
  BY <1>6 DEF GitAdd, vars, repo, args, history
<1> QED
  BY <1>1, <1>2, <1>3, <1>4, <1>5, <1>6 DEF Next, Step, Done

\* Locate: what the search and the boundary check leave out is no reference.
LEMMA LocateLists == ASSUME IInv, Locate PROVE ListInv'
<1>1. PICK e \in Entries \cup {0} :
          /\ art' = e /\ pc' = (IF e = 0 THEN "refused" ELSE "counting")
          /\ refs' = (IF e = 0 THEN {} ELSE Selected(e))
  BY DEF Locate
<1>2. UNCHANGED <<repo, old, disturbed>>
  BY DEF Locate, args, history
<1>3. ASSUME NEW f \in Files, e # 0, Reference(f)' PROVE f \in Selected(e)
  BY <1>1, <1>2, <1>3 DEF Reference, Mentions, Readable, Exists, Begins, Selected, Searched, repo
<1> QED
  BY <1>1, <1>3 DEF ListInv

\* Move: a file that is still a reference afterwards was one before.
LEMMA MoveLists == ASSUME IInv, Move PROVE ListInv'
<1>1. CASE pc' = "aborted"
  BY <1>1 DEF ListInv
<1>2. CASE pc' # "aborted"
  <2> DEFINE taken == {g \in there \ {art} : name[g] = new /\ Slug[g] = Slug[art]}
  <2>1. /\ pc = "approved" /\ pc' = "inside"
        /\ name' = [name EXCEPT ![art] = new] /\ there' = there \ taken
        /\ tracked' = (tracked \ {f \in Files : Home[f] \in taken \cup {art}})
                        \cup {f \in Inside(art) : \E g \in tracked : Home[g] \in taken}
        /\ todo' = Inside(art)
        /\ UNCHANGED <<git, text, old, art, refs, disturbed>>
    BY <1>2 DEF Move, args, found, history
  <2>2. there' \subseteq there /\ art \in there
    BY <2>1 DEF IInv, ArtInv, Applying
  <2>3. ASSUME NEW f \in Files, Mentions(f)' PROVE Mentions(f)
    BY <2>1, <2>2, <2>3 DEF Mentions, Readable, Exists
  <2>4. ASSUME NEW f \in Files, Reference(f)' PROVE Reference(f)
    <3>1. Home[f] # art /\ (f \in tracked' \/ ~git)
      BY <2>1, <2>4 DEF Reference, Begins
    <3>2. f \in tracked \/ ~git
      BY <2>1, <3>1 DEF Inside
    <3>3. Home[f] # 0 => name'[Home[f]] = name[Home[f]]
      BY <2>1, <3>1, HomeType DEF IInv, TypeOK
    <3>4. ~Begins(art, old, Home[f])
      BY <2>1, <2>4, <3>1, <3>3 DEF Reference, Begins
    <3> QED
      BY <2>3, <2>4, <3>2, <3>4 DEF Reference
  <2>5. ASSUME NEW f \in Files, Content(f)' PROVE f \in Inside(art)
    BY <2>1, <2>2, <2>5 DEF Content, Inside, Exists
  <2> QED
    BY <2>1, <2>4, <2>5 DEF IInv, ListInv
<1> QED
  BY <1>1, <1>2

\* Replace and Skip: the file taken off the list mentions OLD no more.
LEMMA LoopLists ==
    ASSUME IInv, NEW f \in Files,
           pc \in Rewriting, todo' = todo \ {f}, ~Mentions(f)',
           \A g \in Files \ {f} : text'[g] = text[g],
           UNCHANGED <<git, name, there, tracked, pc, old, art, refs, disturbed>>
    PROVE ListInv'
<1>1. ASSUME NEW g \in Files, Reference(g)' PROVE Reference(g) /\ g # f
  BY <1>1 DEF Reference, Mentions, Readable, Exists, Begins
<1>2. ASSUME NEW g \in Files, Content(g)' PROVE Content(g) /\ g # f
  BY <1>2 DEF Content, Mentions, Readable, Exists
<1> QED
  BY <1>1, <1>2 DEF IInv, ListInv, Rewriting

\* Where nothing of the repository becomes a reference that was none, and the list
\* stays, so does the invariant.
LEMMA QuietLists ==
    ASSUME IInv, \A g \in Files : (Reference(g)' => Reference(g)) /\ (Content(g)' => Content(g)),
           UNCHANGED <<pc, refs, todo>>
    PROVE ListInv'
BY DEF IInv, ListInv

LEMMA ListStep == IInv /\ [Next]_vars => ListInv'
<1> SUFFICES ASSUME IInv, [Next]_vars PROVE ListInv'
  OBVIOUS
<1>1. ASSUME NEW c \in Calls, NEW y \in BOOLEAN, Invoke(c[1], c[2], y) PROVE ListInv'
  BY <1>1 DEF Invoke, ListInv
<1>2. CASE AskRemote \/ WriteFails \/ Kill
  BY <1>2 DEF AskRemote, WriteFails, Kill, ListInv
<1>3. CASE Locate
  BY <1>3, LocateLists
<1>4. CASE Count
  <2>1. ASSUME NEW f \in Files PROVE Reference(f)' = Reference(f)
    BY <1>4 DEF Count, Reference, Mentions, Readable, Exists, Begins, repo, args, history
  <2>2. ASSUME NEW f \in Files, Reference(f), f \in refs PROVE f \in refs'
    BY <1>4, <2>2 DEF Count, Reference, Mentions
  <2> QED
    BY <1>4, <2>1, <2>2 DEF Count, IInv, ListInv
<1>5. CASE Move
  BY <1>5, MoveLists
<1>6. CASE Replace
  <2>1. pc \in Rewriting /\ old # new /\ \E f \in Files : f = cur
    BY <1>6, CurWorking, NoFileType DEF Replace, IInv, TypeOK
  <2> PICK f \in Files : f = cur
    BY <2>1
  <2>2. /\ todo' = todo \ {f} /\ text' = [text EXCEPT ![f] = Sub(buf)]
        /\ UNCHANGED <<git, name, there, tracked, pc, old, art, refs, disturbed>>
    BY <1>6 DEF Replace, args, found, history
  <2>3. text'[f] = Sub(buf) /\ \A g \in Files \ {f} : text'[g] = text[g]
    BY <2>2 DEF IInv, TypeOK
  <2>4. old' \notin text'[f]
    BY <2>1, <2>2, <2>3, SubRemoves
  <2>5. ~Mentions(f)'
    BY <2>2, <2>4 DEF Mentions
  <2> QED
    BY <2>1, <2>2, <2>3, <2>5, LoopLists
<1>7. ASSUME NEW f \in Files, Skip(f) PROVE ListInv'
  <2>1. /\ pc \in Rewriting /\ todo' = todo \ {f} /\ ~(Readable(f) /\ old \in text[f])
        /\ UNCHANGED <<git, name, there, tracked, text, pc, old, art, refs, disturbed>>
    BY <1>7 DEF Skip, repo, args, found, history, Rewriting
  <2>2. ~Mentions(f)'
    BY <2>1 DEF Mentions, Readable, Exists
  <2> QED
    BY <2>1, <2>2, LoopLists
<1>8. ASSUME NEW f \in Files, Read(f) PROVE ListInv'
  <2>1. UNCHANGED <<git, name, there, tracked, text, pc, old, art, refs, todo, disturbed>>
    BY <1>8 DEF Read, args, found, history
  <2>2. ASSUME NEW g \in Files PROVE Reference(g)' = Reference(g) /\ Content(g)' = Content(g)
    BY <2>1 DEF Reference, Content, Mentions, Readable, Exists, Begins
  <2> QED
    BY <2>1, <2>2, QuietLists
<1>9. CASE LoopEnds
  <2>1. UNCHANGED <<repo, old, art, refs, disturbed>> /\ todo = {}
    BY <1>9 DEF LoopEnds, args, found, history
  <2>2. ASSUME NEW g \in Files PROVE Reference(g)' = Reference(g) /\ Content(g)' = Content(g)
    BY <2>1 DEF Reference, Content, Mentions, Readable, Exists, Begins, repo
  <2> QED
    BY <1>9, <2>1, <2>2 DEF LoopEnds, IInv, ListInv
<1>10. ASSUME NEW f \in Files, NEW i \in EditIds, Edit(f, i) PROVE ListInv'
  <2>1. /\ UNCHANGED <<git, name, there, tracked, pc, old, art, refs, todo>>
        /\ disturbed' = disturbed \cup {f}
        /\ \A g \in Files \ {f} : text'[g] = text[g]
    BY <1>10 DEF Edit, args, found, rewrite, IInv, TypeOK
  <2>2. ASSUME NEW g \in Files, Mentions(g)' PROVE Mentions(g)
    BY <2>1, <2>2 DEF Mentions, Readable, Exists
  <2>3. ASSUME NEW g \in Files
        PROVE (Reference(g)' => Reference(g)) /\ (Content(g)' => Content(g))
    BY <2>1, <2>2 DEF Reference, Content, Begins
  <2> QED
    BY <2>1, <2>3, QuietLists
<1>11. CASE GitAdd
  <2>1. /\ UNCHANGED <<git, name, there, text, pc, old, art, refs, todo>>
        /\ disturbed \subseteq disturbed' /\ tracked' \subseteq tracked \cup disturbed'
    BY <1>11 DEF GitAdd, args, found, rewrite
  <2>2. ASSUME NEW g \in Files
        PROVE (Reference(g)' => Reference(g)) /\ (Content(g)' => Content(g))
    BY <2>1 DEF Reference, Content, Mentions, Readable, Exists, Begins
  <2> QED
    BY <2>1, <2>2, QuietLists
<1>12. CASE UNCHANGED vars
  BY <1>12 DEF vars, repo, args, found, rewrite, history, IInv, ListInv, Reference, Content,
               Mentions, Readable, Exists, Begins
<1> QED
  BY <1>1, <1>2, <1>3, <1>4, <1>5, <1>6, <1>7, <1>8, <1>9, <1>10, <1>11, <1>12
     DEF Next, Step, Done

LEMMA Inductive == Spec => []IInv
<1>1. Init => IInv
  BY InitInv
<1>2. IInv /\ [Next]_vars => IInv'
  <2> SUFFICES ASSUME IInv, [Next]_vars PROVE IInv'
    OBVIOUS
  <2>1. TypeOK'
    BY NextTypes DEF IInv
  <2>2. ArgsInv' /\ BufInv' /\ ArtInv' /\ WholeFiles' /\ ListInv'
    BY ArgsStep, BufStep, ArtStep, WholeStep, ListStep
  <2> QED
    BY <2>1, <2>2 DEF IInv
<1> QED
  BY <1>1, <1>2, PTL DEF Spec

-----------------------------------------------------------------------------
(* The properties *)

\* A file that nobody else touched is never seen half rewritten, wherever renumber is
\* killed and however often it is run: it has its text or that text with NEW for OLD.
THEOREM NeverHalfRewritten == Spec => []WholeFiles
<1>1. IInv => WholeFiles
  BY DEF IInv
<1> QED
  BY <1>1, Inductive, PTL

\* When renumber says "Applied." nothing that its search covers mentions OLD.
THEOREM AppliedLeavesNone == Spec => []AppliedIsComplete
<1>1. IInv => AppliedIsComplete
  BY DEF IInv, ListInv, AppliedIsComplete, Reference, Content, Mentions
<1> QED
  BY <1>1, Inductive, PTL

\* A reference is rewritten only after the artifact it names has moved.
THEOREM MoveBeforeReferences == Spec => RewrittenAfterMove
<1>1. IInv /\ [Next]_vars => [MovedFirst]_vars
  <2> SUFFICES ASSUME IInv, [Next]_vars PROVE MovedFirst \/ UNCHANGED vars
    OBVIOUS
  <2>1. ASSUME Replace PROVE MovedFirst
    <3>1. pc \in Rewriting
      BY <2>1, CurWorking DEF Replace
    <3>2. yes /\ art \in there /\ name[art] = new
      BY <3>1 DEF IInv, ArtInv, Applying, Rewriting
    <3> QED
      BY <3>1, <3>2 DEF Rewriting, MovedFirst
  <2>2. ASSUME NEW f \in Files, NEW i \in EditIds, Edit(f, i) PROVE MovedFirst
    BY <2>2 DEF Edit, IInv, TypeOK, MovedFirst
  <2>3. ASSUME text' = text PROVE MovedFirst
    BY <2>3 DEF MovedFirst
  <2>4. \/ Replace \/ (\E f \in Files, i \in EditIds : Edit(f, i))
        \/ text' = text \/ UNCHANGED vars
    BY DEF Next, Step, Done, Invoke, AskRemote, Locate, Count, Move, Skip, Read, LoopEnds,
           WriteFails, Kill, GitAdd, repo
  <2> QED
    BY <2>1, <2>2, <2>3, <2>4
<1> QED
  BY <1>1, Inductive, PTL DEF Spec, RewrittenAfterMove
=============================================================================
