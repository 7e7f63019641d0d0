------------------------------ MODULE Renumber ------------------------------
(***************************************************************************)
(* tools/adlc/renumber.py: `adlc renumber OLD NEW [--yes]` gives an        *)
(* artifact another id.  It moves the directory or file of the artifact,   *)
(* then rewrites its content and every reference it had found before, one  *)
(* file at a time.  People edit and stage files meanwhile, the process may *)
(* be killed at any point and be started again.                            *)
(*                                                                         *)
(* An entry is what lies in .adlc/specs, .adlc/bugs or the lessons: an id, *)
(* which renumber changes, and a slug.  The text of a file is the set of   *)
(* the ids it mentions at an id boundary.                                  *)
(***************************************************************************)
EXTENDS Naturals

CONSTANTS
    Ids,         \* what can be given as an argument
    Kind,        \* id -> its kind, "none" when the strict pattern rejects it
    IdPrefix,    \* <<i, j>>: j is i with more digits (REQ-120, REQ-1200)
    NEntries,    \* entries are numbered in the sorted order of their slugs
    Slug,        \* entry -> slug
    NoSlug,      \* the slug of a bare REQ-120
    SlugPrefix,  \* <<s, t>>: s begins t
    FirstNames,  \* bound: [Entries -> Ids] at the start
    Files,
    NoFile,
    Home,        \* file -> entry it lies in (or is), 0 elsewhere
    Binary,      \* files that are not UTF-8 text
    FirstTexts,  \* bound: [Files -> SUBSET Ids] at the start
    FirstTracked,\* bound: files tracked at the start
    Calls,       \* bound: the arguments given
    EditIds,     \* bound: the ids others write or delete
    MaxRuns,     \* bound: invocations
    MaxEdits     \* bound: edits by others

Entries == 1 .. NEntries
Kinds == {"REQ", "BUG", "LESSON"}

ASSUME NEntriesType == NEntries \in Nat
ASSUME KindType == Kind \in [Ids -> Kinds \cup {"none"}]
ASSUME SlugType == DOMAIN Slug = Entries
ASSUME FirstNamesType == FirstNames \subseteq [Entries -> Ids]
ASSUME NoFileType == NoFile \notin Files
ASSUME HomeType == Home \in [Files -> Entries \cup {0}]
ASSUME FirstTextsType == FirstTexts \subseteq [Files -> SUBSET Ids]
ASSUME FirstTrackedType == FirstTracked \subseteq SUBSET Files
ASSUME CallsType == Calls \subseteq Ids \X Ids /\ Ids # {}
ASSUME EditIdsType == EditIds \subseteq Ids
ASSUME BoundsType == MaxRuns \in Nat /\ MaxEdits \in Nat

VARIABLES
    \* The repository:
    git,        \* git grep works here
    name,       \* entry -> id in its path
    there,      \* entries that exist
    text,       \* file -> ids it mentions
    tracked,    \* files whose path is in the index
    stray,      \* files with a temporary file .renumber-* beside them
    \* The process:
    pc, old, new, yes,
    art,        \* entry being moved
    refs,       \* files to rewrite outside of it
    todo,       \* files left in this loop
    cur, buf,   \* file between its read and its replacement, text read
    \* Counters of the bounds, history of the invocation:
    runs, edits,
    was,        \* text when it began
    disturbed   \* files that others edited or staged since

repo == <<git, name, there, text, tracked, stray>>
args == <<old, new, yes>>
found == <<art, refs>>
rewrite == <<todo, cur, buf>>
bounds == <<runs, edits>>
history == <<was, disturbed>>
vars == <<repo, pc, args, found, rewrite, bounds, history>>

Ended == {"idle", "refused", "dry", "applied", "aborted", "killed"}

TypeOK ==
    /\ git \in BOOLEAN /\ yes \in BOOLEAN
    /\ name \in [Entries -> Ids] /\ there \subseteq Entries
    /\ text \in [Files -> SUBSET Ids] /\ was \in [Files -> SUBSET Ids]
    /\ tracked \subseteq Files /\ stray \subseteq Files /\ disturbed \subseteq Files
    /\ pc \in Ended \cup {"asking", "locating", "counting", "approved", "inside", "outside"}
    /\ old \in Ids /\ new \in Ids
    /\ art \in Entries \cup {0} /\ refs \subseteq Files /\ todo \subseteq Files
    /\ cur \in Files \cup {NoFile} /\ buf \subseteq Ids
    /\ cur # NoFile => cur \in stray /\ pc \in {"inside", "outside"}
    /\ runs \in 0 .. MaxRuns /\ edits \in 0 .. MaxEdits

-----------------------------------------------------------------------------
(* Ids, paths and files *)

Valid(i) == Kind[i] # "none"

\* Mutant: a bare replacement, which also hits the ids that OLD begins.
SubPrefix(ids) ==
    IF \E i \in ids : i = old \/ <<old, i>> \in IdPrefix
    THEN {i \in ids : i # old /\ <<old, i>> \notin IdPrefix} \cup {new} ELSE ids

\* The rewriting of a text.  The boundary tells an id from one with more digits.
Sub(ids) == IF old \in ids THEN (ids \ {old}) \cup {new} ELSE ids

Exists(f) == Home[f] \in there \cup {0}
Readable(f) == Exists(f) /\ f \notin Binary
Inside(e) == {f \in Files : Home[f] = e /\ Exists(f)}

\* The first entry of the sorted listing with this id, and NONE is 0.
IsLocated(e, i) ==
    \/ e = 0 /\ \A g \in there : name[g] # i
    \/ e \in there /\ name[e] = i /\ \A g \in there : name[g] = i => e <= g

\* The path of e, under the id i, is a string prefix of the path of g.
Begins(e, i, g) ==
    \/ e = g
    \/ /\ g # 0 /\ Kind[i] = "REQ"
       /\ \/ name[g] = i /\ <<Slug[e], Slug[g]>> \in SlugPrefix
          \/ Slug[e] = NoSlug /\ <<i, name[g]>> \in IdPrefix

\* git grep looks at tracked files, the walk it falls back on at all that can be read.
Searched(f) == IF git THEN Exists(f) /\ f \in tracked ELSE Readable(f)

\* Mutant: untracked files are found too, but not those of other artifacts.
SelectedElsewhere(e) == {f \in Files : Searched(f) /\ old \in text[f] /\ Home[f] = 0}
Selected(e) == {f \in Files : Searched(f) /\ old \in text[f] /\ ~Begins(e, old, Home[f])}

-----------------------------------------------------------------------------
Init ==
    /\ git \in BOOLEAN
    /\ name \in FirstNames /\ there = Entries
    /\ text \in FirstTexts
    /\ tracked \in FirstTracked /\ stray = {}
    /\ pc = "idle" /\ old = (CHOOSE i \in Ids : TRUE) /\ new = old /\ yes = FALSE
    /\ art = 0 /\ refs = {} /\ todo = {} /\ cur = NoFile /\ buf = {}
    /\ runs = 0 /\ edits = 0 /\ was = text /\ disturbed = {}

\* The arguments are checked first: both strict, of one kind, different.
Invoke(o, n, y) ==
    /\ pc \in Ended /\ runs < MaxRuns
    /\ runs' = runs + 1
    /\ old' = o /\ new' = n /\ yes' = y
    /\ pc' = IF Valid(o) /\ Valid(n) /\ Kind[o] = Kind[n] /\ o # n THEN "asking" ELSE "refused"
    /\ art' = 0 /\ refs' = {} /\ todo' = {} /\ cur' = NoFile /\ buf' = {}
    /\ was' = text /\ disturbed' = {}
    /\ UNCHANGED <<repo, edits>>

\* remote_collision(new): what it finds is IdRecheck's matter.  Without the helper
\* or the remote it finds nothing.
AskRemote ==
    /\ pc = "asking"
    /\ pc' \in {"refused", "locating"}
    /\ UNCHANGED <<repo, args, found, rewrite, bounds, history>>

\* plan: the artifact, then the selection, ...
Locate ==
    /\ pc = "locating"
    /\ \E e \in Entries \cup {0} :
        /\ IsLocated(e, old)
        /\ art' = e
        /\ pc' = IF e = 0 THEN "refused" ELSE "counting"
        /\ refs' = IF e = 0 THEN {} ELSE Selected(e)
    /\ UNCHANGED <<repo, args, rewrite, bounds, history>>

\* Mutant: the dry run falls through.
CountApproved ==
    /\ pc = "counting"
    /\ refs' = {f \in refs : Readable(f) /\ old \in text[f]}
    /\ pc' = "approved"
    /\ UNCHANGED <<repo, args, art, rewrite, bounds, history>>

\* ... then the count of each selected file, which drops those without a match.
Count ==
    /\ pc = "counting"
    /\ refs' = {f \in refs : Readable(f) /\ old \in text[f]}
    /\ pc' = IF yes THEN "approved" ELSE "dry"
    /\ UNCHANGED <<repo, args, art, rewrite, bounds, history>>

\* Mutant: references first, the artifact stays where it is until they are done.
MoveNothing ==
    /\ pc = "approved"
    /\ pc' = "inside" /\ todo' = Inside(art)
    /\ UNCHANGED <<repo, args, found, cur, buf, bounds, history>>

\* os.rename.  The target is not looked at: a file there is overwritten, so is an
\* empty directory; any other is an error.  Git does not know the files' new paths,
\* unless they are of files that were overwritten.
Move ==
    LET taken == {g \in there \ {art} : name[g] = new /\ Slug[g] = Slug[art]}
        full == Kind[old] = "REQ" /\ \E g \in taken : Inside(g) # {}
    IN  /\ pc = "approved"
        /\ \/ full /\ pc' = "aborted" /\ UNCHANGED <<name, there, tracked, todo>>
           \/ /\ ~full
              /\ pc' = "inside"
              /\ name' = [name EXCEPT ![art] = new]
              /\ there' = there \ taken
              /\ tracked' = (tracked \ {f \in Files : Home[f] \in taken \cup {art}})
                              \cup {f \in Inside(art) : \E g \in tracked : Home[g] \in taken}
              /\ todo' = Inside(art)
        /\ UNCHANGED <<git, text, stray, args, found, cur, buf, bounds, history>>

\* _rewrite_file: a file that cannot be read or has no match is left alone, ...
Skip(f) ==
    /\ pc \in {"inside", "outside"} /\ cur = NoFile /\ f \in todo
    /\ ~(Readable(f) /\ old \in text[f])
    /\ todo' = todo \ {f}
    /\ UNCHANGED <<repo, pc, args, found, cur, buf, bounds, history>>

\* ... of any other the text goes into a temporary file ...
Read(f) ==
    /\ pc \in {"inside", "outside"} /\ cur = NoFile /\ f \in todo
    /\ Readable(f) /\ old \in text[f]
    /\ cur' = f /\ buf' = text[f]
    /\ stray' = stray \cup {f}
    /\ UNCHANGED <<git, name, there, text, tracked, pc, args, found, todo, bounds, history>>

\* ... which replaces the file.
Replace ==
    /\ cur # NoFile /\ pc \in {"inside", "outside"}
    /\ text' = [text EXCEPT ![cur] = Sub(buf)]
    /\ stray' = stray \ {cur}
    /\ todo' = todo \ {cur} /\ cur' = NoFile /\ buf' = {}
    /\ UNCHANGED <<git, name, there, tracked, pc, args, found, bounds, history>>

\* Mutant: the temporary file is removed before the rewriting is given up.
WriteFailsHolding ==
    /\ cur # NoFile /\ pc \in {"inside", "outside"}
    /\ stray' = stray \ {cur}
    /\ UNCHANGED <<git, name, there, text, tracked, pc, args, found, rewrite, bounds, history>>

\* OSError: the temporary file is removed, the error ends the run.
WriteFails ==
    /\ cur # NoFile /\ pc \in {"inside", "outside"}
    /\ pc' = "aborted"
    /\ stray' = stray \ {cur} /\ cur' = NoFile /\ buf' = {}
    /\ UNCHANGED <<git, name, there, text, tracked, args, found, todo, bounds, history>>

\* Mutant: the artifact's own content is taken for done with the move.
LoopEndsAtOnce ==
    /\ cur = NoFile
    /\ \/ pc = "inside" /\ pc' = "outside" /\ todo' = refs
       \/ pc = "outside" /\ todo = {} /\ pc' = "applied" /\ UNCHANGED todo
    /\ UNCHANGED <<repo, args, found, cur, buf, bounds, history>>

\* From the artifact's content to the references, from these to "Applied."
LoopEnds ==
    /\ cur = NoFile /\ todo = {}
    /\ \/ pc = "inside" /\ pc' = "outside" /\ todo' = refs
       \/ pc = "outside" /\ pc' = "applied" /\ UNCHANGED todo
    /\ UNCHANGED <<repo, args, found, cur, buf, bounds, history>>

Kill ==
    /\ pc \notin Ended
    /\ pc' = "killed" /\ cur' = NoFile /\ buf' = {}
    /\ UNCHANGED <<repo, args, found, todo, bounds, history>>

\* Other people and tools.
Edit(f, i) ==
    /\ edits < MaxEdits /\ Readable(f)
    /\ edits' = edits + 1
    /\ text' = [text EXCEPT ![f] = IF i \in @ THEN @ \ {i} ELSE @ \cup {i}]
    /\ disturbed' = disturbed \cup {f}
    /\ UNCHANGED <<git, name, there, tracked, stray, pc, args, found, rewrite, runs, was>>

GitAdd ==
    LET unstaged == {f \in Files \ tracked : Exists(f)}
    IN  /\ unstaged # {}
        /\ tracked' = tracked \cup unstaged
        /\ disturbed' = disturbed \cup unstaged
        /\ UNCHANGED <<git, name, there, text, stray, pc, args, found, rewrite, bounds, was>>

Done == pc \in Ended /\ runs = MaxRuns /\ UNCHANGED vars

Step ==
    \/ AskRemote \/ Locate \/ Count \/ Move
    \/ \E f \in Files : Skip(f) \/ Read(f)
    \/ Replace \/ LoopEnds

Next ==
    \/ \E c \in Calls, y \in BOOLEAN : Invoke(c[1], c[2], y)
    \/ Step \/ WriteFails \/ Kill
    \/ \E f \in Files, i \in EditIds : Edit(f, i)
    \/ GitAdd \/ Done

Spec == Init /\ [][Next]_vars

-----------------------------------------------------------------------------
(* Properties *)

\* Whenever the process is killed or fails, and however often it is started again:
\* a file that nobody else touched has the text it had, or that text with OLD turned
\* into NEW and every other id, longer ids that begin with OLD included, kept.
WholeFiles ==
    \A f \in Files \ disturbed :
        \/ text[f] = was[f]
        \/ old \in was[f] /\ text[f] = (was[f] \ {old}) \cup {new}

\* "Applied." is only said when no mention of OLD is left in the artifact and in the
\* files the search covers: the tracked ones, or all where git grep does not work.
\* Not covered are files others touched meanwhile and those whose path begins with
\* the path the artifact had.
AppliedIsComplete ==
    pc = "applied" =>
        \A f \in Files \ disturbed :
            /\ Readable(f)
            /\ \/ Home[f] = art
               \/ (f \in tracked \/ ~git) /\ ~Begins(art, old, Home[f])
            => old \notin text[f]

\* What a step may rewrite: only what OLD was approved for, once the artifact has NEW.
MovedFirst ==
    \A f \in Files :
        text'[f] # text[f] /\ f \notin disturbed' =>
            /\ yes /\ pc \in {"inside", "outside"}
            /\ \E e \in there : name[e] = new

\* A rewritten reference resolves from the moment it is rewritten, so also if the
\* process is killed right after: the artifact has NEW by then.  And a run that is
\* refused, or not approved with --yes, writes nothing.
RewrittenAfterMove == [][MovedFirst]_vars
=============================================================================
