---------------------------- MODULE AgentsRender ----------------------------
(***************************************************************************)
(* tools/adlc/agents_render.py: `adlc agents render` writes the model of   *)
(* every agent, as the configuration gives it, into the `model:` line of   *)
(* its file; `--check` only compares.  Any number of renders and checks    *)
(* may run at once, be killed, or find a file edited under them.           *)
(*                                                                         *)
(* A file is its frontmatter, a sequence of lines, or has none.  A line    *)
(* has a key, a value as _current_model strips it, and is `exact` when it  *)
(* is spelled as _render_text spells it, "<key>: <value>", and not with    *)
(* other blanks.  An agent is its position in the sorted list of names.    *)
(***************************************************************************)
EXTENDS FlatConfig

CONSTANTS
    Procs,
    NAgents,
    Present,     \* agents whose file exists
    Tier,        \* agent -> class
    Shipped,     \* agent -> model
    Name,        \* agent -> its key under `overrides`
    Classes,
    ModelValues, \* the aliases and the full model ids
    NoTmp,
    Words,       \* every value of a line
    FirstTexts,  \* bound: [Agents -> Texts] at the start
    EditTexts,   \* bound: what people write
    Configs,     \* bound: configuration files
    MaxEdits,    \* bound: edits of a file or of the configuration
    MaxStarts    \* bound: processes started

Agents == 1 .. NAgents
LineKeys == {"model", "tier", "other"}
Texts == [split : BOOLEAN, fm : Seq([key : LineKeys, val : Words, exact : BOOLEAN])]

ASSUME NAgentsType == NAgents \in Nat
ASSUME PresentType == Present \subseteq Agents
ASSUME ShippedType == Shipped \in [Agents -> ModelValues]
ASSUME TierType == Tier \in [Agents -> Classes]
ASSUME WordsType == ModelValues \subseteq Words
ASSUME TextsType == FirstTexts \subseteq [Agents -> Texts] /\ EditTexts \subseteq Texts
ASSUME NoTmpType == NoTmp \notin Texts
ASSUME ProcsType == MaxEdits \in Nat /\ MaxStarts \in Nat

VARIABLES
    config,    \* lines of the configuration file
    text,      \* agent -> its file
    tmp,       \* agent -> the file .md.tmp beside it, or NoTmp
    pc, mode,  \* process -> where it is, render or check
    conf,      \* process -> configuration it read
    at,        \* process -> agent of the loop
    new,       \* process -> text to be written
    fd,        \* process -> where the file it has open is found: "tmp", "file", "gone"
    drift,     \* process -> agents a check reported
    edits, starts, \* counters of the bounds
    base,      \* history: agent -> text people last gave it
    clash,     \* history: agents whose temporary file two renders had in use
    raced,     \* history: agents edited between a render's read and its replacement
    calm       \* history: process -> nothing else has moved since it began

disk == <<text, tmp>>
local == <<mode, conf, at, new, fd, drift>>
history == <<base, clash, raced, calm>>
bounds == <<edits, starts>>
vars == <<config, disk, pc, local, bounds, history>>

Torn == [split |-> FALSE, fm |-> <<>>]
Over == {"idle", "invalid", "done", "aborted", "killed"}
Writing == {"opening", "writing", "replacing"}

TypeOK ==
    /\ text \in [Agents -> Texts] /\ base \in [Agents -> Texts]
    /\ \A a \in Agents : tmp[a] \in Texts \cup {NoTmp}
    /\ DOMAIN tmp = Agents
    /\ pc \in [Procs -> Over \cup Writing \cup {"next"}]
    /\ mode \in [Procs -> {"render", "check"}]
    /\ at \in [Procs -> 1 .. NAgents + 1]
    /\ new \in [Procs -> Texts]
    /\ fd \in [Procs -> {"none", "tmp", "file", "gone"}]
    /\ drift \in [Procs -> SUBSET Agents]
    /\ DOMAIN conf = Procs
    /\ edits \in Nat /\ starts \in Nat
    /\ clash \subseteq Agents /\ raced \subseteq Agents
    /\ calm \in [Procs -> BOOLEAN]
    /\ \A p \in Procs : pc[p] \in Writing => at[p] \in Agents

-----------------------------------------------------------------------------
(* Configuration *)

\* Mutant: overrides go unchecked.
ValidClassesOnly(c) ==
    \A k \in DOMAIN c.classes : k \in Classes /\ c.classes[k] \in ModelValues

\* validate_config: nothing is written unless every value is known, and every class.
Valid(c) ==
    /\ \A k \in DOMAIN c.classes : k \in Classes /\ c.classes[k] \in ModelValues
    /\ \A k \in DOMAIN c.overrides : c.overrides[k] \in ModelValues

\* resolve_model: override, class, shipped.
Target(c, a) ==
    IF Name[a] \in DOMAIN c.overrides THEN c.overrides[Name[a]]
    ELSE IF Tier[a] \in DOMAIN c.classes THEN c.classes[Tier[a]]
    ELSE Shipped[a]

(* Frontmatter *)

HasKey(fm, k) == \E i \in DOMAIN fm : fm[i].key = k
First(fm, k) == CHOOSE i \in DOMAIN fm : fm[i].key = k /\ \A j \in 1 .. i - 1 : fm[j].key # k
ModelLine(m) == [key |-> "model", val |-> m, exact |-> TRUE]

\* Mutant: the alias "inherit" is written down like any other.
RenderInherit(t, m) ==
    LET fm == t.fm
        after == IF HasKey(fm, "tier") THEN First(fm, "tier") ELSE 0
    IN  IF ~t.split THEN t
        ELSE [t EXCEPT !.fm =
            IF HasKey(fm, "model") THEN ReplaceAt(fm, First(fm, "model"), ModelLine(m))
            ELSE InsertAt(fm, after + 1, ModelLine(m))]

\* _render_text: the first model line is set, whatever its spelling, inserted behind
\* the tier, or deleted.
RenderText(t, m) ==
    LET fm == t.fm
        after == IF HasKey(fm, "tier") THEN First(fm, "tier") ELSE 0
    IN  IF ~t.split THEN t
        ELSE [t EXCEPT !.fm =
            IF m = "inherit"
            THEN IF HasKey(fm, "model") THEN RemoveAt(fm, First(fm, "model")) ELSE fm
            ELSE IF HasKey(fm, "model") THEN ReplaceAt(fm, First(fm, "model"), ModelLine(m))
            ELSE InsertAt(fm, after + 1, ModelLine(m))]

\* _current_model: of a file without frontmatter there is none; the spelling of the
\* line does not matter.
CurrentModel(t) ==
    IF ~t.split THEN "none"
    ELSE IF HasKey(t.fm, "model") THEN t.fm[First(t.fm, "model")].val ELSE "inherit"

-----------------------------------------------------------------------------
Goto(p, l) == pc' = [pc EXCEPT ![p] = l]
Running(p) == pc[p] \notin Over

Init ==
    /\ config \in Configs
    /\ text \in FirstTexts /\ base = text
    /\ tmp = [a \in Agents |-> NoTmp]
    /\ pc = [p \in Procs |-> "idle"] /\ mode = [p \in Procs |-> "check"]
    /\ conf = [p \in Procs |-> ParseAgents(<<>>)]
    /\ at = [p \in Procs |-> 1] /\ new = [p \in Procs |-> Torn]
    /\ fd = [p \in Procs |-> "none"] /\ drift = [p \in Procs |-> {}]
    /\ edits = 0 /\ starts = 0
    /\ clash = {} /\ raced = {} /\ calm = [p \in Procs |-> FALSE]

\* The configuration is read and validated before any file is looked at.
Start(p, m) ==
    LET c == ParseAgents(config)
    IN  /\ ~Running(p) /\ starts < MaxStarts
        /\ starts' = starts + 1
        /\ mode' = [mode EXCEPT ![p] = m]
        /\ conf' = [conf EXCEPT ![p] = c]
        /\ at' = [at EXCEPT ![p] = 1]
        /\ drift' = [drift EXCEPT ![p] = {}]
        /\ Goto(p, IF Valid(c) THEN "next" ELSE "invalid")
        /\ calm' = [q \in Procs |-> q = p /\ \A r \in Procs \ {p} : ~Running(r)]
        /\ UNCHANGED <<config, disk, new, fd, edits, base, clash, raced>>

\* Mutant: the loop counts on before it writes.
VisitAhead(p) ==
    /\ pc[p] = "next" /\ at[p] \in Agents
    /\ Goto(p, IF at[p] \in Present /\ mode[p] = "render" THEN "opening" ELSE "next")
    /\ new' = [new EXCEPT ![p] = RenderText(text[at[p]], Target(conf[p], at[p]))]
    /\ at' = [at EXCEPT ![p] = @ + 1]
    /\ UNCHANGED <<config, disk, mode, conf, fd, drift, bounds, history>>

\* The loop: a missing file is passed over, a check compares, a render goes on to
\* write if the text changes.
Visit(p) ==
    LET a == at[p]
        target == Target(conf[p], a)
        rendered == RenderText(text[a], target)
    IN  /\ pc[p] = "next" /\ a \in Agents
        /\ \/ /\ a \in Present /\ mode[p] = "render" /\ rendered # text[a]
              /\ Goto(p, "opening")
              /\ new' = [new EXCEPT ![p] = rendered]
              /\ UNCHANGED <<at, drift>>
           \/ /\ a \notin Present \/ mode[p] = "check" \/ rendered = text[a]
              /\ at' = [at EXCEPT ![p] = @ + 1]
              /\ drift' = IF a \in Present /\ mode[p] = "check" /\ CurrentModel(text[a]) # target
                          THEN [drift EXCEPT ![p] = @ \cup {a}] ELSE drift
              /\ UNCHANGED <<pc, new>>
        /\ UNCHANGED <<config, disk, mode, conf, fd, bounds, history>>

\* Mutant: the file itself is opened for writing.
OpenInPlace(p) ==
    LET a == at[p]
    IN  /\ pc[p] = "opening"
        /\ text' = [text EXCEPT ![a] = Torn]
        /\ tmp' = [tmp EXCEPT ![a] = Torn]
        /\ fd' = [fd EXCEPT ![p] = "tmp"]
        /\ Goto(p, "writing")
        /\ UNCHANGED <<config, mode, conf, at, new, drift, bounds, history>>

\* _atomic_write: open(path + ".tmp", "w") truncates what is there, ...
Open(p) ==
    LET a == at[p]
    IN  /\ pc[p] = "opening"
        /\ tmp' = [tmp EXCEPT ![a] = Torn]
        /\ fd' = [fd EXCEPT ![p] = "tmp"]
        /\ clash' = IF \E q \in Procs \ {p} : at[q] = a /\ pc[q] \in {"writing", "replacing"}
                    THEN clash \cup {a} ELSE clash
        /\ Goto(p, "writing")
        /\ UNCHANGED <<config, text, mode, conf, at, new, drift, bounds, base, raced, calm>>

\* ... the text goes to the open file, whatever its name is by now, ...
Write(p) ==
    LET a == at[p]
    IN  /\ pc[p] = "writing"
        /\ tmp' = IF fd[p] = "tmp" THEN [tmp EXCEPT ![a] = new[p]] ELSE tmp
        /\ text' = IF fd[p] = "file" THEN [text EXCEPT ![a] = new[p]] ELSE text
        /\ fd' = [fd EXCEPT ![p] = "none"]
        /\ Goto(p, "replacing")
        /\ UNCHANGED <<config, mode, conf, at, new, drift, bounds, history>>

\* Mutant: the loop goes on to the next file without the last one in place.
ReplaceLater(p) ==
    /\ pc[p] = "replacing"
    /\ at' = [at EXCEPT ![p] = @ + 1]
    /\ Goto(p, "next")
    /\ UNCHANGED <<config, disk, mode, conf, new, fd, drift, bounds, history>>

\* ... and os.replace takes what lies under the temporary name.  Another render may
\* have taken it away: FileNotFoundError.
Replace(p) ==
    LET a == at[p]
        Moved(q) == IF at[q] # a \/ q = p THEN fd[q]
                    ELSE IF fd[q] = "tmp" THEN "file" ELSE IF fd[q] = "file" THEN "gone" ELSE fd[q]
    IN  /\ pc[p] = "replacing"
        /\ \/ tmp[a] = NoTmp /\ Goto(p, "aborted") /\ UNCHANGED <<disk, fd, at>>
           \/ /\ tmp[a] # NoTmp
              /\ text' = [text EXCEPT ![a] = tmp[a]]
              /\ tmp' = [tmp EXCEPT ![a] = NoTmp]
              /\ fd' = [q \in Procs |-> Moved(q)]
              /\ at' = [at EXCEPT ![p] = @ + 1]
              /\ Goto(p, "next")
        /\ UNCHANGED <<config, mode, conf, new, drift, bounds, history>>

Finish(p) ==
    /\ pc[p] = "next" /\ at[p] \notin Agents
    /\ Goto(p, "done")
    /\ UNCHANGED <<config, disk, local, bounds, history>>

Kill(p) ==
    /\ Running(p)
    /\ Goto(p, "killed") /\ fd' = [fd EXCEPT ![p] = "none"]
    /\ UNCHANGED <<config, disk, mode, conf, at, new, drift, bounds, history>>

\* People edit agents and the configuration.
Edit(a, t) ==
    /\ edits < MaxEdits /\ a \in Present /\ t # text[a]
    /\ edits' = edits + 1
    /\ text' = [text EXCEPT ![a] = t] /\ base' = [base EXCEPT ![a] = t]
    /\ raced' = IF \E p \in Procs : pc[p] \in Writing /\ at[p] = a THEN raced \cup {a} ELSE raced
    /\ calm' = [p \in Procs |-> FALSE]
    /\ UNCHANGED <<config, tmp, pc, local, starts, clash>>

Configure(c) ==
    /\ edits < MaxEdits /\ c # config
    /\ edits' = edits + 1
    /\ config' = c
    /\ UNCHANGED <<disk, pc, local, starts, history>>

Done == (\A p \in Procs : ~Running(p)) /\ UNCHANGED vars

Step(p) == Visit(p) \/ Open(p) \/ Write(p) \/ Replace(p) \/ Finish(p)

Next ==
    \/ \E p \in Procs : Step(p) \/ Kill(p) \/ \E m \in {"render", "check"} : Start(p, m)
    \/ \E a \in Agents, t \in EditTexts : Edit(a, t)
    \/ \E c \in Configs : Configure(c)
    \/ Done

Spec == Init /\ [][Next]_vars

-----------------------------------------------------------------------------
(* Properties *)

Rest(t) ==
    LET rest[i \in 0 .. Len(t.fm)] ==
            IF i = 0 THEN <<>>
            ELSE IF t.fm[i].key = "model" THEN rest[i - 1] ELSE Append(rest[i - 1], t.fm[i])
    IN  rest[Len(t.fm)]

ModelsOf(t) == {t.fm[i].val : i \in {j \in DOMAIN t.fm : t.fm[j].key = "model"}}

\* Wherever a render is killed, and whatever was left behind by one that was: an agent
\* file has the frontmatter people gave it, all lines but the model's, in their order,
\* never part of it, and each of its model lines names one of theirs or a known model.
\* The two ways out of this are two renders in one temporary file, and an edit between
\* a render's read and its replacement.
FilesWhole ==
    \A a \in Agents \ (clash \cup raced) :
        /\ text[a].split = base[a].split
        /\ Rest(text[a]) = Rest(base[a])
        /\ ModelsOf(text[a]) \subseteq ModelValues \cup ModelsOf(base[a])

Doubled(t) == \E i, j \in DOMAIN t.fm : i # j /\ t.fm[i].key = "model" /\ t.fm[j].key = "model"

\* When a render is done, and nothing else was going on, every agent that has
\* frontmatter shows the model that its own configuration resolves to; one that
\* inherits has no model line, unless people had given it two, or edited it once under
\* a render, which put the lines it had read back.
RenderedIsClean ==
    \A p \in Procs, a \in Present :
        pc[p] = "done" /\ mode[p] = "render" /\ calm[p] /\ text[a].split =>
            LET m == Target(conf[p], a)
            IN  /\ m # "inherit" => CurrentModel(text[a]) = m
                /\ m = "inherit" /\ a \notin raced /\ ~Doubled(base[a]) => ~HasKey(text[a].fm, "model")

\* When a check is done, and nothing else was going on, a render would change every
\* file with frontmatter that it reported, and it has passed over none that a render
\* would change, but for two kinds: a file whose model line says "inherit" where the
\* agent is to inherit, which a render deletes, and a file whose model line names the
\* right model in another spelling, which a render respells.
CheckPredictsRender ==
    \A p \in Procs, a \in Present :
        pc[p] = "done" /\ mode[p] = "check" /\ calm[p] /\ text[a].split =>
            LET m == Target(conf[p], a)
                changes == RenderText(text[a], m) # text[a]
            IN  /\ a \in drift[p] => changes
                /\ changes /\ a \notin drift[p] =>
                       /\ HasKey(text[a].fm, "model")
                       /\ m = "inherit" \/ ~text[a].fm[First(text[a].fm, "model")].exact
=============================================================================
