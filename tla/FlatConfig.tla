----------------------------- MODULE FlatConfig -----------------------------
(***************************************************************************)
(* The readers of ~/.claude/adlc/config.yml and .adlc/config.yml, which    *)
(* are not YAML parsers: parse_delegate_config, parse_forge_config (one    *)
(* level) and parse_agents_config (two).  Blank and comment lines are left *)
(* out; of the others a reader sees the indentation, the key before the    *)
(* first colon (the whole line when it has none), the value, whether it    *)
(* stands in quotes, and whether a comment follows it.                     *)
(***************************************************************************)
EXTENDS Naturals, Sequences, SequencesExt

Line(ind, key, val) ==
    [ind |-> ind, key |-> key, val |-> val, colon |-> TRUE, note |-> FALSE, quoted |-> FALSE]
Noted(line) == [line EXCEPT !.note = TRUE]
Quoted(line) == [line EXCEPT !.quoted = TRUE]
Bare(ind, word) == [Line(ind, word, "") EXCEPT !.colon = FALSE]

\* _strip_inline: quotes and a comment are taken off, but a comment is itself the value
\* of a key that has none, and stays behind a value in quotes, with the quotes.
\* NoteAsValue stands for any value with a comment left in it.
NoteAsValue == "# note"
StripInline(line) == IF line.note /\ (line.val = "" \/ line.quoted) THEN NoteAsValue ELSE line.val

\* Nothing follows the colon, not even quotes or a comment.
Valueless(line) == line.val = "" /\ ~line.note /\ ~line.quoted

\* The line that opens a section stands alone at the left margin.
Opens(line, section) ==
    line.ind = 0 /\ line.key = section /\ line.colon /\ Valueless(line)

Files == Seq([ind : Nat, key : STRING, val : STRING, colon : BOOLEAN, note : BOOLEAN, quoted : BOOLEAN])

NoKeys == [k \in {} |-> ""]
Put(f, k, v) == [x \in DOMAIN f \cup {k} |-> IF x = k THEN v ELSE f[x]]

-----------------------------------------------------------------------------
(* One level: a section ends at the margin, or left of its first line. *)

BlockLine(section, known, s, line) ==
    IF s.in = "after" \/ (s.in = "before" /\ ~Opens(line, section)) THEN s
    ELSE IF s.in = "before" THEN [s EXCEPT !.in = "inside"]
    ELSE IF line.ind = 0 \/ line.ind < s.first THEN [s EXCEPT !.in = "after"]
    ELSE [s EXCEPT !.first = IF @ = 0 THEN line.ind ELSE @,
                   !.out = IF line.colon /\ line.key \in known
                           THEN Put(@, line.key, StripInline(line)) ELSE @]

ParseBlock(lines, section, known) ==
    LET read[i \in 0 .. Len(lines)] ==
            IF i = 0 THEN [in |-> "before", first |-> 0, out |-> NoKeys]
            ELSE BlockLine(section, known, read[i - 1], lines[i])
    IN  read[Len(lines)].out

(* Two levels: `classes` and `overrides` under `agents`, wherever they stand. *)

SubMaps == {"classes", "overrides"}

AgentsLine(s, line) ==
    IF s.in = "after" \/ (s.in = "before" /\ ~Opens(line, "agents")) THEN s
    ELSE IF s.in = "before" THEN [s EXCEPT !.in = "inside"]
    ELSE IF line.ind = 0 THEN [s EXCEPT !.in = "after"]
    ELSE IF line.key \in SubMaps /\ Valueless(line)
         THEN [s EXCEPT !.sub = line.key, !.first = 0]
    ELSE IF s.sub = "" \/ ~line.colon THEN s
    ELSE IF line.ind < s.first THEN [s EXCEPT !.sub = ""]
    ELSE [s EXCEPT !.first = IF @ = 0 THEN line.ind ELSE @,
                   !.out[s.sub] = Put(@, line.key, StripInline(line))]

ParseAgents(lines) ==
    LET read[i \in 0 .. Len(lines)] ==
            IF i = 0 THEN [in |-> "before", sub |-> "", first |-> 0, out |-> [m \in SubMaps |-> NoKeys]]
            ELSE AgentsLine(read[i - 1], lines[i])
    IN  read[Len(lines)].out

-----------------------------------------------------------------------------
(* What the readers compute, said without the loop. *)

\* The lines between the opening of a section and the next line at the margin.
Within(lines, section) ==
    {i \in DOMAIN lines :
        \E o \in 1 .. i - 1 :
            /\ Opens(lines[o], section)
            /\ \A j \in 1 .. o - 1 : ~Opens(lines[j], section)
            /\ \A j \in o + 1 .. i : lines[j].ind # 0}

\* Each key with the value of its last line in I.
LastOf(lines, I) ==
    [k \in {lines[i].key : i \in I} |->
        StripInline(lines[CHOOSE i \in I : lines[i].key = k /\ \A j \in I : lines[j].key = k => j <= i])]

\* The lines of a section: behind its opening, up to the margin or left of the first.
SectionLines(lines, section) ==
    {i \in DOMAIN lines :
        \E o \in 1 .. i - 1 :
            /\ Opens(lines[o], section)
            /\ \A j \in 1 .. o - 1 : ~Opens(lines[j], section)
            /\ \A j \in o + 1 .. i : lines[j].ind # 0 /\ lines[o + 1].ind <= lines[j].ind}

\* What a section says, whoever reads it.
SectionSays(lines, section) == LastOf(lines, {i \in SectionLines(lines, section) : lines[i].colon})

BlockIsRead(lines, section, known) ==
    ParseBlock(lines, section, known) =
        [k \in known \cap DOMAIN SectionSays(lines, section) |-> SectionSays(lines, section)[k]]

\* A key belongs to the last header before it, until a key stands left of its first.
AgentsAreRead(lines) ==
    LET body == Within(lines, "agents")
        heads == {i \in body : lines[i].key \in SubMaps /\ Valueless(lines[i])}
        keys == {i \in body \ heads : lines[i].colon}
        Under(h) == {i \in keys : h < i /\ \A g \in heads : g <= h \/ i < g}
        Level(h) == {i \in Under(h) : \A j, f \in Under(h) :
                         (\A g \in Under(h) : f <= g) /\ j <= i => lines[j].ind >= lines[f].ind}
        Of(m) == UNION {Level(h) : h \in {g \in heads : lines[g].key = m}}
    IN  ParseAgents(lines) = [m \in SubMaps |-> LastOf(lines, Of(m))]
=============================================================================
