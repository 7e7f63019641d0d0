--------------------------- MODULE MCAgentsRender ---------------------------
(***************************************************************************)
(* Two processes; the first and the last agent have a file.                *)
(***************************************************************************)
EXTENDS AgentsRender

MCTier == <<"reviewer", "explorer", "reviewer">>
MCShipped == <<"opus", "haiku", "sonnet">>
MCName == <<"adversary", "feature-tracer", "test-auditor">>
MCModelValues == {"opus", "sonnet", "haiku", "inherit"}
MCWords == MCModelValues \cup {"", "x"}

Written(k) == [key |-> k, val |-> "", exact |-> TRUE]
\* "model:opus", or with a blank too many.
Spelled(m) == [ModelLine(m) EXCEPT !.exact = FALSE]

Tiered(line) == [split |-> TRUE, fm |-> <<Written("other"), line, Written("tier")>>]
Unmodelled == [split |-> TRUE, fm |-> <<Written("tier"), Written("other")>>]
Doubles == [split |-> TRUE, fm |-> <<ModelLine("haiku"), Spelled("x")>>]
Plain == [split |-> FALSE, fm |-> <<Written("other")>>]

MCFirstTexts == {<<Tiered(Spelled("opus")), Torn, Unmodelled>>, <<Tiered(ModelLine("x")), Torn, Plain>>}
MCEditTexts == {Doubles, Tiered(ModelLine("inherit"))}

MCConfigs == {
    <<>>,
    <<Line(0, "agents", ""), Line(2, "classes", ""), Line(4, "reviewer", "inherit"),
      Line(2, "overrides", ""), Line(4, "adversary", "sonnet")>>,
    <<Line(0, "agents", ""), Line(2, "classes", ""), Line(4, "reviewer", "haiku"),
      Line(2, "overrides", ""), Line(4, "adversary", "x")>>}

\* TLC evaluates: on every file of up to five lines of these kinds the loops of the
\* readers compute what the definitions without a loop say.
LineKinds == {Line(0, "agents", ""), Line(2, "classes", ""), Noted(Line(1, "overrides", "")),
              Line(2, "overrides", ""), Line(3, "k", "v"), Noted(Line(2, "k", "w")), Bare(1, "k"),
              Line(1, "l", "v"), Quoted(Line(2, "overrides", "")), Quoted(Noted(Line(2, "k", "q")))}
SmallFiles == UNION {[1 .. n -> LineKinds] : n \in 0 .. 5}
ASSUME ReadersAreRight ==
    \A lines \in SmallFiles :
        AgentsAreRead(lines) /\ BlockIsRead(lines, "agents", {"k", "overrides"})
=============================================================================
