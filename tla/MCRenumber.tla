----------------------------- MODULE MCRenumber -----------------------------
(***************************************************************************)
(* Three repositories: a bare REQ-120 beside a REQ-1200 and a colleague's  *)
(* REQ-120; REQ-120-auth beside REQ-120-auth-v2; two bugs of one slug.     *)
(***************************************************************************)
EXTENDS Renumber

MCIds == {"REQ-120", "REQ-1200", "REQ-121", "BUG-7", "BUG-8", "req120"}
MCKind == [i \in MCIds |->
    CASE i = "req120" -> "none" [] i \in {"BUG-7", "BUG-8"} -> "BUG" [] OTHER -> "REQ"]
MCIdPrefix == {<<"REQ-120", "REQ-1200">>}

MCSlug == <<"", "auth", "auth-v2", "">>
MCSlugPrefix == {<<"", "auth">>, <<"", "auth-v2">>, <<"auth", "auth-v2">>}
MCFirstNames == {<<"REQ-120", "REQ-1200", "REQ-120", "BUG-8">>,
                 <<"BUG-7", "REQ-120", "REQ-120", "BUG-8">>,
                 <<"REQ-121", "REQ-1200", "REQ-121", "REQ-120">>}

MCHome == [one |-> 1, two |-> 2, three |-> 3, four |-> 4, note |-> 0]
MCFiles == DOMAIN MCHome
MCFirstTexts == {[f \in MCFiles |-> {"REQ-120", "REQ-1200", "BUG-7"}]}
MCFirstTracked == {MCFiles, {"two", "note"}}
MCCalls == {<<"REQ-120", "REQ-121">>, <<"BUG-7", "BUG-8">>, <<"REQ-120", "BUG-7">>,
            <<"req120", "REQ-121">>, <<"REQ-120", "REQ-120">>}
=============================================================================
