------------------------------ MODULE Provider ------------------------------
(***************************************************************************)
(* What the toolkit works out from a machine without changing it: the      *)
(* delegation provider (tools/delegate/_common.py), the delegation gate    *)
(* (partials/delegate-gate.sh), and the forge provider, once in Python     *)
(* (tools/adlc/forge_config.py) and once in shell (partials/forge.sh).     *)
(*                                                                         *)
(* A machine m is a record:                                                *)
(*   env                variable -> value, "" when it is unset or empty    *)
(*   rc                 variables exported in an rc file                   *)
(*   machine, project   lines of the two configuration files, or NoConfig  *)
(*   origin             host and has, the shell patterns the URL matches   *)
(*   has                facts that hold, among them "adlc-read" (on PATH)  *)
(***************************************************************************)
EXTENDS FlatConfig

CONSTANTS
    NoConfig,
    VarNames,   \* values that are valid names of variables
    KeyFamily,  \* values that match a known family of keys
    Blobs       \* long values of letters and digits without an underscore

Lower(v) ==
    CASE v = "TRUE" -> "true" [] v = "GitHub" -> "github" [] OTHER -> v

\* a or b or ...: the first value that is not empty, the last one if all are.
FirstOf(s) ==
    IF \E i \in DOMAIN s : s[i] # "" THEN s[CHOOSE i \in DOMAIN s : s[i] # "" /\ \A j \in 1 .. i - 1 : s[j] = ""]
    ELSE ""

Lines(c) == IF c = NoConfig THEN <<>> ELSE c
Get(f, k) == IF k \in DOMAIN f THEN f[k] ELSE ""
Env(m, v) == Get(m.env, v)

-----------------------------------------------------------------------------
(* The delegation provider *)

DelegateKeys == {"enabled", "base_url", "model", "api_key_env"}
DelegateConfig(m) == ParseBlock(Lines(m.machine), "delegate", DelegateKeys)

LooksLikeKey(v) == v # "" /\ (v \in KeyFamily \/ v \in Blobs \/ v \notin VarNames)

DefaultKeyVar == "MOONSHOT_API_KEY"
LegacyKeyVars == {"MOONSHOT_API_KEY", "KIMI_API_KEY"}

TrueWords == {"true", "yes", "1", "on"}
DelegationEnabled(m) ==
    \/ Lower(Get(DelegateConfig(m), "enabled")) \in TrueWords
    \/ Env(m, "ADLC_DELEGATE_ENABLED") = "1"
    \/ \E v \in LegacyKeyVars : Env(m, v) # ""

\* resolve_provider raises before it looks at anything else.
Refuses(m) == LooksLikeKey(Get(DelegateConfig(m), "api_key_env"))

ResolveProvider(m) ==
    LET cfg == DelegateConfig(m)
    IN  [keyVar |-> FirstOf(<<Env(m, "ADLC_DELEGATE_API_KEY_ENV"), Get(cfg, "api_key_env"), DefaultKeyVar>>),
         url |-> FirstOf(<<Env(m, "ADLC_DELEGATE_BASE_URL"), Get(cfg, "base_url"), "shipped">>),
         model |-> FirstOf(<<Env(m, "ADLC_DELEGATE_MODEL"), Get(cfg, "model"), "shipped">>)]

\* resolve_key: the rc files are read for the default variable only.
ResolveKey(m, var) == Env(m, var) # "" \/ (var = DefaultKeyVar /\ var \in m.rc)

PrintEnabled(m) == ~Refuses(m) /\ DelegationEnabled(m)

OptedIn(m) ==
    \/ Env(m, "ADLC_DELEGATE_ENABLED") = "1"
    \/ \E v \in LegacyKeyVars : Env(m, v) # ""
    \/ m.machine # NoConfig /\ PrintEnabled(m)

\* Mutant: delegation cannot be disabled.
GateAlwaysOn(m) ==
    IF "adlc-read" \notin m.has THEN [rc |-> 2, reason |-> "no-binary"]
    ELSE IF ~OptedIn(m) THEN [rc |-> 1, reason |-> "not-opted-in"]
    ELSE [rc |-> 0, reason |-> "ok"]

Gate(m) ==
    IF "adlc-read" \notin m.has THEN [rc |-> 2, reason |-> "no-binary"]
    ELSE IF Env(m, "ADLC_DISABLE_DELEGATE") = "1" THEN [rc |-> 1, reason |-> "disabled-via-env"]
    ELSE IF ~OptedIn(m) THEN [rc |-> 1, reason |-> "not-opted-in"]
    ELSE [rc |-> 0, reason |-> "ok"]

-----------------------------------------------------------------------------
(* The forge provider *)

ForgeConfig(c) == ParseBlock(Lines(c), "forge", {"provider", "auth"})

GithubHosts == {"github.com", "ssh.github.com"}
AzureHosts == {"dev.azure.com", "ssh.dev.azure.com", "visualstudio.com", "org.visualstudio.com"}

DetectProvider(url) ==
    IF url.host \in GithubHosts THEN "github"
    ELSE IF url.host \in AzureHosts THEN "azure-devops" ELSE "error"

\* resolve_provider: project, machine, origin; an explicit value must be supported.
PythonProvider(m) ==
    LET said == FirstOf([i \in 1 .. 2 |->
                    LET p == Lower(Get(ForgeConfig(IF i = 1 THEN m.project ELSE m.machine), "provider"))
                    IN  IF p = "auto" THEN "" ELSE p])
    IN  IF said = "" THEN DetectProvider(m.origin)
        ELSE IF said \in {"github", "azure-devops"} THEN said ELSE "error"

\* adlc_forge_provider: without a configuration file the URL is matched by patterns.
ShellProvider(m) ==
    IF Env(m, "ADLC_FORGE_MOCK") = "1" THEN FirstOf(<<Env(m, "ADLC_FORGE_MOCK_PROVIDER"), "github">>)
    ELSE IF Env(m, "ADLC_FORGE_PROVIDER_OVERRIDE") # "" THEN Env(m, "ADLC_FORGE_PROVIDER_OVERRIDE")
    ELSE IF m.project # NoConfig \/ m.machine # NoConfig THEN PythonProvider(m)
    ELSE IF "github.com" \in m.origin.has THEN "github"
    ELSE IF m.origin.has # {} THEN "azure-devops" ELSE "error"

\* _forge_pat_status: the variable that forge.auth of the project names.
PatIsSet(m) ==
    LET auth == Get(ForgeConfig(m.project), "auth")
    IN  auth \notin {"", "gh", "az"} /\ Env(m, auth) # ""
=============================================================================
