------------------------------- MODULE Doctor -------------------------------
(***************************************************************************)
(* tools/adlc/doctor.py and checks.py on the machine that Delegation runs  *)
(* on: the checks of the registry, one after the other, each of them read  *)
(* at its own moment, and the verdict.  There are two ways in: as a        *)
(* script, doctor.py has a Result of its own beside the one the checks     *)
(* import, and takes for a failure only what it reported itself.           *)
(***************************************************************************)
EXTENDS Delegation

CONSTANTS
    Requests, \* bound: values of --checks, as sequences of ids
    NoFilter, \* one of them: the option is not given
    Entries   \* "adlc", "script"

ASSUME RequestsType == NoFilter \in Requests

VARIABLES
    place,    \* "idle", "checking", "done"
    entry, only,
    registry, \* ids of the checks there are
    turn,     \* position the loop over them has reached
    outcomes, \* what the checks reported so far
    code,     \* exit status
    still     \* history: the machine has not changed since doctor began

doctor == <<place, entry, only, registry, turn, outcomes, code, still>>
vars == <<machine, step, doctor>>

Registry == <<"skills-symlink", "agents-symlink", "toolkit-clean", "path-shims", "gh-present", "forge",
              "git-identity", "delegate-gate", "counters", "launchctl", "template-version", "claude-code">>

NoCode == 9

Init ==
    /\ StepInit
    /\ place = "idle" /\ entry \in Entries /\ only = NoFilter
    /\ registry = <<>> /\ turn = 1 /\ outcomes = <<>> /\ code = NoCode /\ still = TRUE

-----------------------------------------------------------------------------
(* The checks *)

PassIf(c) == IF c THEN "PASS" ELSE "FAIL"
PassOrSkip(c) == IF c THEN "PASS" ELSE "SKIP"

\* Mutant: the login is looked at for GitHub only.
AzurePresent ==
    IF ~m.remote THEN "SKIP"
    ELSE IF "partials" \notin m.has THEN "FAIL"
    ELSE CASE ShellProvider(m) = "github" -> PassIf({"gh", "gh-login"} \subseteq m.has)
           [] ShellProvider(m) = "azure-devops" -> PassIf("az" \in m.has)
           [] OTHER -> "FAIL"

CheckForge ==
    IF ~m.remote THEN "SKIP"
    ELSE IF "partials" \notin m.has THEN "FAIL"
    ELSE CASE ShellProvider(m) = "github" -> PassIf({"gh", "gh-login"} \subseteq m.has)
           [] ShellProvider(m) = "azure-devops" ->
                  PassIf("az" \in m.has /\ ("az-login" \in m.has \/ PatIsSet(m)))
           [] OTHER -> "FAIL"

ConfigEnabled == Lower(Get(DelegateConfig(m), "enabled")) \in TrueWords

\* Mutant: a missing adlc-read is never a failure.
GateSkips ==
    IF "partials" \notin m.has THEN "FAIL" ELSE PassOrSkip(Gate(m).rc = 0)

CheckDelegateGate ==
    IF "partials" \notin m.has THEN "FAIL"
    ELSE CASE Gate(m).rc = 0 -> "PASS"
           [] Gate(m).rc = 1 -> "SKIP"
           [] Gate(m).rc = 2 -> IF ConfigEnabled THEN "FAIL" ELSE "SKIP"

\* A counter need not exist; one that is being rewritten is not a number.
CheckCounters ==
    PassIf(\A c \in DOMAIN m.counters :
               m.counters[c] \in {"absent", "number"} /\ m.locks[c] \in {"none", "young"})

\* applies_to included: it is skipped on any other system.
CheckLaunchctl ==
    IF "darwin" \notin m.has \/ "partials" \notin m.has \/ Gate(m).rc # 0 THEN "SKIP"
    ELSE PassIf("launch-agent" \in m.has)

Check(id) ==
    CASE id = "skills-symlink" -> PassIf("skills-link" \in m.has)
      [] id = "agents-symlink" -> PassIf("agents-link" \in m.has)
      [] id = "toolkit-clean" -> PassIf({"on-branch", "clean"} \subseteq m.has)
      [] id = "path-shims" -> PassIf({"adlc", "adlc-runs"} \subseteq m.has)
      [] id = "gh-present" -> PassIf("gh" \in m.has)
      [] id = "forge" -> CheckForge
      [] id = "git-identity" -> PassIf({"git-name", "git-email"} \subseteq m.has)
      [] id = "delegate-gate" -> CheckDelegateGate
      [] id = "counters" -> CheckCounters
      [] id = "launchctl" -> CheckLaunchctl
      [] id = "template-version" -> PassOrSkip("templates" \in m.has)
      [] id = "claude-code" -> PassOrSkip("claude" \in m.has)

\* A check that runs git where there is none raises; doctor reports it itself.
Raises(id) ==
    /\ "git" \notin m.has
    /\ \/ id \in {"toolkit-clean", "forge", "git-identity"}
       \/ id = "skills-symlink" /\ "skills-link" \in m.has

Outcome(id) ==
    IF Raises(id) THEN [id |-> id, result |-> "FAIL", raised |-> TRUE]
    ELSE [id |-> id, result |-> Check(id), raised |-> FALSE]

-----------------------------------------------------------------------------
(* The run *)

\* _build_registry: without the module of the checks there are none.
Available == IF "checks" \in m.has THEN Registry ELSE <<>>

Asked(id) == only # NoFilter => id \in Range(only)

\* Mutant: an id that is not known ends the run without an exit status.
BeginSilent(e, o) ==
    /\ place # "checking"
    /\ entry' = e /\ only' = o /\ outcomes' = <<>> /\ still' = TRUE
    /\ registry' = Available /\ turn' = 1 /\ code' = NoCode
    /\ place' = IF o # NoFilter /\ ~(Range(o) \subseteq Range(Available)) THEN "done" ELSE "checking"
    /\ UNCHANGED <<machine, step>>

Begin(e, o) ==
    /\ place # "checking"
    /\ entry' = e /\ only' = o /\ outcomes' = <<>> /\ still' = TRUE
    /\ registry' = Available /\ turn' = 1
    /\ IF o # NoFilter /\ ~(Range(o) \subseteq Range(Available))
       THEN place' = "done" /\ code' = 2
       ELSE place' = "checking" /\ code' = NoCode
    /\ UNCHANGED <<machine, step>>

\* run_checks: those that were not asked for are passed over.
RunCheck ==
    /\ place = "checking"
    /\ \E k \in turn .. Len(registry) :
           /\ Asked(registry[k]) /\ \A j \in turn .. k - 1 : ~Asked(registry[j])
           /\ outcomes' = Append(outcomes, Outcome(registry[k]))
           /\ turn' = k + 1
    /\ UNCHANGED <<machine, step, place, entry, only, registry, code, still>>

\* verdict_exit_code: `is Result.FAIL`, with the Result of this module.
CountsAsFail(o) == o.result = "FAIL" /\ (entry = "adlc" \/ o.raised)

Finish ==
    /\ place = "checking" /\ \A k \in turn .. Len(registry) : ~Asked(registry[k])
    /\ place' = "done"
    /\ code' = IF \E i \in DOMAIN outcomes : CountsAsFail(outcomes[i]) THEN 1 ELSE 0
    /\ UNCHANGED <<machine, step, entry, only, registry, turn, outcomes, still>>

Next ==
    \/ \E e \in Entries, o \in Requests : Begin(e, o)
    \/ RunCheck
    \/ Finish
    \/ StepNext /\ UNCHANGED doctor
    \/ Change /\ still' = FALSE /\ UNCHANGED <<place, entry, only, registry, turn, outcomes, code>>

Spec == Init /\ [][Next]_vars

-----------------------------------------------------------------------------
(* Properties *)

TypeOK ==
    /\ StepTypeOK
    /\ place \in {"idle", "checking", "done"}
    /\ entry \in Entries /\ only \in Requests
    /\ code \in {0, 1, 2, NoCode} /\ (place = "done" <=> code # NoCode)
    /\ \A i \in DOMAIN outcomes : outcomes[i].result \in {"PASS", "FAIL", "SKIP"}
    /\ still \in BOOLEAN

\* What a user who asked for id may take from a good verdict.
ForgeSays(c) ==
    LET said == Lower(Get(SectionSays(Lines(c), "forge"), "provider"))
    IN  IF said = "auto" THEN "" ELSE said
ForgeWanted ==
    IF ForgeSays(m.project) # "" THEN ForgeSays(m.project)
    ELSE IF ForgeSays(m.machine) # "" THEN ForgeSays(m.machine)
    ELSE IF m.origin.host \in GithubHosts THEN "github"
    ELSE IF m.origin.host \in AzureHosts THEN "azure-devops" ELSE ""
\* The URL does not match the pattern of the one forge while its host is the other's.
PlainOrigin ==
    /\ m.origin.host \in GithubHosts /\ m.origin.has # {} => "github.com" \in m.origin.has
    /\ m.origin.host \in AzureHosts => "github.com" \notin m.origin.has
\* Logged in, or forge.auth of the project names a variable that is set.  The check takes
\* the variable for a login, though the adapter never reads it.
AzureLogin ==
    \/ "az-login" \in m.has
    \/ LET auth == Get(SectionSays(Lines(m.project), "forge"), "auth")
       IN  auth \notin {"", "gh", "az"} /\ Env(m, auth) # ""
DelegationWanted ==
    /\ Lower(Get(DelegateLines(m), "enabled")) \in TrueWords
    /\ ~LooksLikeKey(Get(DelegateLines(m), "api_key_env"))
    /\ Env(m, "ADLC_DISABLE_DELEGATE") # "1"

Approved == place = "done" /\ code = 0 /\ entry = "adlc" /\ still /\ "checks" \in m.has
Position(id) == CHOOSE k \in DOMAIN Registry : Registry[k] = id

\* After `adlc doctor` said OK, and as long as nothing changes, what it was asked about
\* is so: the backend of the forge that the repository names is there, and somebody is
\* logged in to it; for Azure, or else the variable that the project names for the token
\* is set.  (Without a configuration file, if the URL is plain; not where a test or the
\* user sets the forge by a variable.)  Git knows the user, and the counters hold numbers
\* nobody is locked out of.  The report names each check that was asked for, and no
\* other, once and in the order of the registry.
OkMeansUsable ==
    Approved =>
        /\ /\ Asked("forge") /\ m.remote
           /\ Env(m, "ADLC_FORGE_PROVIDER_OVERRIDE") = "" /\ Env(m, "ADLC_FORGE_MOCK") # "1"
           /\ {m.project, m.machine} = {NoConfig} => PlainOrigin
           => /\ ForgeWanted = "github" => {"gh", "gh-login"} \subseteq m.has
              /\ ForgeWanted = "azure-devops" => "az" \in m.has /\ AzureLogin
        /\ Asked("git-identity") => {"git", "git-name", "git-email"} \subseteq m.has
        /\ Asked("counters") => \A c \in DOMAIN m.counters :
               m.counters[c] # "other" /\ m.locks[c] # "old"
        /\ {outcomes[i].id : i \in DOMAIN outcomes} = {id \in Range(Registry) : Asked(id)}
        /\ \A i, j \in DOMAIN outcomes : i < j => Position(outcomes[i].id) < Position(outcomes[j].id)

\* After such a verdict a delegated step gets past its gate, where the configuration
\* enables delegation and names a variable for the key.
OkOpensGate ==
    [][Approved /\ Asked("delegate-gate") /\ DelegationWanted
       /\ at = "created" /\ at' \in {"gated", "called"} => at' = "gated"]_vars
=============================================================================
