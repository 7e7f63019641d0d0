------------------------------ MODULE MCDoctor ------------------------------
(* A machine that works, and one change of each kind.                       *)
EXTENDS Doctor

\* Some keys are no valid names of variables, and some are.
MCVarNames == {"MOONSHOT_API_KEY", "TEAM_KEY", "AZ_PAT", "AKIAEXAMPLE", "sk4f9d2c7b1e8a6055f3d9c1b2"}
MCKeyFamily == {"sk-live", "AKIAEXAMPLE"}
MCBlobs == {"sk4f9d2c7b1e8a6055f3d9c1b2"}

Section(name, pairs) == <<Line(0, name, "")>> \o [i \in DOMAIN pairs |-> Line(2, pairs[i][1], pairs[i][2])]
Delegating(var) == Section("delegate", <<<<"enabled", "TRUE">>, <<"api_key_env", var>>>>)
OnGithub == Section("forge", <<<<"provider", "GitHub">>>>)
OnAzure == Section("forge", <<<<"provider", "azure-devops">>, <<"auth", "AZ_PAT">>>>)
Auto == Section("forge", <<<<"provider", "auto">>, <<"auth", "gh">>>>)

NoVars == [v \in {} |-> ""]
Set(v, value) == Put(NoVars, v, value)
Keys == Put(Set("TEAM_KEY", "key"), "MOONSHOT_API_KEY", "key")
Github == [host |-> "github.com", has |-> {"github.com"}]
Azure == [host |-> "dev.azure.com", has |-> {"dev.azure.com"}]
Alike == [host |-> "notgithub.com", has |-> {"github.com"}]
Mixed == [host |-> "dev.azure.com", has |-> {"github.com", "dev.azure.com"}]
Unknown == [host |-> "git.corp", has |-> {}]

Good == {"adlc-read", "git", "checks", "partials", "darwin", "skills-link", "agents-link", "on-branch", "clean",
         "adlc", "adlc-runs", "gh", "gh-login", "az", "az-login", "git-name", "git-email", "launch-agent"}

Works(config, env) ==
    [env |-> env, rc |-> {}, machine |-> config, project |-> NoConfig, origin |-> Github, remote |-> TRUE,
     has |-> Good, counters |-> [req |-> "number", bug |-> "absent"], locks |-> [req |-> "young", bug |-> "none"]]

MCFirstMachines == {
    Works(NoConfig, Set("MOONSHOT_API_KEY", "key")),
    Works(Delegating("TEAM_KEY") \o OnGithub, Set("TEAM_KEY", "key")),
    [Works(NoConfig, Put(Set("MOONSHOT_API_KEY", "key"), "AZ_PAT", "pat"))
        EXCEPT !.project = OnAzure, !.has = @ \ {"az-login"}]}

MCValues == [
    env |-> {NoVars, Set("ADLC_DELEGATE_ENABLED", "1"),
             Put(Keys, "ADLC_DISABLE_DELEGATE", "1"),
             Put(Put(Keys, "ADLC_DELEGATE_BASE_URL", "other"), "ADLC_DELEGATE_API_KEY_ENV", "TEAM_KEY"),
             Put(Set("TEAM_KEY", "key"), "ADLC_FORGE_PROVIDER_OVERRIDE", "azure-devops"),
             Put(Set("TEAM_KEY", "key"), "ADLC_FORGE_MOCK", "1")},
    rc |-> {{"MOONSHOT_API_KEY"}},
    machine |-> {NoConfig, Delegating("sk-live"), Delegating("AKIAEXAMPLE"), Delegating("sk4f9d2c7b1e8a6055f3d9c1b2"), Auto},
    project |-> {OnAzure, OnGithub},
    origin |-> {Azure, Alike, Mixed, Unknown},
    remote |-> {FALSE},
    has |-> {Good \ {f} : f \in {"adlc-read", "git", "checks", "partials", "gh", "gh-login", "az-login", "git-name"}},
    counters |-> {[req |-> "other", bug |-> "absent"]},
    locks |-> {[req |-> "old", bug |-> "none"]}]

MCRequests == {NoFilter, <<"delegate-gate", "forge">>, <<"git-identity", "counters">>, <<"gh-auth">>, <<>>}
=============================================================================
