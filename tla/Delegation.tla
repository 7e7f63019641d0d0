----------------------------- MODULE Delegation -----------------------------
(***************************************************************************)
(* One delegated step of a skill (spec, proceed, wrapup, analyze), fence   *)
(* by fence: create the flag, ask the gate, announce and run adlc-read,    *)
(* mark its exit status, resolve and emit one telemetry record             *)
(* (skill-flag.sh, delegate-gate.sh, adlc-read, emit-step-telemetry.sh,    *)
(* emit-telemetry.sh).  The machine may change under it; the agent that    *)
(* runs the fences may skip the call, lose the path of the flag, or have a *)
(* fence cut off by a timeout.                                             *)
(*                                                                         *)
(* Every fence has a shell of its own.  The fence that creates the flag    *)
(* also sets the trap that clears it, so it leaves neither the flag nor    *)
(* the start time behind, only the path under which later fences mark.     *)
(***************************************************************************)
EXTENDS Provider

CONSTANTS
    FirstMachines, \* bound: machines at the start
    Values,        \* bound: field of a machine -> values it may be given
    MaxChanges     \* bound: changes of the machine

\* The fields of a machine; an empty value is no key.
IsMachine(x) ==
    /\ DOMAIN x = {"env", "rc", "machine", "project", "origin", "remote", "has", "counters", "locks"}
    /\ {x.machine, x.project} \subseteq Files \cup {NoConfig}

ASSUME ChangesType == MaxChanges \in Nat
ASSUME MachinesType ==
    /\ \A x \in FirstMachines : IsMachine(x)
    /\ \A f \in DOMAIN Values \cap {"machine", "project"} : Values[f] \subseteq Files \cup {NoConfig}
ASSUME KeysType == "" \notin KeyFamily \cup Blobs

VARIABLES
    m,        \* the machine
    changes,  \* counter of the bound
    at,       \* where the step is
    lost,     \* the next fence does not know the path of the flag
    side,     \* the sidecar of the flag: key -> value, "" when unmarked
    call,     \* adlc-read: environment it was started in, what it resolved, exit status
    rec,      \* record emitted last
    did       \* history: what the step really did

machine == <<m, changes>>
step == <<at, lost, side, call, rec, did>>

Marks == {"reason", "invoked", "exit"}
Unmarked == [k \in Marks |-> ""]
NoCall == [env |-> NoKeys, keyVar |-> "", url |-> "", exit |-> ""]
NoRecord == [gate |-> "", mode |-> "", reason |-> ""]
Deeds == {"asked", "passed", "consented", "ran", "keyless", "today", "sent", "answered", "cut",
          "strayed"}
DidNothing == [d \in Deeds |-> FALSE]

Between == {"idle", "emitted"}
Calling == {"announced", "resolved", "waiting", "returned"}
Places == Between \cup Calling \cup {"created", "gated", "called"}

StepInit ==
    /\ m \in FirstMachines /\ changes = 0
    /\ at = "idle" /\ lost = FALSE /\ side = Unmarked
    /\ call = NoCall /\ rec = NoRecord /\ did = DidNothing

-----------------------------------------------------------------------------
(* What a machine says, read without the operators under test. *)

DelegateLines(mach) == SectionSays(Lines(mach.machine), "delegate")

Consents(mach) ==
    /\ Env(mach, "ADLC_DISABLE_DELEGATE") # "1"
    /\ \/ Env(mach, "ADLC_DELEGATE_ENABLED") = "1"
       \/ Env(mach, "MOONSHOT_API_KEY") # "" \/ Env(mach, "KIMI_API_KEY") # ""
       \/ Lower(Get(DelegateLines(mach), "enabled")) \in TrueWords

KeyInConfig(mach) == Get(DelegateLines(mach), "api_key_env") \in KeyFamily \cup Blobs

\* A machine from before the provider could be configured.
OldSetup(mach) ==
    /\ mach.machine = NoConfig
    /\ \A v \in {"ADLC_DELEGATE_API_KEY_ENV", "ADLC_DELEGATE_BASE_URL"} : Env(mach, v) = ""

-----------------------------------------------------------------------------
(* The fences *)

\* skill-flag.sh mark: without a path the mark goes to a file that belongs to no step.
Mark(k, v) == side' = IF lost THEN side ELSE [side EXCEPT ![k] = v]
Strays == did.strayed \/ lost

CreateFlag ==
    /\ at \in Between
    /\ at' = "created" /\ lost' = FALSE /\ side' = Unmarked
    /\ call' = NoCall /\ rec' = NoRecord /\ did' = DidNothing
    /\ UNCHANGED machine

AskGate ==
    LET gate == Gate(m)
    IN  /\ at = "created"
        /\ Mark("reason", gate.reason)
        /\ at' = IF gate.rc = 0 THEN "gated" ELSE "called"
        /\ did' = [did EXCEPT !.asked = TRUE, !.passed = gate.rc = 0, !.consented = Consents(m),
                                 !.strayed = Strays]
        /\ UNCHANGED <<machine, lost, call, rec>>

\* The fence of the call: adlc-read gets the environment its shell started with.
Announce ==
    /\ at = "gated"
    /\ Mark("invoked", "1")
    /\ call' = [NoCall EXCEPT !.env = m.env]
    /\ at' = "announced"
    /\ did' = [did EXCEPT !.strayed = Strays]
    /\ UNCHANGED <<machine, lost, rec>>

\* m as the running adlc-read sees it.
Seen == [m EXCEPT !.env = call.env]

Exits(code) == call' = [call EXCEPT !.exit = code] /\ at' = "returned"

\* The program is gone, or none of the paths can be read.
CannotStart ==
    /\ at = "announced"
    /\ Exits(IF "adlc-read" \in m.has THEN "1" ELSE "127")
    /\ did' = [did EXCEPT !.ran = TRUE]
    /\ UNCHANGED <<machine, lost, side, rec>>

CallResolves ==
    /\ at = "announced" /\ "adlc-read" \in m.has
    /\ did' = [did EXCEPT !.ran = TRUE, !.keyless = ~KeyInConfig(m), !.today = OldSetup(Seen)]
    /\ IF Refuses(Seen) THEN Exits("1")
       ELSE LET p == ResolveProvider(Seen)
            IN  call' = [call EXCEPT !.keyVar = p.keyVar, !.url = p.url] /\ at' = "resolved"
    /\ UNCHANGED <<machine, lost, side, rec>>

CallSends ==
    /\ at = "resolved"
    /\ IF ResolveKey(Seen, call.keyVar)
       THEN at' = "waiting" /\ did' = [did EXCEPT !.sent = TRUE] /\ UNCHANGED call
       ELSE Exits("1") /\ UNCHANGED did
    /\ UNCHANGED <<machine, lost, side, rec>>

Answered ==
    /\ at = "waiting"
    /\ Exits("0")
    /\ did' = [did EXCEPT !.answered = TRUE]
    /\ UNCHANGED <<machine, lost, side, rec>>

\* An error of the API, no choices, or an empty completion.
Failed ==
    /\ at = "waiting"
    /\ Exits("1")
    /\ UNCHANGED <<machine, lost, side, rec, did>>

MarkExit ==
    /\ at = "returned"
    /\ Mark("exit", call.exit)
    /\ at' = "called"
    /\ UNCHANGED <<machine, lost, call, rec, did>>

\* The fence of the call times out.
Cut ==
    /\ at \in Calling
    /\ at' = "called"
    /\ did' = [did EXCEPT !.cut = TRUE]
    /\ UNCHANGED <<machine, lost, side, call, rec>>

\* The agent writes the path into each fence anew, or forgets it.
SupplyPath ==
    /\ at \in {"created", "gated", "called"}
    /\ lost' = ~lost
    /\ UNCHANGED <<machine, at, side, call, rec, did>>

-----------------------------------------------------------------------------
(* The record *)

Record(gate, mode, reason) == [gate |-> gate, mode |-> mode, reason |-> reason]

\* emit-telemetry.sh: a passed gate falls back for one reason only.
Recorded(r) ==
    IF r.gate = "pass" /\ r.mode = "fallback" /\ r.reason # "api-error"
    THEN Record("pass", "ghost-skip", "unmasked") ELSE r

\* Mutant: the exit status is looked at before the announcement.
ResolvedByExit ==
    IF lost \/ side = Unmarked THEN Record("fail", "fallback", "no-flag")
    ELSE IF side.exit = "0" THEN Record("pass", "delegated", "ok")
    ELSE IF side.invoked # "" THEN Record("pass", "fallback", "api-error")
    ELSE Record("fail", "fallback", FirstOf(<<side.reason, "not-invoked">>))

\* _adlc_emit_step_telemetry: from the sidecar alone.
Resolved ==
    IF lost \/ side = Unmarked THEN Record("fail", "fallback", "no-flag")
    ELSE IF side.invoked = "" THEN Record("fail", "fallback", FirstOf(<<side.reason, "not-invoked">>))
    ELSE IF side.exit = "" THEN Record("pass", "ghost-skip", "gate-passed-no-call")
    ELSE IF side.exit = "0" THEN Record("pass", "delegated", "ok")
    ELSE Record("pass", "fallback", "api-error")

\* Also straight after the gate: the agent skips the call.  The sidecar is cleared.
Emit ==
    /\ at \in {"gated", "called"}
    /\ rec' = Recorded(Resolved)
    /\ side' = IF lost THEN side ELSE Unmarked
    /\ at' = "emitted"
    /\ UNCHANGED <<machine, lost, call, did>>

\* The agent skips the call and writes the record itself, with a reason of its own.
HandEmit ==
    /\ at = "gated"
    /\ rec' = Recorded(Record("pass", "fallback", "manual-retrieval"))
    /\ at' = "emitted"
    /\ UNCHANGED <<machine, lost, side, call, did>>

\* The skill ends in the middle of the step.
Abandon ==
    /\ at \notin Between /\ at' = "idle"
    /\ UNCHANGED <<machine, lost, side, call, rec, did>>

Change ==
    /\ changes < MaxChanges /\ changes' = changes + 1
    /\ \E f \in DOMAIN Values : \E v \in Values[f] : m' = [m EXCEPT ![f] = v]
    /\ UNCHANGED step

StepNext ==
    \/ CreateFlag \/ AskGate \/ Announce
    \/ CannotStart \/ CallResolves \/ CallSends \/ Answered \/ Failed
    \/ MarkExit \/ Cut \/ SupplyPath
    \/ Emit \/ HandEmit \/ Abandon

-----------------------------------------------------------------------------
(* Properties *)

StepTypeOK ==
    /\ changes \in 0 .. MaxChanges
    /\ at \in Places /\ lost \in BOOLEAN
    /\ DOMAIN side = Marks
    /\ did \in [Deeds -> BOOLEAN]

\* A record tells what happened: "delegated" means an answer came back, a fallback
\* behind a passed gate that the call was made and failed, a ghost-skip that the call
\* was not made or was cut off; a failed gate, that none was made.  A call that was
\* skipped leaves a trace in the record: the mode, or "ok" as the reason of a failed gate.
\* Where a fence did not know the path, the record may say less: "no-flag", or of a call
\* whose marks went astray, a failed gate, but then with "ok" as its reason.
RecordsAreTrue ==
    at = "emitted" =>
        /\ rec.mode = "delegated" => did.answered
        /\ rec.mode = "fallback" /\ rec.gate = "pass" => did.ran /\ ~did.answered
        /\ rec.mode = "ghost-skip" => ~did.ran \/ did.cut
        /\ rec.gate = "fail" /\ rec.reason # "no-flag" => ~did.ran \/ (did.strayed /\ rec.reason = "ok")
        /\ did.passed /\ ~did.ran /\ ~Strays => rec.mode = "ghost-skip" \/ rec.reason = "ok"

\* File contents leave the machine only in a step whose gate was asked while the user
\* had opted in and not disabled delegation, and only when the configuration that the
\* call read held no key; on a machine without any configuration they go where they
\* always went.
SentOnlyAsOptedIn ==
    did.sent => /\ did.consented /\ did.keyless
                /\ did.today => call.url = "shipped" /\ call.keyVar = "MOONSHOT_API_KEY"
=============================================================================
