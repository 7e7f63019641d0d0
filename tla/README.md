# TLA+ models of the ADLC toolkit

The toolkit drives coding agents through a development life cycle. Most of it is prose for a
language model (`*/SKILL.md`, `agents/*.md`); the code that decides what happens is the workflow
engine `workflows/adlc-sprint.workflow.js`, the shell partials in `partials/` and the Python and
shell tools in `tools/`. This directory models that code: specifications, model-checking
configurations (`tlc -config X.cfg M`) and machine-checked proofs (`tlapm M_proofs.tla`). All
paths below are relative to the repository.

## 1. Inventory

| Part | State it keeps | Operations | Talks to |
|---|---|---|---|
| Sprint engine, top level (`adlc-sprint.workflow.js` 896-959, 1913-2271) | results array, `updatedById`, `args.blockerCleared`; through leaves: pull requests, `blockers` entries of `pipeline-state.json` | pipeline of `runReq`, cross-repo merge barrier, unblock pass | leaf agents (`agent()`), the forge, other sessions' leftovers |
| Sprint engine, one REQ (966-1161, 1590-1841) | gate attempt, task loop, panel findings; on disk: worktree, `phase4.completedTasks` | validation gates, serial implementation, review panel, one fix and re-verify loop, halt and resume | leaf agents, the user (`args.answers`) |
| Pure helpers (320-700) | none | select, order, dedupe and rank, citation check, union-find, overlay | called by the two above |
| Id allocator (`partials/id-alloc.sh`) | counter file and lock directory per machine | `adlc_alloc_id`, remote high-water | remotes, other processes and machines |
| Id recheck (`partials/id-recheck.sh`) | none; reads branches and artifacts of the remotes | recheck before a PR, suggestion | remote, allocator's derivation |
| Renumber (`tools/adlc/renumber.py`) | artifact tree, files that mention an id, temporary files | locate, select, count, move, rewrite file by file | recheck, git, people who edit |
| Trial merge (`partials/trial-merge.sh`) | index and tree of a worktree | dry-run merge and restore | git |
| Forge adapter (`partials/forge.sh`, `tools/adlc/forge_config.py`) | configuration | provider detection, PR operations | gh / az |
| Delegation gate and resolver (`partials/delegate-gate.sh`, `tools/delegate/_common.py`, `adlc-read`, `adlc-write`) | configuration, environment | gate, provider and key resolution, one API call | provider |
| Delegation telemetry (`skill-flag.sh`, `emit-step-telemetry.sh`, `emit-telemetry.sh`, `check-delegation.sh`) | flag file, `.state` sidecar, telemetry log | create, mark, read, resolve and emit, clear, report | skills, in separate shell fences |
| Configuration readers (`parse_*_config` of three tools) | none; `config.yml` of machine and project | read a section of one or of two levels | the four parts around them |
| Agent rendering (`agents_render.py`) | agent files, their temporary files | render, drift check | configuration, people who edit, other renders |
| Doctor and checks (`doctor.py`, `checks.py`) | none; reads the whole machine | run the registry, filter, verdict | gate, forge, counters |
| Skill linter, installers, Kimi shims, deploy skills | none or the installation | text patterns, file copying | |

**What is hard.** Every effect of the engine happens in a leaf agent, that is, a language model
that may do its job, do part of it, misreport it, yield nothing, or reject. Several REQs run
concurrently over shared repositories. Pull requests outlive the run and people act on them. A run
may die between any two leaves and be relaunched. Allocators on several machines share one remote,
on one machine a lock directory and a counter file, with no way to detect a dead holder. Renumber
and agent rendering rewrite files in place of people's, one after the other, and may be killed or
raced. A delegated step is spread over shell fences that share nothing but a sidecar file, run by
an agent that may skip one, on a machine whose configuration may change between two of them. What
makes the parts correct:

* top level: nothing is reported merged that is not; merges that share a repository are serial;
  halts survive; held REQs resume only behind a cleared blocker, one by one; it ends;
* one REQ: no commit before both gates, each on top of its lower tiers; recorded work is not
  redone; blocking findings and users' replies do not get lost; it ends;
* allocator: mutual exclusion, unique and increasing ids, termination behind a dead holder;
* recheck: what was on the remote when it began is found, whatever moves meanwhile; it never
  suggests an id that was taken; renumbering comes to an end;
* renumber: files are whole or untouched wherever it is killed, references are rewritten after the
  move, "Applied." leaves none behind;
* agent rendering: files keep what people wrote, a finished render shows the resolved models, a
  check predicts what a render would do, but for spelling;
* delegation: nothing is sent without consent, records tell what happened;
* doctor: a good verdict means that what was asked about works.

`PROJECT.json` lists the hazards with their lines and the properties that cover them.

## 2. Modules

| Module | Role |
|---|---|
| `MergeLedger` | abstract: pull requests land; an account claims only what has landed |
| `SprintEngine` | top level of the engine; implements `MergeLedger` (`LedgerSpec`) |
| `SprintClaims` | a statement of the comments that the engine does not satisfy |
| `SprintEngine_proofs` | proofs about `SprintEngine` for all constants: truth, exclusion, order |
| `ReqRun` | Phases 0-5 of one REQ over crashes and relaunches (the step `PhasesZeroToFive` of `SprintEngine`, opened up) |
| `ReqRun_proofs` | proofs about `ReqRun` for all constants |
| `Grouping` | the union-find of `groupCrossRepoReqs`, one step per loop turn |
| `Grouping_proofs` | proofs about `Grouping` for any number of REQs and any repositories |
| `Tickets` | abstract: numbers handed out in increasing order per machine |
| `IdAlloc` | the allocator; implements `Tickets` without timeouts (`TicketSpec`) |
| `IdAlloc_proofs` | proofs about `IdAlloc` for all constants |
| `IdRecheck` | the recheck before a push and the remote check of `adlc renumber`, over a remote that changes under the walk |
| `IdRecheck_proofs` | proofs about `IdRecheck` for all constants |
| `Renumber`, `Renumber_proofs` | `adlc renumber` file by file; proofs for all constants |
| `FlatConfig` | the configuration readers line by line, and what they compute said without the loop |
| `AgentsRender` | `adlc agents render` and `--check`, concurrent; uses `FlatConfig` |
| `AgentsRender_proofs` | proofs about `AgentsRender` for all constants |
| `Provider` | what the gate, the resolver and the two forge detections make of a machine; uses `FlatConfig` |
| `Delegation` | one delegated step of a skill, fence by fence, over `Provider` |
| `Doctor` | doctor on the machine of `Delegation`: the composition of the two |
| `Doctor_proofs` | proofs about `Doctor`, `Delegation` and `FlatConfig` for all constants |
| `MCSprintEngine`, `MCReqRun`, `MCGrouping`, `MCIdAlloc`, `MCIdRecheck`, `MCRenumber`, `MCAgentsRender`, `MCDoctor` | instances for TLC |

Operators commented `Mutant:` are wrong variants of the definition that follows them. No
specification uses them; each shows that a property can tell the code from a plausible bug.

### SprintEngine

The script is one logical thread per REQ that only waits for leaves, so one step is *the return of
one leaf and everything the script does until it awaits the next one*. `pc[r]` names the leaf REQ
`r` awaits; `stage` is the position of the top-level block.

| Code | Actions |
|---|---|
| `runReq` Phases 0-5, any of its halts | `PhasesZeroToFive` |
| `openPRs`, `cleanupAndWatchCI` | `OpenPRs`, `CleanupAndWatchCI` (with Phase 8's choice by topology) |
| `wrapupAndMerge` | `ReadyForBarrier` (cross-repo); `SelfMerge`, `VerifyMerge` (single-repo) |
| `sequenceCrossRepoMerges`, `mergeCrossRepoReq` | `EnterBarrier`, `BarrierNext`, `BarrierMerge`, `BarrierVerify`, `LeaveBarrier` |
| `unblockHeldReqs`, `unblockOneReq` | `UnblockScan`, `NextHeld`, `UnblockRebase` (then `runReq` again), `ReturnResults` |
| a rejecting `agent()` call | `Throw`: `pipeline()` nulls the item, `parallel()` nulls the whole group, nothing catches it in the unblock pass, its scan included (in `UnblockScan`) |

* A leaf asked about a set of repositories does or reports `Partial(S)`: with `"partial"` in
  `Faults` any subset (a null answer reads as the empty list), otherwise all of it. What a
  verification leaf does report is the state the forge has: the script relies on that and so does
  the model. A merge leaf that reports a conflict when there is an open PR is always possible, and
  at the barrier it may have merged some PRs first.
* `forge` is the true state of each pull request, named by REQ and repository. `Leftover` says
  what an earlier session may have left. `Outside` closes or merges an open PR at any time.
* `blockers` holds the live `blockedBy` entries that earlier sessions wrote, always on a PR
  published earlier; the engine itself never writes one, as in the code. The scan is told to leave
  out a held REQ whose worktree is gone or whose phase is not recorded (:2300-2302): `lost` is
  any set of such REQs, chosen when it is made.
* `Touched` is what Phase 0 records, `Claimed` what the Preflight record says. The barrier groups
  by `Claimed` (line 2062) and the topology test uses `Touched` (line 1967).
* `groupCrossRepoReqs` is stated here as what the union-find computes: the connected components,
  as the minimal non-empty sets closed under `sharesRepo`. `Grouping` models the union-find
  itself, and its `GroupsAreComponents`, proved for every input, justifies the statement.
* Phases 0-5 are one step that ends in a halt, a failure or Phase 6. With `"critical"` in `Faults`
  they may also go on to Phase 6 with `consolidated.blocks` still true (`critical[r]`), which no
  later phase reads.
* `Pos`, `Lex`, `Published` are the three orders in play: `todo`, string order of ids, and
  publication.

Left out: prompts, logging, `detail` texts, PR numbers; Phase 7 has no effect the script reads.

### ReqRun

One REQ, one step per leaf. `Crash` may happen between any two leaves; `Relaunch` starts the
script from the top over the same worktree and state file, with a reply in `args.answers` if the
last run ended in a halt (`sprint/SKILL.md`:78-90), once and for all of the later runs. The
runtime's journal may answer a byte-identical call of the resumed run from its cache. The model
runs each leaf anew: a cached answer is one of the answers the leaf may give, and a cached writer
is one that does nothing (`"idle"`); a relaunch in a new session has no journal.

The panel is a function from *seats* (repository and reviewer, or the reflector) to sets of
findings; a reviewer that drops out has no entry. A finding keeps the title key by which
`dedupeAndRank` merges, whether it is Critical or mustFix, and whether it is a question. The
explorers, the manifest and the delegate pre-pass only feed prompts and are folded into the leaf
they feed. A report belongs to its seat; the code files it under the `dimension` that the agent
itself gives (:605, :406). `passed`, `plan` (the tasks of this run's plan), `idled` (handed to an
implementer that did nothing), `unrecorded` (committed by a run that died before the record),
`raised`, `fresh` and `guided` are history.

### Grouping

`groupCrossRepoReqs` is synchronous, so nothing interleaves with it; what can go wrong is in the
algorithm. A step is one turn of a loop: `Share` and `Skip` of the pair loops, `Halve` of the
path-halving loop in `find`, `FoundA` and `Link` of `union`, `Collect` of the collecting loop. `i`
and `j` are the loop variables, `x` is the argument of the `find` under way, `ra` the result of
the first `find` of a `union`. `rootOf` is the map from roots to groups, kept by member. `Init`
ranges over all assignments of repositories, empty ones included (`reposById[id] || []`).

### IdAlloc

Processes call `adlc_alloc_id` once each. Each file-system operation of the locked block is a step;
the redirection into the counter is two, truncation and write. 50 retries of 0.1s are a lapse of
time, so `GiveUp` may be taken whenever the lock is taken. A degraded derivation returns any value
the remote could have led to below its maximum, or none (abort). `Refuse` is the refusal of a
symlinked lock. `SaveFails` is a counter that cannot be written: the write (id-alloc.sh:409) is not
guarded and the id is echoed all the same. `fell` and `unsaved` are history: some process passed the
lock guard without the lock, or did not get its counter written. `Create` and `Push` are the calling
skill. The lock is per machine, the remote is shared.

### IdRecheck

Each artifact is drafted on a machine of its own with an id some allocator gave; nothing locks the
remote. `adlc_recheck_id` walks the repositories twice and reads the branches and then the merged
artifacts of each: `DeriveRead` is one read of `adlc_remote_high`, `Derived` its end with the
short-circuit of a degraded scan, `ProbeMiss` and `ProbeHit` are one read of the exact-id walk,
`Probed` is `return 0`. `Renumber` is `adlc renumber <id> <suggestion> --yes`, which walks again
for the new id; `Pass` gives the artifact that id, in one step for the renaming of all files.
`Push` (the calling skill) and `Merge` (the forge: a branch becomes a merged artifact and is
deleted, in one step) may fall between any two reads. `at` is the next read, odd for branches,
even for artifacts; `before` and `blind` are history: what was on the remote when the walk began,
and whether a read of it failed. Only kinds with a branch (req, bug). Usage errors are left out,
and so is a root without any repository, which is always degraded.

### Renumber

| Code | Actions |
|---|---|
| `_validate_id` and the other checks of `main` | `Invoke` |
| `remote_collision` | `AskRemote`: a free choice here, `IdRecheck` models what decides it |
| `plan`: `_locate_old`, `_grep_references`, the counts | `Locate` (with `Selected`), `Count` |
| `main` with `--yes`: `os.rename`, the artifact's own files, then the references | `Move`, loop `inside`, `LoopEnds`, loop `outside` |
| `_rewrite_file` | `Skip`, `Read` (with `mkstemp`), `Replace` (`os.replace`), `WriteFails` |

The text of a file is the set of ids it mentions at an id boundary, since `Sub` replaces all
mentions at once. `SlugPrefix` and `IdPrefix` are what `startswith` on paths can tell. `Selected`
says what `git grep` and its fallback walk find: `git` says which of the two works. `Kill` may
fall between any two steps; `Edit` and `GitAdd` are other people and tools. `was` and `disturbed`
are history. Lessons are entries with a file of their own, as bugs are.

### FlatConfig

The three parsers are not YAML: a line is its indentation, the key before the first colon, the
value, whether that is quoted and whether a comment follows (behind a quoted value it stays).
`ParseBlock` and `ParseAgents` are the parsers' loops over the lines; `BlockIsRead` and
`AgentsAreRead` say the result by the sets of lines that count. They are equal on all 111,111 files
of up to five lines of ten kinds (`ReadersAreRight`, which TLC evaluates with `RenderRace`). It is
not one of the run's properties, since nothing in it moves. Both are proved for every file (section
5). What a section says (`SectionSays`) is what the properties of `Delegation` and `Doctor` compare
the code with.

### AgentsRender

A file is a sequence of frontmatter lines, or has no frontmatter. A line has a key, its value
stripped of blanks, and `exact`: whether it is spelled as render spells it, `model: X`, which the
check cannot see and render restores. Line ends are not modelled (render turns CRLF into LF).
`Start` reads and validates the configuration; `Visit` is one turn of the loop; `Open`, `Write` and
`Replace` are the three system calls of `_atomic_write` on the shared name `path + ".tmp"`. `fd`
says where the file a process has open is found by now: another render may have moved it into place
(`"file"`), or replaced that (`"gone"`). `clash`, `raced`, `calm` and `base` are history: they name
the two races in which a file is damaged, so that the properties cover all else.

### Provider, Delegation and Doctor

A machine is one record: environment, rc files, two configuration files, the origin's host and the
URL patterns it matches, and the facts that hold (programs, logins, links). `Provider` has no
variables: it is `delegate-gate.sh`, `_common.py`, `forge_config.py` and `forge.sh` as operators
on a machine. `Delegation` is a step of a skill as `spec/SKILL.md` has it; each fence is an action
or, for the fence of the call, one per moment at which it reads the machine:

| Code | Actions |
|---|---|
| `skill-flag.sh create`, `adlc_delegate_gate_check` | `CreateFlag`, `AskGate` |
| `skill-flag.sh mark invoked 1`, then `adlc-read` | `Announce`; `CannotStart`, `CallResolves`, `CallSends`, `Answered`, `Failed` |
| `mark exit $?` | `MarkExit` |
| `emit-step-telemetry.sh`, `emit-telemetry.sh` | `Emit` (`Resolved`, then the coercion `Recorded`) |
| the agent or its runtime | `HandEmit`, `SupplyPath`, `Cut`, `Abandon` |
| the user | `Change` of one field of the machine, at most `MaxChanges` |

Each fence has to be given the path of the flag anew: `lost` says whether the next one is without
it, `SupplyPath` changes that between any two fences, and `did.strayed` remembers that one was.
`Doctor` adds `Begin`, `RunCheck` and `Finish` on the same machine, so that a change may fall
between two checks, between a verdict and a gate, or between a gate and its call. `entry` tells
`adlc doctor` from `python3 tools/adlc/doctor.py` (section 4). `registry` is the list of checks the
run found, `turn` the position its loop has reached. `did` and `still` are history. Left out: the
packing of files into the prompt, detail texts, redaction and the log file.

## 3. Runs

| Run | Instance | Checks |
|---|---|---|
| `SprintSequencing` | 3 REQs (1 single-repo, 2 cross-repo sharing 2 repos), `throw`; string order of ids the reverse of publication | `TypeOK`; the barrier is serial (`SerialOverClaimedRepos`); each held REQ that has a worktree and a phase to resume from is tried (`EveryHeldIsTried`), only behind a cleared blocker and with nobody else in flight (`ResumedBehindCleared`); cross-repo PRs wait for the barrier (`CrossRepoWaitsForBarrier`); halts survive the stitching (`HaltSurvives`); the sprint ends with a value for every REQ, unless it threw (`SprintEnds`) |
| `SprintUntrusted` | 2 cross-repo REQs; `partial`, `throw`, `outside`; any leftover PRs | `MergedIsTrue`; refinement of `MergeLedger` (`LedgerSpec`) |
| `ReqPhases` | 2 tasks, 2 tiers, 3 gate iterations, 2 launches, `idle` | `TypeOK`; no commit before both gates, none of recorded work, and a second one only where the record was never written (`WorkIsDue`); each commit on top of the lower tiers of its plan, whatever was skipped, lost in a crash or planned anew (`BuiltOnLowerTiers`); every launch ends (`RunEnds`) |
| `ReqPanel` | 2 reviewers and the reflector, 2 titles, 2 launches, `null` | blocking findings do not vanish unheard (`BlockingNeverVanishes`); a reply reaches a fix agent (`AnswerReaches`) |
| `GroupingComponents` | 4 REQs, all assignments of 3 repositories | `TypeOK`; the groups are the connected components; the union-find ends |
| `IdLock` | 3 processes on 1 machine, `timeout`, `crash`, `unwritable` | `TypeOK`; mutual exclusion until a timeout (`MutexUntilTimeout`); uniqueness until a timeout or a lost write (`UniqueUntilTimeout`); every process that is not killed ends (`AllocEnds`) |
| `RecheckRace` | 3 artifacts that were all given id 1, two of them in the first of 2 repositories; any read may fail | `TypeOK`; duplicates come only from overlapping pushes or failed reads (`DuplicatesAreRaces`); a suggestion is above all that was there (`SuggestionIsFresh`); everyone pushes (`EveryonePushes`) |
| `IdTickets` | 2 machines, 3 processes, `degraded`, `crash`, `symlink`, no timeout | refinement of `Tickets` (`TicketSpec`) |
| `RenumberRuns` | 3 repositories of 4 entries and 5 files (ids and slugs that begin one another, two artifacts of one id, a target of the same name, a binary file, untracked files), 5 argument pairs, 2 invocations, 1 edit | `TypeOK`; files are whole (`WholeFiles`); "Applied." is complete (`AppliedIsComplete`); move before references, nothing without `--yes` (`RewrittenAfterMove`) |
| `RenderRace` | 2 processes, 3 agents (one without a file), 3 configurations, 2 starts, 2 edits of files or configuration, model lines in both spellings | `TypeOK`; `FilesWhole`; `RenderedIsClean`; a check reports only what a render would change, and all of it but two kinds (`CheckPredictsRender`) |
| `DoctorRun` | 3 working machines, 29 values for their 9 fields, 1 change, 5 values of `--checks`, both ways in | `TypeOK`; `RecordsAreTrue`; `SentOnlyAsOptedIn`; `OkMeansUsable`; `OkOpensGate` |

**Bounds.** Three REQs are the least with a group of two and an outsider, a chain of two blockers
and two held REQs; two repositories the least for cross-repo and for sharing. Two launches are the
least for a crash followed by a resume or for a halt followed by a reply. Two titles let one
finding be fixed while another stays; two reviewers let one drop out while another reports.
`MaxRuns` bounds the launches and `MaxFindings` a report; both appear only in guards. Four REQs
are the least where a union joins two groups of two, so that a `find` has a path to halve; three
repositories let a chain of four be joined by no common one. Three processes let one crash, one
wait and one enter. `Ids` bounds only the initial contents: the remote starts with any subset of
it and numbers grow from there. Three artifacts are the least where a renumbering is refused
because a third took the new id; two repositories let a merge happen behind the walk, and a failed
read skip one of them. `FirstIds` bounds only the ids the artifacts start with. Two invocations of
renumber are the least for a rerun after a kill; one edit is enough to make an artifact, a
selected file or a file in flight change under it. Two renders are the least for a race, and two
edits let one make a check stale and the other fall into a write. One change of the machine
suffices to separate any two readings of it, and a second doctor run or step sees what it left;
the fields and their values are those the four tools tell apart. The theorems of section 5 have
none of these bounds.

**Fairness.** `SprintEngine!FairSpec`: every leaf call settles and the script goes on (weak
fairness of each REQ's next return and of the top-level steps); a rejection is one way to settle
and needs no fairness. `ReqRun!FairSpec`: weak fairness of the next leaf only, not of relaunching.
`Grouping!FairSpec`: a synchronous function runs on. `IdAlloc!FairSpec`: a shell that is not
killed keeps running; `sleep 0.1` ends, so a waiter eventually gets the lock or runs out of
retries. `IdRecheck!FairSpec`: a shell that is started runs on, and whoever reads a halt message
does what it says and rechecks again; nothing is assumed of `Merge`. `Renumber`, `AgentsRender`
and `Doctor` state no fairness: their loops run over a fixed list that each turn shortens, nothing
in them waits or retries, and a step of a skill may always be abandoned.

**Deadlock** is checked in every run. The end of a run is an explicit stuttering disjunct
(`Terminated`, `Over`, `Done`, `Quiet`); `Quiet` also covers waiters behind an abandoned lock
where the instance has no timeouts. `Doctor` has none: a new run or step may always begin.

## 4. Where documents and code disagree

The run `ClaimCritical` checks a statement of a comment and finds it violated by what the code
does.

| Run | Statement | Counterexample |
|---|---|---|
| `ClaimCritical` | "The actual merge-readiness gate is enforced downstream (Phase 8) off this same data" (engine :1833-1834) | Phase 5 ends with `blocks`; Phase 8 gets no findings and merges |

The same models show further differences, for which no run is kept.

Sprint engine:

* "a sequencing hiccup never erases a REQ's result" (:2075-2076): the first REQ of a group merges
  and is verified, the leaf of the second rejects, `parallel()` nulls the group, and the first
  stays `pr-ready`.
* "ONLY when the user has NOT already answered it" (:1736): a reply to a gate halt suppresses a
  question nobody was asked.
* "a shared repo can take only one merge at a time without a rebase race" (:2049): two single-repo
  REQs of one repository self-merge concurrently inside the pipeline.
* "the script's own trusted data — not an agent claim" (:2059): the grouping uses the
  `touchedRepos` of Preflight, an agent, which its schema leaves optional. With one missing, two
  REQs of one repository fall into two groups.
* "only on a verified all-MERGED" (:2102): `every()` ranges over the rows the leaf returned, so
  one reported PR of two is enough.
* "a later blocker-merged event does not re-process an already-merged REQ" (:1959): a REQ that
  merged in the pipeline with an older `blockers` entry is rebased and ends `blocked`.
* "the scan returns earliest-published-first; enforce a stable lower-REQ tiebreak" (:2207): the
  sort by id has no tie to break and replaces the scan's order.
* "re-verify the PRs are real/open before claiming pr-ready" (:1966): the state that was read is
  thrown away, so a closed PR becomes `pr-ready`.
* The pass covers "every REQ held with a still-present `blockers` entry where `blockedBy == A`"
  (sprint/SKILL.md:300): with r2 held on r1 and r3 on r2, r2 merges in the pass and r3 is not
  looked at again.
* "merge them now" (:939), a clean rebase "resumes it" (:2172): a resumed cross-repo REQ reaches
  `pr-ready` after the only barrier and stays there.
* "SKIPS tasks it already finished+committed" (:1598): an implementer that does nothing has its
  task recorded all the same. "never re-commit it" (:1613): not after a death between the commit
  and the state write.
* "Returns a TERMINAL value; never throws (ADR-6)" (:964): a leaf that yields null has `.pass`,
  `.repos` or `.tasks` of it read, and `runReq` throws (`end = "threw"` in `ReqRun`).
* "On any agent drop the REQ keeps its `pr-ready` terminal" (:2104) holds for a leaf that rejects,
  not for one that yields null, which ends `merge-unverified`.

Ids:

* "Without this guard, a contended lock would silently fall through to the critical section"
  (id-alloc.sh:383-384): `[ -d "$LOCK" ]` holds because somebody else has the lock, so with the
  guard the waiter falls through too.
* "collision-safe" (renumber.py:2): the new id is checked on the remote only, neither against
  artifacts of the machine that are not pushed yet nor against the counter, which may give it out
  next.
* "the recheck above prints the next free one" (renumber.py:376): `remote_collision` captures the
  recheck's output and shows none of it, so the user has to run the recheck again.
* "combined with the exact-id branch/dir probe below it is" (id-recheck.sh:84): when the id is
  pushed between the two walks, the high-water does not contain it and the suggested id may be the
  very id to be replaced, which renumber rejects as identical (`RenumberIdentical`).
* "proceeding WITHOUT remote verification" (id-recheck.sh:108) is said only when the first walk
  fails: a failed `ls-remote` in the exact-id walk skips the repository, and the recheck passes
  without a word.
* "every in-repo cross-reference" (renumber.py:4-5): files that git does not track are missed
  where `git grep` works, and so are files under a path that begins with the artifact's (:314,
  `startswith`). Of two local artifacts of one id the first in the listing is moved, and the
  references of both are rewritten.
* `os.rename` overwrites a file of the new name; a killed run cannot be resumed, since the
  artifact is no longer found under its old id, and leaves `.renumber-*` behind.
* A counter that cannot be written (id-alloc.sh:409) is not noticed: the id is handed out, and the
  next process takes it again unless the remote knows it by then.

Agent rendering:

* "atomically stamps" (agents_render.py:6): two renders share `path + ".tmp"`; one may put in
  place what the other has just truncated, or fail with FileNotFoundError. An edit between the
  read and the replacement is lost.
* render and check "can never diverge" (:19-21): a literal `model: inherit` shows no drift, and
  render deletes it; of two model lines render deletes the first and the second then counts; a
  file without frontmatter drifts for ever; `model:opus`, `model:  opus` or blanks behind it show
  no drift, since `_current_model` strips (:294), and render respells the line (:254-256).
* An unknown class is an error, an unknown agent under `overrides` is ignored; so is all of a
  section whose header has a comment behind it.

Delegation and forge:

* "the gate must not green-light" a refused configuration (adlc-read:61-62): the gate's shortcuts
  by environment do, and adlc-read then refuses. adlc-read itself does not look at `enabled`.
* "the skip surfaces in check-delegation.sh counts regardless" (spec/SKILL.md:138): a passed gate
  whose call was never announced becomes `fallback`, gate `fail`, reason `ok`.
* The trap of the fence that creates the flag (spec/SKILL.md:112) clears it when that fence ends,
  so a record never has a duration; a call cut off by a timeout is recorded as a ghost-skip even
  if it had answered; with the path of the flag lost, it is `no-flag` though the call was made;
  with the path missing in the fence of the call only, it is gate `fail`, `fallback`, reason `ok`,
  though the call was answered.
* The cascade chooses each field by itself, so a URL and a key of different providers may be
  paired.
* "never a silent GitHub default" (forge.sh:15-16): the shell patterns match `notgithub.com` and
  paths that contain `github.com/`, which the exact hosts of Python do not. Without a configuration
  file doctor may so approve `gh` for a repository on Azure; `OkMeansUsable` excepts such URLs
  (`PlainOrigin`).

Doctor:

* Run as a script, doctor.py prints FAIL lines and ends with OK and status 0 (:4-7, :154): the
  checks import a `Result` that is not its own.
* `--checks ","` and a checks module that cannot be imported run no check and say OK.
* "authenticated via PAT env var" although the adapter never reads `forge.auth`; the variable is
  looked up in the configuration of the project only. For Azure, `OkMeansUsable` therefore says no
  more than that `az` is there and that it is logged in or the variable is set.
* A counter between the allocator's truncation and its write is reported as no number.

## 5. Proofs

All theorems are about the specifications above with arbitrary constants satisfying the named
assumptions of the modules (finite REQs, non-empty `Touched`, distinct positions, known faults).
Five of them have a hypothesis on the constants beyond these, named below, and do not hold without
it.

**`SprintEngine_proofs`**
* `Typing`: `TypeOK` is inductive by itself.
* `ClaimsAreTrue`: `TypeOK /\ MergedIsTrue` is inductive. It holds because a merged PR is never
  unmerged, `Merged(rows)` is built only under `allMerged`, and stitching only moves terminals.
* `KeepsTheLedger`: the step simulation on top of it. A step that changes `result` does not change
  `forge`, and what it writes is either not a merged terminal or a true one.
* `MergesAreSerial`: `SerialOverClaimedRepos` is not inductive. `StageInv` fixes which leaves may
  be awaited in which stage and that the results do not change within the barrier; `SerialInv`
  says that of two members of a group the earlier one is done when the later one is past `queued`.
  `SharingIsGrouped` shows that REQs that share a repository are in the same group: a component
  that contains one of them contains the other.
* `CrossRepoWaits`, for `Faults` without `"outside"`: `TouchInv` says that only a single-repo REQ
  awaits its own merge leaf and that `prs` are among `Touched`; `Landing` that pull requests land
  at such a leaf or at the barrier; `AccountInv` that at the barrier every REQ has its terminal.
* `HaltsSurvive`, for the one rebase attempt the script makes (:726): `ResultSteps` leaves three
  ways to change a result, and `OutInv` says whose terminals wait to be stitched in at each stage:
  in the barrier those of `pr-ready` REQs, in the unblock pass those of resumed REQs or of refused
  rebases. With more attempts a failed rebase may also end `merge-conflict`, and the property does
  not hold.
* `ResumedAlone`, for all faults: `PlaceInv` says which threads may be under way at each stage,
  one at most in the unblock pass; `UnblockInv` that who is on the list or being rebased is held
  behind a REQ that has dissolved. It is inductive because the pass changes no result and a merge
  clears the blockers only of the REQ it resumed.
* `NobodyForgotten`, for `Faults` without `"partial"`: `TriedInv`, every held REQ that can be
  resumed (`Held(lost)`) is on the list, in flight or has a terminal. A scan that reports
  part of the list does forget REQs.

**`Grouping_proofs`**
* `Typing`.
* `Groups`: `GroupsAreComponents` for every `N` and `Repos`. It says nothing before the end and
  needs `ForestInv`. Connection in the graph and in the forest are compared through the sets that
  they leave whole: `Sound` says the forest leaves every `Separate` set whole (nothing is joined
  that `sharesRepo` does not join), `Complete` that a processed pair that shares a repository is
  in no `Closed` set without its partner, `FindInv` and `RootInv` what a `find` and the collecting
  loop have reached. `HalveKeepsClosed`: path halving changes no closed set. `LinkKeepsClosed`:
  linking keeps exactly those that hold both roots or neither. At the end the tree `Under` a root
  is closed, so it is separate, and has only one root.

**`IdAlloc_proofs`**
* `Typing`.
* `Mutex`: with `~fell` a process past `mkdir` owns the lock (`LockInv`): the directory exists
  and nobody else of the machine is past it.
* `Unique`: `NumberInv` adds that every number taken on a machine is below what the next reader of
  the counter will see, or is held by the process in the middle of the write, as long as every
  counter was written (`~unsaved`).
* `IssuesTickets`, for `Faults` without `"timeout"` and `"unwritable"` (`NoLapse`): `fell` and
  `unsaved` stay false and `NumberInv` makes each `Truncate` an `Issue`; everything else stutters.

**`IdRecheck_proofs`**
* `Typing`.
* `Races`, `Fresh`: `WalkInv` adds to `TypeOK` that every id that was on the remote when the walk
  began is below the high-water already, or still ahead of the walk, or a read failed
  (`DerivingPart`), and the same of the id under recheck in the second walk (`ProbingPart`). It is
  inductive because a merge moves an id from the branches to the artifacts, which are read later:
  `Seen` only grows (`RemoteStepKeepsParts`). Read the other way round, as in the mutant
  `SourceAtSwapped`, it fails.

**`ReqRun_proofs`**
* `Typing`.
* `NoBlockingLost`, `RepliesReach`: `PanelInv` says that the report under fix and re-verification
  is the one that was raised, and that a question gets there only with a reply. `Blocks`: one
  blocking finding of any seat blocks. `MergeKeeps`: the overlay keeps the findings of a seat that
  did not report again.
* `TiersKept`: `BuiltInv` says that whatever is on record, and whatever the plan has and is no
  longer on the list, is in the worktree or was handed to an implementer that did nothing. That
  `NextTask` takes the lowest tier left then says it of all lower tiers. It survives a death, since
  only what was visited is recorded, and a new plan, since that takes up all that is not on record.
* `OnlyDueWork`, for `Faults` without `"null"`: `GateInv` says which gates a run has passed at
  each leaf, `WorkInv` that a task that was handed out is off the list, `DueInv` that nothing on
  the list is on record, `RecordInv` that each commit is on record, about to be recorded, or was
  left unrecorded by a death. If the leaf that reads `completedTasks` yields null, recorded work is
  done again.

**`Renumber_proofs`**
* `Typing`.
* `NeverHalfRewritten`: `BufInv`, the text about to be written was read in this invocation and,
  unless others touched the file, still is its text; `ArgsInv`, OLD and NEW differ.
* `AppliedLeavesNone`: `ListInv` says for each stage that whatever still has to be rewritten is on
  the list that is worked off next. It survives the move because the artifact's own files are
  `todo` from then on and no other file becomes a reference.
* `MoveBeforeReferences`: `ArtInv`, the artifact is there, `--yes` was given before anything is
  applied, and it has NEW before anything is rewritten.

**`AgentsRender_proofs`**
* What `RenderText` does to any text comes first: `RestExists` and `RestUnfolds` show that the
  recursive function in `Rest` exists and unfolds, `SetKeepsRest` and `InsertKeepsRest` that
  setting, inserting and deleting a model line leave it alone, `RenderShows` and `RenderChanges`
  what model the result shows and when it differs, the spelling of the line included.
  `SurgicalAndIdempotent` sums them up.
* `FilesStayWhole`, `RendersClean`, `ChecksPredict`: one inductive invariant for the three. Any
  number of processes share the files, so each of its parts follows one thing through the hands of
  all. `TmpInv`: a temporary file that nobody else has in use holds what its render puts there.
  `WholeInv`: what a render is about to put in place is as whole as the file. `SingleInv`: where
  people gave a file one model line, there is one in all that comes of it, in a temporary file that
  two renders have in use too. `CleanInv`, `DriftInv`: what a calm process has left behind it is
  right up to the agent it has reached. `CalmInv`: a calm process runs alone.
* `Typing`.

**`Doctor_proofs`**
* `BlocksAreRead`: induction over the lines of a file (`Upto`). After each line the reader is
  before the section, in it or behind it, knows the indentation of its first line, and keeps of
  each key it knows what the lines read so far say last (`ReadsSo`, `ReadsOn`). The last line of a
  key exists because a bounded non-empty set of numbers has a greatest member. No statement below
  that mentions a configuration could be proved without it: the code parses, the properties say
  what is in the file.
* `SubMapsAreRead`: the same for the two-level reader. `SubState` says where it is under the last
  header: in no sub-map yet, in one without a key, in one with keys, or behind a key to the left
  that has ended it (`KeyTaken`, `KeyLost`).
* `SendsOnlyAsOptedIn`: `SentInv` says for each place of the step what is behind it: consent once
  the gate has passed, and no key in the configuration, and the old provider on an old machine,
  once the call has resolved. The gate and the call read the machine at two moments, so nothing in
  it relates the two readings. `GateConsents` and `NoKeyRead` take one reading each. Nothing is
  assumed of what keys look like: one that is a valid name of a variable may be of a key's family.
* `OkIsUsable`, `OkIsOpen`: `Reported` says that the report holds the checks asked for among those
  the loop has passed, in the order of the registry; `Faithful` that each outcome is what the check
  would say again as long as nothing changes. `ShellWants`: for a plain URL the shell ends up with
  the forge that is wanted or with none, whichever of the three places names it. `PatNamed`: the
  variable that the check tries for Azure is the one the project's section names. `GateOpens`: what
  is left of the gate's three answers if the check did not fail and the file enables delegation.
* `RecordsTellTheTruth`: `PlaceInv` says, for each place of the step, what was done by then and
  what the sidecar holds of it: the marks of every fence, or, after a fence without the path of the
  flag, none of that fence (`Astray`). A change of the machine disturbs neither,
  and doctor's steps leave the step alone.
* `Typing`, `StepTyping`.

Every safety property of a passing run, state or action, is stated by a theorem. Only
model-checked are the termination properties (`SprintEnds`, `RunEnds`, `AllocEnds`,
`EveryonePushes`, `Terminates`), since liveness under fairness and `ENABLED` are beyond the
prover. The library's induction theorems take an operator as a parameter, which the provers
cannot instantiate; induction over the lines of a file goes through the least member of a set
of numbers instead (`LeastMember`, from `NatLessThanWellFounded`), which also gives the
existence of each recursive function that a proof unfolds. No module uses `RECURSIVE`.

**What the proofs found.** Four statements that the runs accepted did not hold for all constants,
and TLC confirmed each on a larger instance:

* `FilesWhole` said of a file's first model line only that it is known or people's own. A file to
  which people gave two model lines comes to show the second one when the first is deleted. It now
  speaks of all model lines.
* `RenderedIsClean` excepted files with two model lines. A third edit gives a way around that: an
  edit that removes the doubled line, undone by a render that had read the old text.
* `CheckPredictsRender` excepted files with two model lines, without need.
* `OkMeansUsable` left out URLs that match the pattern of one forge while their host is the
  other's (section 4).

## 6. Not modelled

* Prose skills and agents, but for the relaunch of a run and the fences of a delegated step;
  deploy skills: instructions with no code behind them.
* Installers: copying and linking with prompts. Kimi tools: deprecated copies of `tools/delegate`.
* The skill linter: regular expressions over the wording of SKILL.md files; nothing happens in an
  order that could go wrong.
* Trial merge: one process, a straight sequence of git commands whose effect is git's. A model
  would be a model of git.
* The pre-pass of the engine: what it keeps is a hint in a prompt that no later step branches on.
* Of the pure helpers `selectEligible`, the ranking order of `dedupeAndRank`, `validateCitations`
  and `candidatesByDimension`: functions of one argument with unit tests.
* Of the forge adapter the operations on pull requests, which `SprintEngine` sees as the forge,
  and `validate_auth`, which has no caller.
* Of delegation the packing of files, `adlc-write` (no skill calls it), redaction, the log file
  and the report of `check-delegation.sh`.
* Of the recheck lessons, which have no branch.

## 7. Plan

Done: merging and sequencing (`SprintEngine`), one REQ (`ReqRun`), grouping (`Grouping`),
allocation (`IdAlloc`), recheck (`IdRecheck`), renumbering (`Renumber`), configuration and
rendering (`FlatConfig`, `AgentsRender`), delegation and doctor (`Provider`, `Delegation`,
`Doctor`), with the abstract `MergeLedger` and `Tickets`, and the proofs of section 5.

Left:

1. `IdRecheck` composed with `IdAlloc` and `Renumber`: a counter that gives out an id which a
   renumbering took.
2. `Consolidate`: the ranking and citation helpers against declarative definitions, over bounded
   inputs.
