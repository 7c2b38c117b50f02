# DANZA-OS in TLA+

DANZA-OS lets AI coding environments ("bosses") build a product in turns. A JSON
file says whose turn it is, a scheduler runs the build loop of one turn, a
conductor starts a fresh boss session whenever the baton lies free, and a
workstation with a dashboard takes a person through the onboarding that produces
the specification and the plan the bosses work from. CORTEX is its memory.

This directory holds TLA+ models of the parts whose correctness is a matter of
ordering (who writes a file when, what a crash leaves behind, which step may
follow which), the TLC instances that check them, and proofs for TLAPS. Paths
below are relative to `src/danzaboss/`.

## The system

| Part | State | Operations | Talks to | What is hard |
|---|---|---|---|---|
| Team state, `kernel/state.py` | `team-state.json` | `init`, `transition`, `handoff`, `record_feature` | every boss, the scheduler, the conductor (reads) | several processes, load-check-write without a lock, two loads in one call |
| Build loop, `kernel/scheduler.py` | locals of `run()` | `decide`, `run` | team state, the executor | order of decisions, statuses it cannot leave, valve, killed runs |
| Conductor, `workstation/conductor.py` | `Watch`, log | `tick`, `run` | team state, session host | stale loads, restarts with a fresh `Watch`, dead sessions |
| Session hosts, `workstation/hosts.py` | tmux session name, or handle and pid file | `ignite`, `alive`, `kill` | boss processes | half-done ignitions |
| Pidfile, `workstation/conductor.py` | `conductor.pid` | `acquire_pidfile`, `release_pidfile` | other conductors | create and write are two steps, stale files |
| Wizard, `workstation/wizard.py`, `tree.py`, `state.py` | `answers.json` | `submit`, `record_result`, `_stale_after` | dashboard, checkpoints, research | staling, flow routing by project type |
| Interview, `workstation/interview.py` | `interview.json` | `begin_phase`, `run_interview_round`, `record_followup_answers`, `resolve` | wizard, boss CLI | rounds capped, records restarted, final word |
| Checkpoints, research | verdicts and digests in the wizard | `run_checkpoint`, `run_reality_check` | boss CLI, web | degraded results |
| Dashboard, `workstation/server.py` | `_POST_LOCK`, an event stream per page | POST handlers, `finish_onboarding`, `_danza_events`, `plan_detail` | all of the above | several saves in one POST, GETs without the lock |
| Planning, `workstation/planner.py`, `compiler.py` | `spec.md`, `plan.json`, `plan.md` | `compile_spec`, `run_planning`, `write_plan` | wizard, boss CLI | partial saves, retries, order of tasks |
| CORTEX store, `cortex/store.py`, `sqlite_backend.py`, `observation.py` | observations, usage log | `upsert`, `record_use`, `age` | every CORTEX command | read-modify-write by concurrent sessions, deaths between commits |
| CORTEX sessions, `cortex/commands.py`, `events.py`, `extract.py`, `hooks/gates.py` | sessions, event queue, gate flag | `start-session`, `record-event`, `observe`, `end-session` | hooks, store, LLM worker | ask once, never drop what nobody distilled, an unreliable worker |
| CORTEX federation and learning, `cortex/federate.py`, `learn.py` | the project's and the shared database | federated `upsert` and reads, `learn` | store | one change across two databases, order of aging and learning |
| CORTEX graph, `cortex/graph.py`, `repo_intel.py`, `git_intel.py` | nodes, edges | `cortex index`, `impact` | repository, store | rebuilt in many commits, ambiguous paths, cycles |
| CORTEX retrieval, `cortex/quality.py`, `retrieve.py`, `assemble.py` | none of its own | `build_package` | store, graph, bosses | budget in two passes, one re-plan |
| CORTEX servers and backends | none of their own | MCP, HTTP, SQL | store | protocols |
| Hooks, `hooks/`, `cli.py` | none | guards per event, the live hook | AI environments | two deciders that must agree |
| Capabilities, `security/` | elevation tokens in memory, audit file | `mint_elevation`, `check` | agents, dispatcher | single use, failing appends |
| Waves and decomposition, `orchestration/`, `planning/` | none | `plan_waves`, `assert_dispatchable` | bosses | cycles, conflicts, limits |
| Research squad, `research/` | throttle counters in memory | fetch, summarise, propose | web | rate limits |
| Profile, `kernel/profile.py` | `profile.json` | `active_profile` | hooks | what binds when nothing is configured |
| Tiers, memory, context, trace, runtime, runners, scaffold | files | load, append, report | everything | I/O |

`PROJECT.json` lists every part with its sources and status, and under
`hazards` each place where ordering, failure or a boundary can go wrong.

What makes each part correct, in one line:

* Team state: ownership, turn, feature count and status move together and only along
  the table.
* Build loop: never over the cap, never past a blocker, stops for the right
  reason, and stops.
* Conductor: one boss at a time, no free baton left lying, no session burnt
  without end, no orphaned turn unreported.
* Pidfile: one conductor, whose claim stays; a crash needs no cleanup.
* Onboarding: nothing approved outlives the answers it was about; the grill ends,
  is about one phase at a time, and the user has the final word.
* Planning: what is armed was planned for the approved answers, can be built in its
  order, and gets onto an open page; tasks that run together do not collide.
* Capabilities and hooks: `check()` lets an elevation through once and logged; the
  live hook is no laxer than the guards it stands in for, for the tools that call it.
* Graph and retrieval: an index ends in the graph of what it read, impact is
  reachability, and a package accounts for everything retrieved.
* CORTEX: what is replaced is marked and what is known is merged, nothing that a
  session start finds expired is injected, uses are counted, what a gating Stop has
  read is distilled before it is dropped, and a session is asked to distil once.

## Modules

| Module | Models | Notes |
|---|---|---|
| `TurnRules` | the record, the status table and what each mutation makes of it | shared by the next two |
| `TeamState` | several processes calling `StateManager` | each load and each `os.replace` is a step; `Serial` forbids overlap |
| `TurnLock` | what the docstrings promise of the file | abstract; `TeamState` with `Serial` implements it |
| `Scheduler` | `Scheduler.run`, run after run on one file | one process, so each call on the manager is a step |
| `Conductor` | ticks, both hosts, sessions and people | a tick is split at every point where a session can get in |
| `Pidfile` | acquire and release, per system call | `SerialStart`: nobody starts while another is acquiring |
| `Onboarding` | wizard, interview, checkpoints and research behind the POST handlers | a POST is a step, except that submit and follow-up may die between saves |
| `Profile` | the profile a hook finds in its environment and two files | operators, no state; used by `Cortex` and `Guards` |
| `CortexRules` | what CORTEX does to one observation: insert, match, merge, expire, promote, refresh, shadow | operators, no state |
| `Cortex` | processes running hooks and `cortex` commands on both databases and the session tables | each commit is a step; no lock, so calls may overlap |
| `PlanOrder` | one call of `order_tasks` behind `validate_plan`, or of `plan_waves` | a step is one layer, or one wave |
| `Planning` | Finish and what the dashboard shows of it, on top of `PlanOrder` | each file replaced and each file read is a step |
| `CodeGraph` | `cortex index` on the graph's two tables, and the closures over it | each write is a step; runs may overlap |
| `Retrieval` | `build_package` on the store and on `CodeGraph` | the store changes between the two attempts |
| `Guards` | the guards before a tool, the live hook's decision | operators, no state |
| `Governance` | capability registries and the dispatcher, on top of `Guards` | memory, append and return are three steps |
| `TeamStateProofs`, `SchedulerProofs`, `ConductorProofs` (with `Pidfile`), `OnboardingProofs`, `CortexProofs`, `PlanningProofs`, `GovernanceProofs`, `ReadPathProofs` (`CodeGraph` and `Retrieval`) | theorems and inductive invariants | |
| `MC...` | instances for TLC | definitions for the `.cfg` files only |

How state and actions correspond to the code:

* `TeamState`: `file` is the JSON record, `first` what `handoff`/`record_feature`
  loaded, `snap` what `transition` loaded. `CallX` is the call up to its first
  load, `Load`/`Refuse` the load and checks of `transition`, `Write` the replace,
  `Die` the process killed before it.
* `Scheduler`: one action per branch of `run`'s loop. `SetStatus` is
  `transition(to_status=...)`, whose refusal raises out of `run` (`result` becomes
  `raised`). `MoveOn` stands for bosses and people moving the status between runs.
* `Conductor`: `LoadState`, `Observe` (refresh and decide), `Spawn` and `Deliver`
  (the two halves of `ignite`) make up a tick. `stage` is what each session is
  doing: `mute` was spawned by tmux without the ignition phrase, `fresh` has it,
  `working` owns the turn, `wrapping` is on its way out. `tracked` is the session
  the name, or the headless pid file, stands for.
* `Pidfile`: `file` names the process that created the file at the path, `written`
  the files that hold a pid already.
* `Onboarding`: `status`, `result` and `ptype` are `answers.json`, `grill` and
  `rounds` are `interview.json`, `pc`/`cur` what the running POST has left to do.
  `edited` and `outdated` are history variables for the properties; no guard
  reads them.
* `Cortex`: `rows` is the observations table of both databases (a row's `home`
  says which), `log` the number of its rows in `usage_log`, `sess` the sessions
  table, `queue` the unprocessed events. A row's `proj` is its project: `all(project)`
  lists the rows of that project only (`Listed`), so a near row of another project in
  the shared database does not keep an observation from being stored, while the shared
  rows a project reads are those of any (`Visible`). Which profile a hook finds is open
  each time (`Found` in `SessionStart`'s end, `RecordEvent` and `Stop`): it may gate, not
  gate, gate again, or raise. `call` is what a process is in the middle
  of: `phases` the passes a session start or `age`/`learn` still has to make,
  `held` the rows it has read and is about to write back, `obs` the observation
  `upsert()` has in hand and `id` its row's id, `batch`, `drafts` and `left` what
  a Stop hook has read, drafts and has not stored yet. A read-modify-write is two
  steps (`Load`/`Sweep`, `Use`/`PutUse`/`LogUse`, `Find`/`PutOld`/`PutObs`), and
  `Die` may come between any two. `asked`, `recorded`, `overlapped`, `deaths`
  and the call's `due` are history variables and bounds: of the guards only the capture of an event
  (which event ids are fresh) and `Die` read them.

* `PlanOrder`: `plan` is the parsed plan (dependencies, writes and which leaves pass
  their own checks), `waves` the layers or waves so far. `Check` is `validate_plan`
  or the checks at the top of `plan_waves`, `Take` a turn of the `while` loop,
  `Stop` its end. A wave is described by what the walk over the ready tasks makes of
  it (`Greedy`), not by the walk.
* `Planning`: `spec`, `json` and `md` number what the files were made from. `fin` is
  where POST /finish is: `WriteSpec` runs its gates and replaces `spec.md`, `Reply`
  asks the boss and hands the plan to `PlanOrder`'s steps (`PlanCall`), `GiveUp` is
  either error, `WriteJson` and `WriteMd` are `write_plan`. `Onboard` is any other
  POST, which waits for the lock. `Connect`, `Poll` and `Read` are the event stream
  and the three file reads of `plan_detail`. A behaviour with `fin = "off"` is one bare
  call of either loop, without a dashboard.
* `CodeGraph`: `tree` is the repository, `store` what an observation's row says, `run`
  the writes each index run has left in its phase. `ClearEdges` and `ClearNodes` are
  the two deletes of `clear`; edges to what a lookup finds are resolved when their
  turn comes (`Found`). `seen`, `cleared` and `overlap` are history variables.
* `Retrieval`: `bundle` is the package in hand, `stage` where the call is. `First` and
  `Replan` are the two attempts, `RecordUse` and `Answer` what its callers do with
  the package. Behaviours with `stage = "off"` are those of the index alone.
* `Governance`: `tokens` is each registry's memory, `call` what it is in the middle
  of, `audit` the file. `Mint`, `Spend`, `Refuse`, `CheckPlain` and `PreToolUse` change
  the memory, `Append_`/`AppendFails` are the line, `Return` is the answer;
  `Restart` may come between any two. `known` are the tokens someone was given;
  what else is shown as a token, another object or a string, is `Unminted`. `check()`
  looks tokens up and refuses it. `PreToolUse` asks the registry only for capabilities
  that take grants, so there the token does nothing but open a hard stop
  (`HardStop`), spent or unminted as it may be: `guards.py:76` asks whether there is
  one, and `test_hooks.py:34-37` passes a string. `passed` is a history variable. `world`
  is the configuration that `Guards` reads for the live hook. `Seen` is the event the
  hook makes of a payload: it reads `file_path`, `path` and `command` (`cli.py:121-122`).

Definitions headed "Mutant" are faulty variants of the definition they precede.
They are used by no specification; substituting one for the original must break
the property `PROJECT.json` names, which shows that the property depends on that
piece of code.

## What the runs check

| Run | Instance | Shows |
|---|---|---|
| `turn_serial` | 2 processes of 2 bosses, cap 2, 3 turns | `FlagMeansCapReached`, and refinement of `TurnLock` when calls do not overlap |
| `scheduler` | 2 bosses, 4 tasks, cap 2, valve at 6 steps | `CapRespected`, `CountsAgree`, `StopsForCause`, `RunReachesDecision`, `RunEnds` |
| `scheduler_relay` | runs also start on `awaiting_handoff` | `RunReachesDecision` fails |
| `conductor` | 2 session slots, both hosts, valve 2, 2 turns, 1 conductor death | `OneBoss`, `ValveBoundsWaste`, `BatonPickedUp`, `WatchedOrphanSurfaced` |
| `pidfile_serial` | 4 processes | `OneConductor`, `ClaimKept`, `NoManualCleanup` |
| `pidfile_overlap` | 2 processes, overlapping starts | `OneConductor` fails |
| `onboarding` | p0, seed phase, research, optional phase, checkpoint; 3 rounds | `ApprovalSurvivesNoEdit`, `TypeChangeRevokesAll`, `OneOpenGrill`, `GrillBounded`, `FinalWordStands` |
| `cortex` | 1 process, 3 ids, 1 session and event, clock to 1, 1 death; 3 topics that share links and 3 projects, see below | `GateAsksOnce`, `FloorBeforeForget`, `ReplacedAreMarked`, `InsertsNoTwin`, `InjectsNothingExpired`, `ReplayNeverOvershoots` |
| `cortex_use` | as `cortex`, with one topic | `UseKeepsAlive` fails |
| `planning` | 4 leaves in 3 nodes, 3000 plans, limits 0, 1, 3; 3 replies, 2 rounds, 2 edits, 2 plans | `DependenciesFirst`, `WaveMembersIndependent`, `RefusesOnlyCycles`, `CallEnds`, `PlanForPresentAnswers`, `ArmedPlanBuildable`, `PlanReachesPage` |
| `governance` | 2 registries, 2 agents, 2 tokens and an unminted one, 3 calls, 24 events, every configuration | `ChecksAccounted`, `HookNoLaxer` |
| `cortex_read` | 3 files, 1 library, 3 observations, 2 index runs, 1 edit | `IndexRebuilds`, `ImpactIsReach`, `PackageAccounts` |

The type invariants of `TeamState`, `Scheduler`, `Pidfile`, `Onboarding` and
`CodeGraph`, and `BlockerStopsWork`, are theorems and not repeated in the runs.

### Disagreements between code and documentation

* `scheduler_relay`: `handoff()` leaves `awaiting_handoff`, the conductor ignites
  the next boss on that status, but `run()` moves only `ready` on. From
  `awaiting_handoff` the table allows neither `done`, `blocked` nor another
  handoff, so the second turn ends in `StateError`, unless the boss first moves
  the status to `in_progress` itself.
* `pidfile_overlap`: between `O_EXCL` and the write of the pid the file is empty.
  A second conductor reads no pid, takes the file for stale, unlinks it and
  claims the path.
* `cortex_use`: `learn.py:14-15` says that use keeps memories alive, as expiry
  extends from the last use. A session start ages before it learns, and learning
  skips archived rows: a row used on its last day is archived by the next session
  start, unless `cortex learn` ran in between.

Three more have a property in their module that the code does not keep, and no
run of their own:

* `StatusFollowsTable` (`TeamState`, with `Serial = FALSE` in `TeamStateSerial.cfg`):
  `state.py:12-14` says every change is validated before it is persisted. The
  validation is of the record that was loaded, not of the one that is replaced:
  two bosses that overlap can leave `done -> blocked`, and lose each other's
  writes. The ownership check suffers the same way. Calls that do not overlap are
  proved to keep the promise.
* `ApprovedVerdictIsCurrent` (`Onboarding`): a stale checkpoint keeps its verdict and
  the dashboard its Approve button, so the verdict on the old answers can be
  approved again.
* `WorkerCostsNoFloor` (`Cortex`): `extract.py:84-85` says that a broken worker must
  never cost a session its floor drafts. An answer of the right shape with an
  unknown importance or type raises out of the extraction and out of the Stop
  handler; the hook fails open, and nothing is drafted.

Met while modelling, with no property at all: a session that dies while no
conductor runs was never seen alive by the next conductor's `Watch`, so its
`session_end` line is never written (`WatchedOrphanSurfaced` is about sessions a
conductor has watched). `mark_processed` also takes events captured while the
Stop runs, unread, and those captured after a session has distilled once
(`gates.py:57-59`, `commands.py:104-105`). A Stop that finds `OS_DEV` marks whatever is
pending as processed, unread and undrafted, also events captured under another profile
(`commands.py:92-95`; `test_profile.py:170-179` asserts "processed, not drafted"):
`FloorBeforeForget` is about the events a gating Stop has read, before or after such a
Stop. Merging leaves the old row's expiry, or none: an observation reported as
`archive` has no expiry, a report merged into it makes it `temporary`, and if it was
last used long before, `learn` at the next session start gives it an expiry that has
passed already, after aging, and the row is injected. It had not expired when the
start began, so `InjectsNothingExpired` does not speak of it.
`federate.py:11-13` calls concurrent writers to the shared database safe as the
last one wins; each write is, but the read before it may be stale, which is why
the invariants of `Cortex` say "as long as calls have not overlapped".

`plan_waves` with `max_parallel = 0` never ends. `snapshot_token` does not stat
`plan.md`, so a page that is refreshed between the two replaces of `write_plan`
keeps the text of the old plan until something else changes; a page that fetches
the plan and then connects misses what changes in between, as does one that
reconnects. Two overlapping runs of `cortex index` leave what either read: nodes of
files that are gone, and edges to nodes the other run has cleared, which a later
`clear` finds only if one end is a node again (`IndexRebuilds` says how much holds
then). A failed append after a token was marked leaves it spent with nothing in
the log, and nothing done.

"A single-use, logged grant" (`capabilities.py:62-64`) is what `check()` makes of an
elevation token. `hard_stop_guard` makes less of it: any token that is not `None` opens
a hard stop, as often as it is shown, without the registry or the file learning of it.
`ChecksAccounted` therefore promises nothing of hard stops. The live hook never has a
token, and asks or denies. It knows a `NotebookEdit`'s path as little, as that is in
`notebook_path`, and lets a payload pass that it cannot read; the matcher of the shipped settings
(`Write|Edit|MultiEdit|Bash`) names neither that tool nor `Task`, so that the guard on dispatches
is never asked there. `HookNoLaxer` is about the tools the matcher names (`Wired`).

`danza cortex impact --depth 0` still lists the files at distance 1, since the first
select of the closure has no bound (`graph.py:156`); `ImpactIsReach` and
`ImpactCorrect` are about depths of at least 1.

Rule 45 of the constitution template also lists statuses (`ready_for_claude`)
that `validate()` refuses; a file written by that rule is the unreadable state
`Conductor` provides for (`Garble`).

### Bounds

* `MaxTurn`, `MaxFeatures` stop the counters of `TeamState`. Guards read the
  counters only against the cap (2) and equality, so a turn or feature more adds
  no new case.
* `MaxTasks` 4 with cap 2 gives a full relay turn that is handed off and one whose
  cap coincides with the goal. `MaxSteps` 6 lets a run verify two features with a failed attempt
  between them before the valve; the code's 10 000 is the same rule.
* `DeadSessionValve` and `MAX_ROUNDS` have the code's values, 2 and 3.
* `MaxCrashes` 1: one restart puts a fresh `Watch` beside a surviving session, and
  only the headless spawn window can add a session. Two slots suffice for that.
* Four processes in `Pidfile` let two stale files, a holder and a starter meet.
* The flow of `MCOnboarding` has every kind of step, a phase before and after
  research, the seed flow and an optional phase. The proofs cover every flow.
* `PlanOrder`: four leaves, two of them under one node, in a section of three beside
  a section that is a leaf, let a dependency name a leaf, a node above others or an
  unknown id, forwards and backwards, and let conflicts chain through three ready
  tasks; the limits are none, one, and one short of all.
  `Planning` adds an unfit, a cyclic and a good reply, so that two rounds have every
  pair of outcomes, and two edits and two plans, so that a second Finish meets the
  files of the first, and an answer under way a second replace. `MAX_ROUNDS` is 3 in
  the code; the theorems hold for any value.
* `CodeGraph`: the three files have two names of which one is the other's tail, and
  imports that make a cycle and a file that imports itself; two runs and one edit
  are a death, an overlap or a race each. `Retrieval`: budget and ladders are such
  that entries fit whole, trimmed, from the leftover or not at all, in a category
  that is full, empty or dropped.
* `Governance`: three calls are a mint and two uses, two registries let a token be
  tried in the other one, and a token be shown at a hard stop before, between or after. `CallWorld`: calls are explored in one configuration only,
  as none of them reads it. The events carry every mark, alone and, where two guards
  compete, together.
* `Cortex`: one process, as the properties are about calls that do not overlap
  (the actions are written for any number, and the theorems cover it). Three ids
  are an old row, its replacement and a near-duplicate of either. One event with
  `MinEvents` 1, so that one capture makes the gate and the floor due.
  `PromoteAt`, `MaxUses`, `MaxTime` 1 let a row be used, promoted, refreshed and expire; what agents report is `temporary`
  or `archive`, what is drafted `low`, so that importances occur that expire, last, and have no expiry.
  The three projects are this one, another, and none named.
  `MaxDeaths` 1 leaves one half-made change for later calls to meet. `Spare` is a
  bound, too: reports leave that many ids for drafts. Ids are symmetric.
  Of the three topics one shares links with each of the others: a row it is merged
  into comes near to what it was not near to before. To keep the instance small,
  `OneWorld` (a state constraint) explores the topics and projects only while `temporary` reports are
  all that happens; as soon as a clock, a session, an event or a use comes in, rows are of one
  topic, which is its own near-duplicate, and of this project, and `archive` is reported
  to the project's database only, and without a death beside an archived row. `cortex_use` has one project and reports `temporary`. The theorems know no such bound.

### Fairness

* `Scheduler`: weak fairness of a step of a run in its loop. The loop is
  sequential code whose executor call returns; nothing else is assumed, and a run
  may be killed.
* `Conductor`: weak fairness of a conductor's tick, which is all `run()` does
  between sleeps. Sessions, people, crashes and restarts are not fair: a working
  boss may work for ever.
* `Planning`: weak fairness of a step of a call under way (a loop of the planning
  thread), of the next read of a GET, and of the stream's poll, which is a loop
  around a two-second sleep. People, the boss's replies, and deaths are not fair:
  a plan need never be accepted, an answer need never be asked for again.
* The other modules state safety only.

`CHECK_DEADLOCK FALSE` is given where the system may stop: no task is left and
every run has ended (`Scheduler`), every process has had its one run (`Pidfile`), a
bare call has returned (`PlanOrder` in `Planning`), or the bounded calls are used up
(`Governance`).

## What is proved

All constants are arbitrary within their named assumptions; no bound of the
instances is used, except that the bounded counters of `TeamState` stop calling.

* `TeamStateProofs`: `TypeCorrect`; `FlagCorrect`, for any interleaving: the
  invariant says of every record about to be written back that its flag is right,
  and `record_feature` computes flag and count from one record. `SerialKeepsPromise`
  assumes `Serial`; its invariant says that at most one
  process is in a call and that what it has loaded still is what the file holds,
  so that each write is a step of `TurnLock` and everything else a stutter.
* `SchedulerProofs`: `CapCorrect` rests on the fact that an unverified build is
  pending only if the count was below the cap when it was started (`decide` tests
  the cap before building, `record_feature` counts after verifying).
  `CountsCorrect` and `BlockerCorrect` need no assumption on the start status;
  `ReadyStopsForCause` and `ReadyReachesDecision` assume that runs start on
  `ready` or `in_progress`, and show that the status then is `in_progress`
  throughout the loop.
* `ConductorProofs`: `TypeCorrect`, `OneBossCorrect` and `ValveCorrect`, for any set
  of session slots, finite or not, and whatever sessions and people do between the
  steps of a tick. `OneBossCorrect` counts the strays, who are alive without being
  the session that the name or pid file stands for or the one `ignite` has in hand:
  at most one for each headless boss lost to a death (`BossInv`). In between it
  needs that a tick about to ignite has seen nobody, and that nobody can have come to
  life since. `ValveCorrect` compares the sessions burnt in the present turn with
  the deaths the valve has counted (`Accounted`): they differ by one between ticks
  and by two while a session is up, unless it was ignited on a turn that has passed
  since, which `TurnsInOrder` keeps apart. The assumptions are that `None` is neither
  a session nor a turn and that the bounds are numbers.
  Of `Pidfile` it has `PidfileTypeCorrect`, and `SerialOneConductor` and
  `SerialClaimKept` for any number of processes. The invariant ties the file to the
  one process that may hold it: a holder's file is at the path with its pid written, and whoever is about to
  reclaim has seen no live pid. `SerialNoManualCleanup` adds `FreshInv`: a process
  that met nobody alive when it started stays alone until it has acquired, finds one
  stale file at most, which is not its own, and the path free after that.
* `OnboardingProofs`: `ApprovalCorrect` and `TypeChangeCorrect` rest on
  `ApprovedComeLast`: an approved step has every earlier phase of the flow behind
  it, so a later edit of one of them meets a terminal status and makes the
  approval stale. (Earlier checkpoints need not be terminal: they may be
  reviewed again.) `OneGrillCorrect` rests on `SubmittedBlocksAlone`, which
  carries the guard of submit over its two saves. `GrillCorrect` and
  `FinalWordCorrect` cover any cap.
* `CortexProofs`: `TypeCorrect` holds however calls overlap. `GateCorrect` needs
  that at most one call is in flight as long as none have overlapped
  (`SerialInv`); then a session that has been asked carries the flag, the flag is
  never taken back, and a Stop on its way to asking has read a session without it
  (`OnlyStopAsks`: no other call reaches that step).
  `ReplacedCorrect` and `ReplayCorrect` share an invariant (`StoreInv`) about the call
  in flight: the rows it holds are still the rows stored, the id it has taken is
  still free, and what its observation replaces is there, in hand before it is
  marked and marked before the observation is stored. Once a use has been counted,
  the count is ahead of the log until the log has it too, so a death in between
  leaves the log short, never long.
  `TwinCorrect`, `ContextCorrect` and `FloorCorrect` rest on a second one on top of it
  (`TrackInv`), of what each kind of call has settled by each of its steps. `Placed`:
  an observation about to be stored as new has no match. `Starting`: what had expired
  when the session started is still expired in the passes to come (`Pending`), or in the hand of the
  pass under way (`Caught`), or archived (`Settled`); learning comes last, only
  prolongs, and brings nothing archived back. `Stopping`: what a Stop has drafted is
  stored but for what it has left and has in hand; one that found no gating profile
  has read and drafted nothing. For the last two, rows must not lose what they say: every step of a
  call either stores a new row or rewrites one that keeps its topic, its database, its
  project and its links (`RowChanges`). Nothing is assumed of `Near`, not even that
  it is symmetric or that a subject is near to itself, nor of what agents report.

* `PlanningProofs`: `OrderIsSound`, `WavesAreIndependent` and `RefusalsAreCycles` are
  proved for any tree, plan and limit; the invariant says that all that has been
  scheduled had everything it waits for in earlier layers. For a cycle the witness is
  the rest: each remaining leaf is kept waiting by another. `PlanIsForPresentAnswers`
  rests on the lock: from the gates until `plan.json` is replaced nothing but Finish
  moves, so the specification is that of the answers. `ArmedPlanIsBuildable` adds that a plan whose
  order is complete has no set of leaves that wait for one another: the first of
  them to be scheduled would have waited for nothing in the set.
* `GovernanceProofs`: the invariant (`Trail`) follows one token through memory, call,
  file and history: a spent token is marked before its line is under way, at most
  one call carries it, what has passed is written, and its mint line was written
  before anybody knew the token. It covers any interleaving of registries, so the
  shared file needs no lock for it. Which tokens are shown is open: `check()` finds
  an unminted one in no registry's memory, and the dispatcher names none in a line.
* `ReadPathProofs`: `GraphTypeCorrect`, `IndexCorrect` and `ImpactCorrect` for any
  files, imports, commits and observations, `AccountsCorrect` for any ladders,
  fractions and calls.
  `IndexCorrect`: what a run will have written is what is in the tables and what the
  rest of its phase writes. The invariant (`IndexInv`) says of the run that cleared
  last that the two together hold all the phase is to leave (`Ahead`), and, as long
  as no runs have overlapped, no node more and no edge of the code's more (`Exact`).
  `Exact` needs in turn that a run without overlap is the only one, that edges start
  at nodes there are, and that each write still to come finds the node it starts from
  (`Alone`, `Founded`). For that the lists of writes are read off the code's loops:
  every file before its imports, every commit before what it touches.
  `ImpactCorrect`: `ReachesTo(cap)`, for every depth and not only the one
  `ImpactIsReach` looks at. The closure holds the nearest of the walks of up to so many
  edges (`Nearest`), a walk is a chain of imports, and a chain of so many is a walk.
  `AccountsCorrect`: one book (`Booked`) is kept through both passes: entries at the cost
  of a whole rung, everything seen once in one place. In pass 1 what each category
  has spent is within its quota and sums up to what is used (`QuotaOK`), and the quotas,
  each rounded down, sum to no more than the budget (`AllocationFits`); in pass 2 what is
  used is within the budget (`LeftoverOK`). `First` and `Replan` put the result into
  `bundle`, whatever the store has become in between.
  The library defines a fold as a chosen recursive function, of which nothing is
  known before it is shown that there is one. `Recursion` and `Folding` show it, for
  functions on numbers and for folds of sequences and sets, by way of the least
  number at which a claim fails: no theorem with an operator parameter is needed.
  Assumed is that the sets are finite, that fractions are whole percents that sum to
  100, that a ladder does not rise, and that budget and limit are natural numbers. The
  code has the fractions as floats with the same two decimals. It does not check
  `--budget`; with a negative one nothing fits, the package is empty, and 0 is more
  than the budget.

Only model-checked:

* `StopsForCause` and `RunReachesDecision` of runs that start elsewhere (they fail).
* `HookNoLaxer`, which compares two functions over every profile and event of the
  instance; there is no state to reason about.
* The liveness properties (`RunEnds`, `BatonPickedUp`, `WatchedOrphanSurfaced`, `CallEnds`,
  `PlanReachesPage`), which TLAPS cannot prove under fairness.

## What is abstracted

* `TeamState`: `goal`, `updated_at` and `max_features_per_turn` as a field (the
  mode determines whether it applies); the tmp file of a write.
* `Conductor`: the tail of the session's output, the clock and the stall report.
* `Pidfile`: reuse of a pid by an unrelated process.
* `Onboarding`: the content of answers, prompts, verdicts and digests; conditional
  questions. A submission says whether it changed an answer, which is all that
  staling reads.
* `Cortex`: what an observation says, beyond its topic. Similarity is a relation `Near`
  between subjects, which are the topic that title and type come from and the set of
  topics whose links the row has. `_merge` keeps the title and unions the links
  (`store.py:83-114`), so a row may come near to others in time: two live rows of
  one database can be near to each other though neither was when it was stored. So
  `InsertsNoTwin` is about what is inserted, at the time, and not about the table. Nor
  is it about near rows of other projects in the shared database, beside which the code
  does insert. Drafting is
  the function `Floor` from events to topics, the
  worker any set of topics or an exception. Confidence, tags, history entries and
  ranking decide none of the changes modelled. Git mining, import and export are
  left out.

* `Planning`: texts and sizes of a task (whether its own fields pass is a choice), the
  other onboarding steps (`Onboard` changes the gates as it likes; `Onboarding` says
  how), and the number of pages: one stream stands for each.
* `CodeGraph`: symbols inside a file, weights, attributes, and the language of an
  import. Deletes and upserts of one SQL statement are one step.
* `Retrieval`: scores, intents and texts. Any order may come out of the ranking and any
  mark out of the quality gate, within what the caps, the kills and an empty
  package settle; so nothing is claimed about which entries are best.
* `Guards`: patterns are marks that an event has or has not.

## Not modelled

* The stall report of the conductor and the tmp file that two writers of the team
  state share: both are hazards of timing below the steps modelled.
* Runner registry and templates, scaffold, memory, context, trace, runtime
  verification: they read, validate, append or report; one atomic replace at most,
  and no step that another part could come between.
* CORTEX servers and backends: protocol framing and SQL in front of the store. Their
  calls are those of `Cortex` and `Retrieval`.
* The research squad: the throttle's counter lives in memory, so its ceiling is per
  process, and nothing else has an order that matters.
* Tiers, the turn gates of `stop()`, the CLI's other commands, federation's `replay` and
  `search`, the graph's `path`, `subgraph` and `stats`: functions of what they are given,
  or reads.

## Next

1. `Planning` joined to `Onboarding` step by step in place of `Onboard`, with a proof
   that each POST is an `Onboard` or leaves the gates alone.
2. The stall report and the shared tmp file.

## Running

    tlc -config TeamStateSerial.cfg MCTeamState.tla
    tlapm TeamStateProofs.tla

`PROJECT.json` lists every run with its module and configuration.
