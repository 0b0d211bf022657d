# Zorava: a TLA+ verification development

Zorava runs coding assistants (Kimi, Qwen) as supervised worker processes. A job
is one row of an SQLite database, one supervisor process executing
`Supervisor.run()`, one worker process group and a slot lock that bounds how
many workers of a kind run at once. There is no daemon: every `ai-worker`
command is a process of its own, and all coordination goes through the database,
through `flock` on slot files and through signals. That is where the program is
hard to get right and hard to test, and what the core of these modules models.
Around it stand the directories of edit jobs, the launch of a worker, the
registries of the dashboard process and several files that more than one program
writes; each has a module of its own.

All paths below are relative to the repository root (`ai_router/` lies under
`src/` beside this directory).

## 1. Inventory

| Component | State | Operations | Interacts with | What makes it correct |
|---|---|---|---|---|
| Job store, `ai_router/state.py` | `jobs` rows (status, cancel flag, pid, start time), `job_events` | create_job, start_job, finish_job, fail_queued, cancel_queued, request_cancel, mark_interrupted | every process that handles jobs | terminal statuses are final; the event trail agrees with the row; status-scoped updates lose no race |
| Supervisor, `ai_router/supervisor.py` `run()` | local: slot lock, worker process, computed status | create, wait for a slot, spawn, start, communicate, classify, finish, re-read, clean up | store, slots, worker | every exit path leaves the row settled, the worker gone and the slot free; the answer is the persisted status |
| Slot locks, `_wait_for_slot` and `settings.py` concurrency | kernel flock table over `<worker>.<index>.lock` | open, poll flock, close | other supervisors, dashboard probe | a live worker holds a slot; no slot leaks |
| `Supervisor.cancel()` | none of its own | read row, cancel_queued, re-read, request_cancel, signal the group | store, worker | a cancelled queued job never becomes running; a race with start, finish or another canceller is answered truthfully |
| Dashboard tests and recovery, `dashboard/server.py` | wrapper processes, probe's locks, `_lock` | start_test, `_worker_has_active_job`, `_collect_test`, shutdown_owned_tests | store, slots, wrapper's `run()` | retires only rows of dead supervisors; every probe gives its locks back; stranded rows are recovered |
| Dashboard HTTP server and pages | session token, cached snapshots | routing, provider cards, host cards | store (reads) | a card says READY only on fresh evidence of a healthy test |
| Settings, `ai_router/settings.py` | `settings.json` | load, merge, atomic replace | every reader | no torn file; no value nobody asked for; concurrent savers (a lost update, section 4) |
| Retention, `ai_router/retention.py` | none | preview, apply_cleanup | store, job directories | the worktree of a job that ran never loses the row through which it is reached |
| Isolated workspace, `workers/workspace.py` | git worktree, job directory, patch | prepare, collect, cleanup; `discard` in `bin/worker.py` | `run()`, retention | edits vanish only by a confirmed discard; the request text is removed whenever the file system lets it |
| Version-check registry, `ai_router/updates.py` | `_entries`, `_threads`, `_stopping` | request, check threads, shutdown | dashboard | bounded concurrent checks; nothing runs after a shutdown; each entry leaves "checking" |
| Kimi quota cache, `ai_router/kimi_quota.py` | snapshot, cooldown | request_check, refresh, describe | dashboard | stale data is marked stale; a refresh is always possible again |
| Worker adapters, `workers/*.py` | selected model, known directories | discover and verify models, build command, parse usage | `run()`, settings, CLI configuration | the worker runs the budget and the model it was given, verified after the wait |
| Command line, `bin/worker.py` | none | argument parsing, dispatch, discard | all of the above | Ctrl+C path, discard only of ended jobs |
| Worktree broker, `bin/worktree_mcp.py` | the worktree | list, search, read, write, replace | worker | paths stay inside the worktree |
| Sandbox launch, `bin/sandbox_exec.py`, `landlock.py` | the process's restrictions | build and activate the ruleset, exec | kernel | no worker with a part of its confinement |
| Request validation, redaction | none | pure functions | `run()` | the budget rules; otherwise text processing |
| Host integration, `ai_router/hosts.py` | cached snapshot | resolve, probe | file system, dashboard | only genuine installations run, the newest or the active one |
| Credential update tool, `tools/update_qwen_credential.py` | Qwen's `settings.json` | prompt, splice, compare, replace, verify | Qwen, the user's editor | no edit made before the comparison is lost; key and endpoint fit |

The hard behaviours, each at its line, are the `hazards` of
`PROJECT.json`. In short: supervisors, cancellers and the dashboard interleave
between any two accesses to the store; `finish_job` reads in autocommit and
writes later without a status condition; the worker is created before
`start_job` decides whether the job may run; supervisors can be interrupted or
killed at any point while their worker, in a session of its own, lives on;
the concurrency setting changes while jobs wait; and the store may refuse writes
in the very handler that reports an error. Beyond the supervisors, several
read-modify-write sequences on files have no lock (settings, Qwen's settings,
the schema migration, the history cleanup), threads are registered before they
are started, and every step of a preparation, a confinement or a file write may be
the one that fails.

## 2. Modules

| Module | What it is |
|---|---|
| `JobStore` | the rows and trails, one operator per `StateStore` method that writes them |
| `Supervisor` | composes `JobStore` with `run()`, the slot files, the worker processes and `cancel()` |
| `JobLifecycle` | the abstract specification: what somebody who sees only statuses and answers may rely on |
| `Dashboard` | composes `Supervisor` with `start_test`, the busy probe and its recovery, the collector thread, cancel subprocesses and `shutdown_owned_tests` |
| `EditWorkspace` | the directory and the row of each isolated-edit job, shared by its supervisor, its worker, `discard` and the history cleanup |
| `WorkerLaunch` | what a request becomes on its way to the worker: validation, model, budget, command, Landlock wrapper, while settings and configuration change |
| `SettingsFile` | `settings.json` and the concurrent calls of `save_settings` |
| `StoreOpen` | `StateStore.__init__`: creation and migration of the database by several processes |
| `CredentialUpdate` | the credential tool next to an editor of the same file |
| `UpdateRegistry` | version checks: requests, threads, replies, shutdown |
| `QuotaCache` | the quota snapshot: cooldown, refresh thread, staleness |
| `ProviderHealth` | the end of a provider test, from `_classify` to the badge of the card and `ai-worker status` |
| `UsageTotals` | token counters, from a CLI's records to the totals of the history |
| `HostExecutable` | which executable of a host agent is resolved and probed |
| `WorktreeBroker` | the file tools of an editing worker |
| `MCSupervisor`, `MCDashboard` | instances for TLC (symmetry sets); the `.cfg` files give the constants |
| `MCServices` | one instance of `UpdateRegistry`, `QuotaCache`, `SettingsFile`, `CredentialUpdate` and `StoreOpen` |
| `MCWorkerJobs` | one instance of `WorkerLaunch`, `EditWorkspace`, `ProviderHealth`, `UsageTotals`, `HostExecutable` and `WorktreeBroker` |
| `SupervisorProofs` | the inductive invariant of `Supervisor` and the theorems that follow from it |
| `TrailProofs` | what a step may do to a row; theorems about final statuses, trails and cancelled jobs; `Supervisor` implements `JobLifecycle` |
| `DashboardProofs` | the invariants of `Dashboard`: locks released, `run()`'s promises beside the dashboard, and when the recovery spares the living |
| `WorkspaceProofs` | `EditWorkspace` and `WorktreeBroker` |
| `LaunchProofs` | budgets, models and the confinement arrive at the worker |
| `SharedFileProofs` | the files several programs write: `StoreOpen`, `CredentialUpdate`, `SettingsFile` |
| `ServiceProofs` | what the dashboard tells of the workers: `UpdateRegistry`, `QuotaCache`, `ProviderHealth`, `UsageTotals`, `HostExecutable` |
| `InductionFacts` | least and greatest numbers, induction and recursion over numbers, for the proofs about loops |

### State and the code

| Variable | Code |
|---|---|
| `status`, `cancelRequested` | columns `jobs.status`, `jobs.cancel_requested`; "absent" is a missing row |
| `trail` | the lifecycle rows of `job_events`, in order of insertion |
| `capacity` | the worker's concurrency in `settings.json` |
| `files` | the slot files that exist; they are created by `_wait_for_slot` and by the probe, and never removed |
| `holder` | the kernel's flock table: which process holds slot file `<worker>.<s>.lock` |
| `pc`, `cap`, `outcome`, `final`, `answer` | `run()`'s control point; the concurrency it loaded; the status it computed; the status its UPDATE will write; the status in its `RunResult` |
| `worker` | the process group: not created, alive, exited with (`ok`) or without (`error`) a usable result |
| `cpc`, `target`, `verdict` | `cancel()`'s control point, its job, what it returned |
| `dpc`, `listed`, `rows`, `testJob` | `start_test` and its probe: control point, files it will lock, rows it read, the job of the live wrapper |
| `spc`, `victim`, `helper` | `shutdown_owned_tests`: control point, the test it found, the cancel() subprocess it started |
| `row`, `expired`, `step`, `alive`, `dir`, `known`, `discard`, `sweep`, `candidates` (`EditWorkspace`) | the job's row as queued, running, terminal or deleted, and whether it is older than the retention; the supervisor's control point; the worker process; what the job directory holds; the adapter's `_job_dirs`; the control points of `discard --confirm` and of `apply_cleanup`, and the rows the latter holds |
| `stage`, `request`, `saved`, `config`, `model`, `budget`, `command`, `applied` (`WorkerLaunch`) | the control point between submission and the running CLI; the request; saved settings; the CLI's own configuration; the adapter's model; `launch_request.max_tool_calls`; the built command; the steps of `restrict_writes` done so far |
| `file`, `spc`, `override`, `merged`, `catalog` (`SettingsFile`) | `settings.json`; each saver's control point, explicit values and payload; the verified model profiles |
| `db`, `opc` (`StoreOpen`) | file, tables, `worker_version` column and version row; each opener's statement |
| `qwen`, `kpc`, `entered`, `original` (`CredentialUpdate`) | Qwen's file; the tool's control point; the class of the key typed in; the file as first read |
| `entry`, `thread`, `toStart`, `closing`, `toJoin` (`UpdateRegistry`) | `_entries`; `_threads` and whether its member runs; `queued` of each request; the control point and list of `shutdown` |
| `checking`, `refresher`, `attemptAge`, `successAge`, `windows`, `succeeded`, `failed` (`QuotaCache`) | the fields of `QuotaCache`, its two monotonic times as ages |
| `tests`, `starting`, `configured`, `clock` (`ProviderHealth`) | the rows of the tests; a launched wrapper; the cached provider snapshot; the wall clock |
| `rows` (`UsageTotals`) | the retained jobs with their stored usage |
| `machine`, `path`, `detect`, `chosen`, `prefix` (`HostExecutable`) | installations, inherited PATH, the snapshot's progress, the executable and the directory put before the probe's PATH |
| `tree`, `doing`, `call`, `answer` (`WorktreeBroker`) | the worktree, an open write, the tool call and its answer |

Variables whose comment says "history" record what happened for a property to
refer to; no action reads them.

The control points of `run()` are the places between two accesses to shared
state:

    idle -> created -> opening -> waiting -> locked -> prepared -> spawned
         -> talking -> classified -> writing -> written -> cleanup -> returned

`created` is after `create_job`; `opening` has loaded the concurrency and opens its
slot files one by one, creating those that do not exist; `waiting` polls them; `locked` holds
a slot but has not re-checked the cancellation; `prepared` builds the command;
`spawned` has a process and a still queued row; `talking` is `_communicate`;
`classified` is before `finish_job`'s SELECT, `writing` between its SELECT and
its UPDATE; `written` is before the re-read; `cleanup` is the `finally` block.
`interrupted` and `crashed` are supervisors that stopped executing.

A store method that opens with a write is one step. `finish_job` opens with a
SELECT, and with `isolation_level='DEFERRED'` Python's sqlite3 only begins a
transaction at the first write; the SELECT is therefore a step of its own
(`FinishSelect`) and the UPDATE another (`Finish`).

An exception raised in `run()` takes one of four forms, by what its handler
finds: before the row runs (`SetupFails`, `WaitFails`, `LaunchFails`: terminate,
`fail_queued`); while it runs (`InternalError`: terminate, then `finish_job` with
"failed", whose two steps are the ordinary ones); when the row is not running
any more (`LateInternalError`: `fail_queued`, which appends an event to a row it
does not change); and when the store fails in the handler too (`StoreUnavailable`:
the error is swallowed and the row stays as it is). Which faults the environment injects is the constant
`Faults`, so each run states what it assumes.

### Abstractions

- One worker kind: kinds share neither slot files nor limits, and rows of
  different kinds only meet in aggregates.
- The worker process group is one process, identified without confusion. Reuse
  of process ids and descendants that outlive the leader are not modelled.
- What the worker prints is reduced to the statuses `_classify` may compute;
  `ErrorOutcomes` lists those for an unsuccessful worker. A deadline may pass at
  any moment of `talking`.
- `cancel()` answers about the signal (`UNVERIFIED`, `ALREADY_EXITED`) are
  folded into `CANCEL_REQUESTED`: the row is treated the same in all of them.
  A member of `Cancellers` is one call of `cancel()`.
- A request that `parse_request` rejects and a `create_job` that fails leave no
  row, no lock and no process, so they are not actions.
- Rows are not deleted in `Supervisor`; retention is in `EditWorkspace`, which in turn
  keeps of a supervisor only what concerns the directory.
- The modules around the job system share no variable. What one would tell the
  other appears as a choice: settings and configurations that change at any moment
  (`WorkerLaunch`), a row that somebody settles (`EditWorkspace`), a catalog that
  changes (`SettingsFile`).
- Files, replies and configurations are reduced to what the code's checks tell
  apart, each alternative with an outcome of its own; their text is left out.
- In `UsageTotals` each request spends fixed, distinct token counts, so that a sum
  tells which fields it contains; in `HostExecutable` a version is a number below
  100 whose order by name differs from its order by value.
- A job id is submitted once.

## 3. Runs

| Run | Instance | Shows |
|---|---|---|
| `SupervisorCancel` | 2 jobs, 1 slot, 2 cancel() calls; errors, Ctrl+C, crashes; 1.47 million states | running rows are supervised, a returned `run()` has settled, answers match rows, results are never refused, trails tell the status, a cancelled queued job never starts, an accepted cancellation stops the worker, terminal statuses are final, and the whole implements `JobLifecycle` |
| `SupervisorSlots` | 2 jobs, 1 cancel() call, the capacity changing between 1 and 2; unwritable store, crashes; 1.3 million states | types; a live worker holds a slot; slots are held only by executing supervisors |
| `SupervisorLiveness` | 2 jobs, 1 slot, 1 cancel() call, errors, fairness | every submitted job settles and is answered; every cancel() of an active job returns and the job settles |
| `DashboardRecovery` | 2 jobs, 2 slots, stable capacity, crashes, fairness | recovery retires only rows of dead supervisors and never changes a terminal row; a stranded row is retired unless a dead supervisor's queued row or surviving worker keeps the provider busy or the dashboard stops |
| `DashboardCapacity` | 1 job, 1 cancel() call, capacity changing between 1 and 2, errors, shutdown; 101 thousand states | a probe gives all its locks back; a live supervisor whose row was retired under it still settles and frees everything |
| `Services` | five modules of `MCServices`: one check at a time, two handlers; two savers, two fields; a credential update next to two edits; three openers; 108 thousand states | version checks are bounded, settle and end with the shutdown; quota shown as available is fresh and can always be refreshed; settings are never torn and never made up; the credential tool keeps earlier edits and fits the key to its endpoint; a store that opens is migrated |
| `WorkerJobs` | six modules of `MCWorkerJobs`: one launch of every kind of request, two edit jobs, two tests, three rows, three Node versions, trees of two levels; 2.3 million states | the budget, the verified model and the confinement reach the worker; worktrees of jobs that ran keep their rows, edits vanish only by discard, request texts are removed; READY means a fresh, healthy test; totals are complete or unknown; only genuine executables are chosen; the broker stays in its worktree |
| `AcceptedCancelLost`, `InterruptLeavesWorker`, `RecoveryRacesSupervisor`, `ShutdownMissesTest` | 1 job | four statements of the documentation the code does not keep, section 4 |
| `SettingsLostUpdate` | the constants of `Services` | one more: the lost update of `save_settings` |

**Bounds.** Two jobs on one slot is the smallest system in which one job waits
for another, a slot is handed over and a cancellation meets a job in any of its
phases; the second canceller adds the races between two cancel() calls. Two
slots with a changing capacity put a supervisor that loaded the larger capacity
next to one that loaded the smaller. One job is enough for a probe to meet a
supervisor that locked a slot file the probe does not know (`DashboardCapacity`);
a recovery that goes on to launch a test needs the second (`DashboardRecovery`).
Processes interact pairwise (a row has one supervisor, a slot one holder) and hold no counters, so
more jobs repeat these situations; the theorems of section 6 remove the bound
for the properties they cover. `MaxSlots` is `MAX_CONCURRENCY`, 4 in the code.
`ErrorOutcomes` has one member in the runs because no action distinguishes them.
The state spaces of `Supervisor` and `Dashboard` are finite without constraints:
every process runs once.

`MCServices` and `MCWorkerJobs` each check several modules in one run. Their
modules have no variable in common, so the behaviours of the whole are exactly the
interleavings of the behaviours of the parts, and every property reads the
variables of one part only. It is therefore enough that one part moves: the
variable `part` picks it and the others stay in one of their initial states. The
bounds of the parts:

- `MaxChecks = 1` with two workers and two handlers, so that a check is deferred and
  a registered thread competes with a running one; the dashboard's registry allows
  one check per worker, a smaller bound is the constructor's `max_checks`.
- The ages of `QuotaCache` saturate where the code stops distinguishing them, so
  time is unbounded; two ticks of cooldown and four of freshness let a refresh
  begin and fail while older data is still young.
- Two savers with overlapping overrides (one of them partly invalid) and a user who
  breaks the file: the proofs remove this bound.
- `MaxEdits = 2`: an edit before and one after the comparison. Three openers: one
  may die in the middle, one migrate, one arrive late.
- Two edit jobs for the cleanup to treat differently, whose rows may expire at any
  time (nothing limits the wait for a slot); each supervisor, discard and
  the cleanup are interleaved without bound (a discard can be repeated).
- `Limit = 1` keeps the explicit budgets 0 and 1, unlimited, omitted and two illegal
  ones.
- `MaxTests = 2` and `MaxClock = 3` with a freshness of 1: two overlapping tests that
  end in either order and become stale; the clock may be set back at any time.
- `RowLimit = 2` with `MaxRows = 3`: one row falls out of the totals. Kimi sessions
  have at most two requests, each lacking at most one field: enough for a missing
  counter before and after a present one.
- Versions 9, 10 and 18 and paths with installations in either order, foreign
  entries, or none.
- One plain and one sensitive name, on two levels, with every kind of entry: links
  on the way and at the end, files that match once, twice, or cannot be read.

**Symmetry** permutes jobs and cancellers in the safety runs of `Supervisor`, and
the edit jobs in `WorkerJobs`, which has no liveness property.
**Deadlock** is checked in all runs of `Supervisor` and `Dashboard`: `SetCapacity` models a user who can always
save the settings, so what the check shows is only that no state is without
successors; that jobs do not wait for each other for ever is
`SupervisorLiveness`. It is not checked in `Services`, `SettingsLostUpdate` and
`WorkerJobs` (`CHECK_DEADLOCK FALSE`), whose parts really come to an end: a saver or an
opener returns, a launch ends, a shutdown is over.

**Fairness.** `WF(RunStep(j))`: a started `run()` keeps executing, because it
never blocks for good: `_wait_for_slot` polls every 100 ms, `_communicate` polls
with a deadline, `_terminate` escalates to SIGKILL. `WF(CancelStep(c))`: `cancel()` is a
bounded sequence of queries and signals. Nothing is assumed of users, settings
or the worker, which may hang for ever: the deadline settles its job. With two
jobs weak fairness is enough for a waiting supervisor: nobody else is left to
take a slot again and again. `DashFairSpec` assumes more, because repeated
probes do take the slots again and again: `SF(RunStep(j))` says that a
supervisor polling every 100 ms does not miss every gap between probes that last
milliseconds; `WF(ProbeStep)` is a user who keeps asking for tests, which the
recovery needs since nothing else triggers it; `WF(TestTimesOut)` is the
collector's 150 seconds; `WF(ShutdownStep)` says that a shutdown, all of whose waits
have timeouts, goes on. In `MCServices` a handler thread that holds unstarted
threads starts them (or the system refuses), a check or refresh that runs ends,
because every connection has a timeout and every reply a byte limit, and time
passes. Nobody is assumed to ask for a check or a refresh: `RefreshPossibleAgain`
only says that it could begin.

**Seeded faults.** Operators whose comment begins with "Seeded fault" are not part
of any specification. Each replaces the operator after it by a plausible mistake
(a dropped condition, a forgotten release, a skipped re-read), and `PROJECT.json`
pairs it with the property that then fails: each property can detect a mistake in
the code it is about.

## 4. Findings

1. *An accepted cancellation can be lost* (`AcceptedCancelLost`). `finish_job`
   reads the cancel flag outside the transaction of its UPDATE
   (`ai_router/state.py:141`). A `request_cancel` between the two has been
   answered CANCEL_REQUESTED, yet the row ends with the status `run()` had computed
   ("completed", or "timed_out" as in the shortest trace) instead of "cancelled".
2. *Ctrl+C leaves the worker running* (`InterruptLeavesWorker`).
   `KeyboardInterrupt` is not an `Exception`: only the `finally` block runs, it
   frees the slot, and the worker in its own session goes on without one.
   `IMPLEMENTATION_SPEC.md:5243-5247` says it is terminated.
3. *Recovery can retire the row of a live supervisor*. The probe lists the slot
   files once (`dashboard/server.py:391-394`): the indices below the present setting,
   and the files that exist. There are two ways for a supervisor to lock one it does
   not know.
   - *The setting is raised* (`RecoveryRacesSupervisor`): a supervisor that loads
     the larger capacity after the listing creates and locks a further file.
   - *The setting was lowered* (the same run with `MCDashboard`'s `LoweringSpec` as its
     SPECIFICATION): a supervisor that loaded
     the larger capacity before has not created its further file yet
     (`ai_router/supervisor.py:394-395`) when the probe lists only what the smaller
     one needs. No setting is raised at any time.

   When the worker has exited and the result is being saved, the probe marks the row
   failed. The supervisor's `finish_job` is then refused (the run answers "failed" and
   the result is gone), or, past its SELECT, overwrites the terminal status.
   `RecoverySparesTheLiving` and `TerminalSurvivesRecovery` prove that neither happens
   if the setting is not raised between the listing and the end of the probe, and not
   lowered below what a supervisor that is still creating its files has loaded.
   In every case locks and worker are released and the
   returned job is settled (run `DashboardCapacity`, `ReturnsSettledBesideDashboard`).
4. *A test that is still starting survives the dashboard's shutdown*
   (`ShutdownMissesTest`). `shutdown_owned_tests` cancels by row
   (`dashboard/server.py:511`); before the wrapper has created the row there is
   nothing to cancel, and the SIGTERM five seconds later reaches the wrapper only,
   not the worker it may have started by then. `docs/security.md:34` says such
   tests are cancelled.
5. *Concurrent settings changes can be lost* (`SettingsLostUpdate`).
   `save_settings` reads, merges and renames without a lock
   (`ai_router/settings.py:337`). The dashboard's POST handler and
   `ai-worker settings set` are different processes: the one that loaded first and
   renames last resets the field the other has just saved, and both report
   success. The docstring (`ai_router/settings.py:316-317`) says every field without
   an explicit value is preserved. What does hold, and is proved, is that the file
   is never torn and contains only values somebody asked for.

## 5. Statements worth knowing about the model

- `JobLifecycle` allows an answer "failed" for a job that ended differently. An
  exception after the commit (`LateInternalError`) reports "failed" although the
  row says "completed", and the handlers report "failed" for a row that a
  cancellation has meanwhile made "cancelled".
- `fail_queued` appends its "failed" event even when its UPDATE matches nothing, so
  a trail may have events after the terminal one. `FirstTerminalEventIsStatus` is
  the strongest agreement between trail and row that the code keeps.
- A job cancelled while queued can have a worker process for a moment. `run()`
  creates the process before `start_job` (`ai_router/supervisor.py:245`), so that a
  cancel() between the slot's grant and `start_job` answers CANCELLED with a worker
  alive, which `run()` then terminates; `README.md:187` says "without ever starting a
  worker". What does hold, and is proved, is that the row never becomes running.
- With an unwritable store `run()` answers "failed" and leaves the row queued or
  running; `SettledOnReturn` and `RunningIsSupervised` therefore say
  `"store" \notin Faults`. The slot properties need no such condition.
- A check whose thread the system refuses to start stays "checking" for ever, and
  with it those queued behind it (`ai_router/updates.py:345`); `CheckSettles` excepts
  it by name (`Abandoned`). A shutdown that finds such a thread, or one registered a
  moment ago, raises instead of waiting for the others; `NoCheckOutlivesShutdown`
  speaks of a shutdown that returns.
- A process killed between the two statements of the schema migration leaves a
  database no later process can open: the column exists already and ALTER TABLE
  raises each time. `OpenedMeansMigrated` says what is kept: nobody gets a store
  that is not migrated.
- The code drops the errors of three removals: git raising while a failed preparation
  is rolled back skips `rmtree`, `rmtree` itself ignores errors
  (`workers/workspace.py:88`), and `cleanup` ignores an unlink that fails
  (`workers/workspace.py:208-211`). In each the supervisor returns and a copy of the
  request may stay. `RequestTextRemoved` excepts exactly these (`removalFailed`, set by
  `RollBackFails` and `CleanUpFails`); on every other path, failures and Ctrl+C included, the text
  is gone.
- The cleanup can orphan a worktree. It selects
  rows by status and age (`ai_router/state.py:239`), looks at the directories, then
  deletes by status alone (`ai_router/retention.py:60`). A job that has waited for its
  slot longer than the retention and is cancelled after the last look at its flag is
  terminal and expired while its supervisor has still to create the directory. The
  cleanup finds none, the supervisor makes the worktree, and the row goes: `diff` and
  `discard` no longer find the job, although `README.md:62` calls retained worktrees
  protected. It takes a wait of 30 days, or a clock set forward. TLC shows it in 8 states
  when `RowOutlivesWorktree` is checked instead of `StartedWorktreeKeepsRow`, which
  says what does hold and is proved: a job that was started keeps its row as long as
  its worktree exists.
- An edit of Qwen's settings in the moment between the tool's comparison and its
  rename is lost; the tool offers no protection there and the property claims none.
- After the clock was set back the latest test by timestamp may not be the one
  started last; `ReadyMeansHealthyTest` then only says it was a healthy one.

## 6. Proofs

Every invariant and every safety action property of the passing runs is also a
theorem, for every value of the constants that the named assumptions of its module
allow. TLC evaluates these assumptions in every run.

### Supervisors

The theorems of `SupervisorProofs` and `TrailProofs` are about `Supervisor` and hold
for every finite or infinite set of
jobs and cancellers and every capacity; all but the refinement hold for every set
of faults. They rest on the
assumptions of the module: `SlotsAssumption` (at least one slot, capacities
within range), `OutcomesAssumption` (what `_classify` may return),
`FaultsAssumption`, and `HoldersAssumption` (the two marks of the flock table are
not job ids).

*Inductive invariant* (`SupervisorProofs`). None of the properties is inductive
by itself. `IInv` has two halves. `BaseInv` does not depend on who else settles
rows, so that the dashboard's proofs can use it too:

- `TypeOK`;
- `SlotInv`: slots are held exactly from the flock to the `finally` block, below
  the loaded capacity, in files that exist;
- `WorkerInv`: a live worker has a supervisor that will terminate or await it, or a dead one;
- `RowInv`: for every control point of `run()`, what the row can say there: up to the
  launch it is queued or somebody cancelled it, from `start_job` on it is running or
  terminal, once the result is written it is terminal unless the store failed;
- `OutcomeInv`: what has been computed for `finish_job` is a terminal status;
- `CancelInv`: a canceller past its first read has a job.

The other half is true as long as no recovery retires rows:

- `OwnInv`: between `start_job` and `finish_job` the row is running, whatever
  cancellers do. It is the heart of the argument;
- `AnswerInv`: what will be answered at each point.

`LaunchPreserves`, `CollectPreserves`, `FaultsPreserve` and `CancelPreserves`
treat one group of actions each for `BaseInv`, `RunKeepsOwn`, `MishapsKeepOwn` and
`CancelKeepsOwn` for the other half; `NextInv` combines them, and
`TypeCorrect`, `WorkersHoldSlots`, `NoSlotLeaks`, `RunningRowsAreSupervised`,
`ReturnsSettled`, `ResultsAreNeverRefused` and `AnswersMatchRows` follow. The
last but one is why `FinishRefused` is not a step of `Supervisor`: it takes the
dashboard's recovery to make it possible, so `Dashboard` has it.

*Trails* (`TrailProofs`). `StoreStep` lists the only ways a row can change once
`IInv` holds; in particular `finish_job`'s unconditional UPDATE only ever hits a
running row, because its supervisor is the only one that can end it.
`TerminalStatusesAreFinal` is immediate from there, `TrailsTellTheStatus` and
`CancelledJobsNeverStart` follow from two further invariants on trails
(`TrailInv`, `VerdictInv`), with one lemma per kind of event.
`CancelRequestsStopWorkers` rests on `StopInv`: a cancel() about to signal has seen
the row running, `run()` only moves forward from there, and only `Spawn` brings a
worker to life.

*Refinement* (`TrailProofs`). `SupervisorImplementsLifecycle`: every step maps
to a step of `JobLifecycle` or a stutter, with the status as the phase and the answer visible
once `run()` has returned. It assumes that the store can be written: without
that, an answer may precede the row's settlement.

### Dashboard

The assumptions are those of `Supervisor`, and every set of faults is allowed except
where said.

*Probes let go.* `SupervisorsMoveHolders` says all that the probe's
safety needs to know of the supervisors: they never lock a slot file for the
probe. With it, `DashInv` (types, and no lock of the probe outside its own critical
section) is inductive, and `DashTypeCorrect` and `ProbesLetGo` follow.

*Beside the dashboard.* `SettledInv` joins `BaseInv` and `DashInv`, and adds that a
shutdown past its first step has a victim. It survives everything the dashboard
does, `FinishRefused` and wrappers killed at any point included, under any change of
the concurrency. `ReturnsSettledBesideDashboard` and
`WorkersHoldSlotsBesideDashboard` are what of the supervisor's theorems is left when
the recovery may make the mistake of finding 3.

*Recovery.* `ProbeInv` says that from the listing on the probe knows every file a
supervisor can lock, and that it holds them all before it retires a row. With
`SlotInv` nobody is then between `start_job` and `finish_job` (`NobodyRuns`), so a
retired row belongs to no living supervisor, `OwnInv` and `AnswerInv` survive, and
`finish_job`'s UPDATE cannot meet a retired row. `ProbeInv` is not inductive if the
concurrency is raised while the probe locks or retires, or lowered while a supervisor
that loaded more is between the setting and its last slot file: these are the two
routes of finding 3. The hypothesis of `RecoverySparesTheLiving` and
`TerminalSurvivesRecovery` excludes
exactly these steps (`CapacityKept` for each step of the behaviour): otherwise the
setting may be lowered at any time, also under supervisors that wait or run, because
the probe also lists the files that exist (`SlotInv`: a supervisor past `opening` has
all of its own; `OpeningInv`: one before that needs none beyond the setting), and raised whenever no probe is past its
listing. `StableCapacity` shows that it holds for a user who keeps to one concurrency, the
instance of run `DashboardRecovery`. `RecoverySparesTheLiving` also assumes a writable store: without
one a `run()` may return and leave its row running, and the recovery retires that
row while its supervisor process may still be closing down.

### Launch, workspace and broker

*Launch* (`LaunchProofs`, under `LaunchAssumption`: limits are numbers). `BudgetInv` follows the budget
through the stages; its key is that no legal preset is the mark of an omitted
budget. `ModelInv` says that what can be verified now has been seen since the slot
was taken. `ConfinedInv` follows an edit from the preparation's Landlock check over
the roots in its command to the wrapper's last step: `EditsRunConfined`, whichever step
of the confinement fails.

*Workspace* (`WorkspaceProofs`, for every set of jobs, without assumptions).
A row may expire at any time, so `RowOutlivesWorktree` is false (section 5).
`StartedWorktreeKeepsRow` is what holds; it needs `StartedInv` (`start_job` finds a queued
row, and settled rows never become queued again, so a candidate of the cleanup that has
not been started never will be) and `SweepInv` (a candidate that was started and was seen
without a worktree gets no other one, because its supervisor is past the preparation); this is where the
order of the cleanup's reads matters. `EditsVanishOnlyByDiscard` needs `PreparationInv` (nothing
is edited before the worker starts, so a roll-back deletes no edits) and `DiscardInv`.
`RequestTextRemoved` needs `RequestInv`: the adapter knows every directory with a copy
of the request, except where a removal failed.

*Broker* (`WorkspaceProofs`, for every set of names and trees; `BrokerAssumption`: no
name is both plain and sensitive, a matter of `SENSITIVE_PARTS`, and a tree gives
every path one entry). `BrokerInv` is about the time between the broker's open and its
write: the file is there, empty, and no link lies on the way to it. `BrokerStaysInside`
treats each tool call.

### Shared files

All in `SharedFileProofs`, for every set of processes.

*Store* (without assumptions). `OpenInv`: only schema 1
lacks the column, and what an opener found out stays true whatever the others do
or wherever they die.

*Credential.* `ComparedInv` (without assumptions): until the next edit, what was
compared is what is in the file. `KeyInv`: what is replaced is the approved edit of
the configuration as first read, so that `KeysFitEndpoints` only depends on what the
tool approves. `CredentialAssumption` says what kind of value each field of the
model's configurations has; a configuration may have any number of provider entries.

*Settings* (under `SettingsAssumption`: the defaults are legal, and overrides name known
fields). A value is `Founded` if it is legal and the default or the
explicit value of a saver that is past its rename; `MergedInv` says that what a
saver is going to write is founded or its own, which survives every other saver's
step because founded values are never withdrawn.

### Services

All in `ServiceProofs`.

*Loops.* The prover has no induction scheme with an operator as a parameter.
`InductionFacts` states induction with a set instead of a predicate (`SetInduction`)
and derives it from the least number of a set; `RecursionExists` builds a function from
one argument to the next. The models write the loops of the code as recursive
functions, for which these facts are enough.

*Registry* (`RegistryAssumption`: a bound of at least 1, selections without
repetitions, as the pages offer them). `CheckersBounded` counts running threads, the
code's own guard counts registered ones; `BoundInv` is the latter. Its step for
`request_check` (`WhatIsQueued`) is an induction over the selection. `StartInv` says that
what a handler is about to start was registered by it and waits nowhere else, and
`ShutdownInv` that what is registered while a shutdown joins is on its list.

*Quota.* `QuotaInv`: windows without a failure since are those of the last refresh.
No bound on the ages is needed beyond the saturation the model has.

*Badge.* `HealthInv`: a "completed" row has a healthy outcome, and stamps follow the
order of starts until the clock is set back; for any number of tests.

*Totals* (`UsageAssumption`: a session is a sequence of records, each a set of
fields). For any number of jobs, requests and fields: `SumsInProportion` is an
induction over two running sums, `KimiSum` and `QwenFits` apply it to what an adapter
stores, `TotalIsComplete` to the totals of the history. A token stands for one field of one
request, so that a total which misses one differs from the full count.

*Host agents* (`HostAssumption`: versions below 100, because the model writes a
version's directory and foreign directories as numbers). `HighestIsHighest` and
`OfferingIsFirst` are about the two ways an executable is chosen, `HostStep` combines
them with the PATH the probe is given.

### Only model-checked

Liveness, because the prover handles neither `ENABLED` nor fairness:
`EveryJobSettles`, `CancelReturnsAndSettles`, `StrandedRunIsRetiredOrBlocked`,
`CheckSettles`, `RefreshPossibleAgain`. And of course the runs that expect a violation.

## 7. Not modelled, and the plan

Not modelled, and why:

- Process identities: reuse of a process id between verification and signal
  (`ai_router/supervisor.py:175`), and descendants that outlive the group's leader
  (`ai_router/supervisor.py:469`). Both depend on the kernel's process table.
- HTTP routing, token and origin checks, and the pages: each request is answered
  from the state of the components above.
- Redaction, paths, identifiers and sizes in `request.py` and `security.py`, the JSON
  scanner of the credential tool, the parsing of events other than usage: text
  processing, sequential and without state.
- The environment and the private session home of a worker; what Landlock enforces
  once it is active.
- The `provider_status` table, which no code uses, and the read-only list queries of
  the store.

Order of work:

1. `JobStore`, `Supervisor`, `JobLifecycle`, `Dashboard`, and the proofs about
   `Supervisor`: done.
2. `EditWorkspace`, `SettingsFile`, `StoreOpen`, `CredentialUpdate`, `WorkerLaunch`, and the
   proofs about them: done.
3. `UpdateRegistry`, `QuotaCache`, `ProviderHealth`, `UsageTotals`, `HostExecutable`,
   `WorktreeBroker`: done.
4. Theorems for every invariant and safety action property of the runs, the recovery
   under the sharp condition of section 6 included: done.
5. Next: a `ProcessGroup` module for process identities (the two lines above), and an abstract
   specification of the recovery that `Dashboard` implements under that condition.
