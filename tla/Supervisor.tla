----------------------------- MODULE Supervisor -----------------------------
(***************************************************************************)
(* ai_router/supervisor.py for the jobs of one worker: every job has a     *)
(* supervisor process executing Supervisor.run(), every canceller is one   *)
(* execution of Supervisor.cancel().  They share the job store, the flock  *)
(* slot files <worker>.<index>.lock and the worker processes.              *)
(*                                                                         *)
(* A process takes one action per interaction with that shared state.      *)
(* What the worker prints is abstracted to whether it exits with a usable  *)
(* result ("ok") or not ("error").                                         *)
(***************************************************************************)
EXTENDS JobStore

CONSTANTS
  Cancellers,     \* executions of cancel()
  MaxSlots,       \* largest configurable concurrency (MAX_CONCURRENCY)
  Capacities,     \* the concurrencies the user sets during the behaviour
  ErrorOutcomes,  \* statuses _classify may give a worker that did not succeed
  Faults          \* which faults the environment may inject, see Interrupt,
                  \* Crash, InternalError, WaitFails and StoreUnavailable

ASSUME SlotsAssumption ==
  /\ MaxSlots \in Nat \ {0}
  /\ Capacities \subseteq 1 .. MaxSlots
  /\ Capacities # {}

ASSUME OutcomesAssumption ==
  /\ ErrorOutcomes # {}
  /\ ErrorOutcomes \subseteq {"failed", "auth_error", "rate_limited", "invalid_output"}

ASSUME FaultsAssumption ==
  Faults \subseteq {"interrupt", "crash", "error", "store"}

Slots == 0 .. MaxSlots - 1

None == "none"

\* the dashboard flocks slot files too, see module Dashboard
Prober == "dashboard"

ASSUME HoldersAssumption == Jobs \cap {None, Prober} = {}

VARIABLES
  capacity,   \* settings.json: the worker's concurrency
  files,      \* the slot files that exist; nobody removes one
  holder,     \* kernel flock table: which supervisor holds a slot file
  pc,         \* control point of run()
  cap,        \* run(): the capacity this supervisor loaded, 0 before that
  worker,     \* the worker process group
  outcome,    \* run(): the status it computed for the job
  final,      \* finish_job: the status its UPDATE will write
  answer,     \* run(): status of the RunResult it returns
  cpc,        \* control point of cancel()
  target,     \* cancel(): its job
  verdict     \* cancel(): what it returned

runVars    == <<pc, cap, outcome, final, answer>>
cancelVars == <<cpc, target, verdict>>
vars == <<storeVars, capacity, files, holder, runVars, worker, cancelVars>>

\* Control points of run().  A supervisor that is Gone executes nothing more.
Gone == {"returned", "interrupted", "crashed"}

HoldingSlot == {"locked", "prepared", "spawned", "talking", "classified",
                "writing", "written"}

Points == {"idle", "created", "opening", "waiting", "cleanup"} \cup HoldingSlot \cup Gone

Verdicts == {None, "NOT_FOUND", "NOT_RUNNING", "CANCELLED", "CANCEL_REQUESTED"}

TypeOK ==
  /\ StoreTypeOK
  /\ capacity \in Capacities
  /\ files \subseteq Slots
  /\ holder \in [Slots -> Jobs \cup {None, Prober}]
  /\ pc \in [Jobs -> Points]
  /\ cap \in [Jobs -> Capacities \cup {0}]
  /\ worker \in [Jobs -> {None, "alive", "ok", "error"}]
  /\ outcome \in [Jobs -> Terminal \cup {None}]
  /\ final \in [Jobs -> Terminal \cup {None}]
  /\ answer \in [Jobs -> Terminal \cup {None, "raised"}]
  /\ cpc \in [Cancellers -> {"idle", "queued", "reread", "running", "kill", "done"}]
  /\ target \in [Cancellers -> Jobs \cup {None}]
  /\ verdict \in [Cancellers -> Verdicts]

Init ==
  /\ StoreInit
  /\ capacity \in Capacities
  /\ files = {}
  /\ holder = [s \in Slots |-> None]
  /\ pc = [j \in Jobs |-> "idle"]
  /\ cap = [j \in Jobs |-> 0]
  /\ worker = [j \in Jobs |-> None]
  /\ outcome = [j \in Jobs |-> None]
  /\ final = [j \in Jobs |-> None]
  /\ answer = [j \in Jobs |-> None]
  /\ cpc = [c \in Cancellers |-> "idle"]
  /\ target = [c \in Cancellers |-> None]
  /\ verdict = [c \in Cancellers |-> None]

-----------------------------------------------------------------------------
(* Small pieces of run() *)

Goto(j, from, to) ==
  /\ pc[j] = from
  /\ pc' = [pc EXCEPT ![j] = to]

\* run() will return a RunResult (or raise) with this status
Answer(j, a) == answer' = [answer EXCEPT ![j] = a]

\* Seeded fault: _terminate gives up when the group survives SIGTERM
TerminateGently(j) == j \in Jobs /\ UNCHANGED worker

\* _terminate: SIGTERM, grace, SIGKILL, reap; only returns once the group is gone
Terminate(j) ==
  worker' = [worker EXCEPT ![j] = IF @ = "alive" THEN "error" ELSE @]

\* lock_file.close(), or the kernel closing the descriptors of a dead process
Unlock(j) == holder' = [s \in Slots |-> IF holder[s] = j THEN None ELSE holder[s]]

-----------------------------------------------------------------------------
(* run(), up to the worker's launch *)

Submit(j) ==
  /\ Goto(j, "idle", "created")
  /\ CreateJob(j)
  /\ UNCHANGED <<capacity, files, holder, cap, outcome, final, answer, worker, cancelVars>>

\* the saved model profile does not verify: fail before entering the try block
SelectionFails(j) ==
  /\ Goto(j, "created", "returned")
  /\ FailQueued(j)
  /\ Answer(j, "failed")
  /\ UNCHANGED <<capacity, files, holder, cap, outcome, final, worker, cancelVars>>

\* Seeded fault: one slot file too many, range(capacity + 1)
LoadCapacityOffByOne(j) ==
  /\ Goto(j, "created", "opening")
  /\ cap' = [cap EXCEPT ![j] = capacity + 1]
  /\ UNCHANGED <<storeVars, capacity, files, holder, outcome, final, answer, worker, cancelVars>>

\* load_worker_concurrency: later changes of the setting do not matter to this job
LoadCapacity(j) ==
  /\ Goto(j, "created", "opening")
  /\ cap' = [cap EXCEPT ![j] = capacity]
  /\ UNCHANGED <<storeVars, capacity, files, holder, outcome, final, answer, worker, cancelVars>>

\* _wait_for_slot opens its files one after the other; opening one that exists
\* changes nothing, so the next one to create or the last one is opened
OpenSlot(j, s) ==
  /\ s < cap[j]
  /\ \A r \in 0 .. s - 1 : r \in files
  /\ s \in files => s = cap[j] - 1
  /\ Goto(j, "opening", IF s = cap[j] - 1 THEN "waiting" ELSE "opening")
  /\ files' = files \cup {s}
  /\ UNCHANGED <<storeVars, capacity, holder, cap, outcome, final, answer, worker, cancelVars>>

\* WorkerSetupError or any other exception before the launch: settings or slot
\* file unsafe, prepare_request or a build_* call failed
SetupFails(j) ==
  /\ pc[j] \in {"created", "opening", "prepared"}
  /\ Goto(j, pc[j], "cleanup")
  /\ FailQueued(j)
  /\ Answer(j, "failed")
  /\ UNCHANGED <<capacity, files, holder, cap, outcome, final, worker, cancelVars>>

\* _wait_for_slot: flock of one of the slot files opened for this capacity
TakeSlot(j, s) ==
  /\ s < cap[j]
  /\ holder[s] = None
  /\ Goto(j, "waiting", "locked")
  /\ holder' = [holder EXCEPT ![s] = j]
  /\ UNCHANGED <<storeVars, capacity, files, cap, outcome, final, answer, worker, cancelVars>>

\* Seeded fault: _wait_for_slot gives up without having seen a cancellation
GiveUpWaiting(j) ==
  /\ pc[j] \in {"waiting", "locked"}
  /\ Goto(j, pc[j], "cleanup")
  /\ Answer(j, "cancelled")
  /\ Unlock(j)
  /\ UNCHANGED <<storeVars, capacity, files, cap, outcome, final, worker, cancelVars>>

\* _wait_for_slot returns None: the cancellation was seen while polling, or
\* right after the flock, in which case closing the descriptor frees the slot
CancelSeenQueued(j) ==
  /\ pc[j] \in {"waiting", "locked"}
  /\ cancelRequested[j]
  /\ Goto(j, pc[j], "cleanup")
  /\ Answer(j, "cancelled")
  /\ Unlock(j)
  /\ UNCHANGED <<storeVars, capacity, files, cap, outcome, final, worker, cancelVars>>

\* flock or is_cancel_requested raises while polling: the descriptors are
\* closed, then the exception handler calls fail_queued, if the store lets it
WaitFails(j) ==
  /\ pc[j] \in {"waiting", "locked"}
  /\ Goto(j, pc[j], "cleanup")
  /\ Unlock(j)
  /\ \/ "error" \in Faults /\ FailQueued(j)
     \/ "store" \in Faults /\ UNCHANGED storeVars
  /\ Answer(j, "failed")
  /\ UNCHANGED <<capacity, files, cap, outcome, final, worker, cancelVars>>

SlotGranted(j) ==
  /\ ~cancelRequested[j]
  /\ Goto(j, "locked", "prepared")
  /\ UNCHANGED <<storeVars, capacity, files, holder, cap, outcome, final, answer, worker,
                 cancelVars>>

Spawn(j) ==
  /\ Goto(j, "prepared", "spawned")
  /\ worker' = [worker EXCEPT ![j] = "alive"]
  /\ UNCHANGED <<storeVars, capacity, files, holder, cap, outcome, final, answer, cancelVars>>

\* the new process cannot be verified in /proc, or start_job raises something
\* else than its RuntimeError: the exception handler fails the queued row
LaunchFails(j) ==
  /\ Goto(j, "spawned", "cleanup")
  /\ Terminate(j)
  /\ FailQueued(j)
  /\ Answer(j, "failed")
  /\ UNCHANGED <<capacity, files, holder, cap, outcome, final, cancelVars>>

StartRunning(j) ==
  /\ Goto(j, "spawned", "talking")
  /\ StartJob(j)
  /\ UNCHANGED <<capacity, files, holder, cap, outcome, final, answer, worker, cancelVars>>

\* Seeded fault: start_job raised and the new process is left running
StartRefusedLeavesWorker(j) ==
  /\ status[j] # "queued"
  /\ cancelRequested[j]
  /\ Goto(j, "spawned", "cleanup")
  /\ Answer(j, "cancelled")
  /\ UNCHANGED <<storeVars, capacity, files, holder, cap, outcome, final, worker, cancelVars>>

\* start_job raised: the row was cancelled after the slot was granted
StartRefused(j) ==
  /\ status[j] # "queued"
  /\ cancelRequested[j]
  /\ Goto(j, "spawned", "cleanup")
  /\ Terminate(j)
  /\ Answer(j, "cancelled")
  /\ UNCHANGED <<storeVars, capacity, files, holder, cap, outcome, final, cancelVars>>

-----------------------------------------------------------------------------
(* run(), from _communicate to the returned result *)

\* the worker exits by itself, with or without a usable result
WorkerExits(j) ==
  /\ worker[j] = "alive"
  /\ \E how \in {"ok", "error"} : worker' = [worker EXCEPT ![j] = how]
  /\ UNCHANGED <<storeVars, capacity, files, holder, runVars, cancelVars>>

\* _communicate leaves its loop early, terminates the worker, and _classify
\* turns the flag it set into a status
StopEarly(j, why) ==
  /\ Goto(j, "talking", "classified")
  /\ Terminate(j)
  /\ outcome' = [outcome EXCEPT ![j] = why]
  /\ UNCHANGED <<storeVars, capacity, files, holder, cap, final, answer, cancelVars>>

SeeCancel(j) == cancelRequested[j] /\ StopEarly(j, "cancelled")
TimeOut(j)   == StopEarly(j, "timed_out")
Oversize(j)  == StopEarly(j, "failed")

\* _communicate saw the exit and both pipes at end of file; _classify
ReadToEnd(j) ==
  /\ worker[j] \in {"ok", "error"}
  /\ Goto(j, "talking", "classified")
  /\ \E o \in ErrorOutcomes \cup {"completed"} :
       /\ o = "completed" => worker[j] = "ok"
       /\ outcome' = [outcome EXCEPT ![j] = o]
  /\ UNCHANGED <<storeVars, capacity, files, holder, cap, final, answer, worker, cancelVars>>

\* finish_job's SELECT finds the row active
FinishSelect(j) ==
  /\ Finishable(j)
  /\ Goto(j, "classified", "writing")
  /\ final' = [final EXCEPT ![j] = FinalStatus(j, outcome[j])]
  /\ UNCHANGED <<storeVars, capacity, files, holder, cap, outcome, answer, worker, cancelVars>>

\* finish_job's UPDATE commits
Finish(j) ==
  /\ Goto(j, "writing", "written")
  /\ FinishUpdate(j, final[j])
  /\ UNCHANGED <<capacity, files, holder, cap, outcome, final, answer, worker, cancelVars>>

\* Seeded fault: a refused finish_job returns past the finally block
FinishRefusedReturns(j) ==
  /\ ~Finishable(j)
  /\ Goto(j, "classified", "returned")
  /\ Answer(j, "failed")
  /\ FailQueued(j)
  /\ UNCHANGED <<capacity, files, holder, cap, outcome, final, worker, cancelVars>>

\* finish_job's SELECT finds the row retired by somebody else and raises: the
\* first time the exception handler calls fail_queued and answers "failed", in
\* the handler itself the RuntimeError leaves run().  Supervisors and cancellers
\* alone never get here (ResultNeverRefused): it is a step of module Dashboard.
FinishRefused(j) ==
  /\ ~Finishable(j)
  /\ Goto(j, "classified", "cleanup")
  /\ \/ answer[j] = None /\ FailQueued(j) /\ Answer(j, "failed")
     \/ answer[j] # None /\ UNCHANGED storeVars /\ Answer(j, "raised")
  /\ UNCHANGED <<capacity, files, holder, cap, outcome, final, worker, cancelVars>>

\* Seeded fault: the computed status is returned without reading the row again
RereadSkipped(j) ==
  /\ Goto(j, "written", "cleanup")
  /\ Answer(j, IF answer[j] = None THEN outcome[j] ELSE answer[j])
  /\ UNCHANGED <<storeVars, capacity, files, holder, cap, outcome, final, worker, cancelVars>>

\* the persisted status replaces the one run() computed; in the exception
\* handler the answer is already fixed
Reread(j) ==
  /\ Goto(j, "written", "cleanup")
  /\ Answer(j, IF answer[j] = None THEN status[j] ELSE answer[j])
  /\ UNCHANGED <<storeVars, capacity, files, holder, cap, outcome, final, worker, cancelVars>>

\* Seeded fault: the finally block forgets the slot
CleanUpKeepsSlot(j) ==
  /\ Goto(j, "cleanup", "returned")
  /\ UNCHANGED <<storeVars, capacity, files, holder, cap, outcome, final, answer, worker,
                 cancelVars>>

\* finally: adapter.cleanup and lock_file.close
CleanUp(j) ==
  /\ Goto(j, "cleanup", "returned")
  /\ Unlock(j)
  /\ UNCHANGED <<storeVars, capacity, files, cap, outcome, final, answer, worker, cancelVars>>

-----------------------------------------------------------------------------
(* Faults of a supervisor *)

\* Seeded fault: the handler calls fail_queued for a running row too
InternalErrorFailsQueued(j) ==
  /\ "error" \in Faults
  /\ pc[j] \in {"talking", "classified", "writing"}
  /\ answer[j] = None
  /\ status[j] = "running"
  /\ pc' = [pc EXCEPT ![j] = "cleanup"]
  /\ Terminate(j)
  /\ FailQueued(j)
  /\ Answer(j, "failed")
  /\ UNCHANGED <<capacity, files, holder, cap, outcome, final, cancelVars>>

\* except Exception while the row is running: terminate and persist "failed"
\* with the same two-step finish_job; the answer no longer depends on the row
InternalError(j) ==
  /\ "error" \in Faults
  /\ pc[j] \in {"talking", "classified", "writing"}
  /\ answer[j] = None
  /\ status[j] = "running"
  /\ pc' = [pc EXCEPT ![j] = "classified"]
  /\ Terminate(j)
  /\ outcome' = [outcome EXCEPT ![j] = "failed"]
  /\ Answer(j, "failed")
  /\ UNCHANGED <<storeVars, capacity, files, holder, cap, final, cancelVars>>

\* except Exception while the row is not running any more (finish_job has
\* committed, or somebody else retired it): the handler calls fail_queued
LateInternalError(j) ==
  /\ "error" \in Faults
  /\ pc[j] \in {"talking", "classified", "writing", "written"}
  /\ answer[j] = None
  /\ status[j] # "running"
  /\ Goto(j, pc[j], "cleanup")
  /\ Terminate(j)
  /\ FailQueued(j)
  /\ Answer(j, "failed")
  /\ UNCHANGED <<capacity, files, holder, cap, outcome, final, cancelVars>>

\* the store raises sqlite3.Error, in the handler's own writes too, where it is
\* swallowed: the row stays as it is and the caller is told "failed"
StoreUnavailable(j) ==
  /\ "store" \in Faults
  /\ pc[j] \in {"created", "opening", "prepared", "spawned", "talking",
               "classified", "writing", "written"}
  /\ Goto(j, pc[j], "cleanup")
  /\ Terminate(j)
  /\ Answer(j, "failed")
  /\ UNCHANGED <<storeVars, capacity, files, holder, cap, outcome, final, cancelVars>>

\* Seeded fault: a slot marked by the file's existence outlives its supervisor
AbandonKeepsSlot(j, as) ==
  /\ pc[j] \notin Gone \cup {"idle"}
  /\ pc' = [pc EXCEPT ![j] = as]
  /\ UNCHANGED <<storeVars, capacity, files, holder, cap, outcome, final, answer, worker,
                 cancelVars>>

\* run() stops executing: its lock goes, its worker does not (own session)
Abandon(j, as) ==
  /\ pc[j] \notin Gone \cup {"idle"}
  /\ pc' = [pc EXCEPT ![j] = as]
  /\ Unlock(j)
  /\ UNCHANGED <<storeVars, capacity, files, cap, outcome, final, answer, worker, cancelVars>>

\* Ctrl+C: KeyboardInterrupt is no Exception, only the finally block runs
Interrupt(j) == "interrupt" \in Faults /\ Abandon(j, "interrupted")

\* the supervisor is killed (SIGTERM has no handler)
Crash(j) == "crash" \in Faults /\ Abandon(j, "crashed")

-----------------------------------------------------------------------------
(* cancel() *)

CancelGoto(c, from, to) ==
  /\ cpc[c] = from
  /\ cpc' = [cpc EXCEPT ![c] = to]

CancelReturns(c, from, v) ==
  /\ CancelGoto(c, from, "done")
  /\ verdict' = [verdict EXCEPT ![c] = v]

\* get_job, the first read
CancelLookup(c, j) ==
  /\ target' = [target EXCEPT ![c] = j]
  /\ \/ status[j] = "absent" /\ CancelReturns(c, "idle", "NOT_FOUND")
     \/ status[j] \in Active /\ CancelGoto(c, "idle", status[j]) /\ UNCHANGED verdict
     \/ status[j] \in Terminal /\ CancelReturns(c, "idle", "NOT_RUNNING")
  /\ UNCHANGED <<storeVars, capacity, files, holder, runVars, worker>>

CancelWhileQueued(c) ==
  /\ CancelReturns(c, "queued", "CANCELLED")
  /\ CancelQueued(target[c])
  /\ UNCHANGED <<capacity, files, holder, runVars, worker, target>>

\* Seeded fault: a job that raced is signalled without being read again
CancelRacedKills(c) ==
  /\ CancelGoto(c, "queued", "kill")
  /\ status[target[c]] # "queued"
  /\ UNCHANGED <<storeVars, capacity, files, holder, runVars, worker, target, verdict>>

\* Seeded fault: only a job that raced into running is read again
CancelRacedIntoRunning(c) ==
  /\ CancelGoto(c, "queued", "reread")
  /\ status[target[c]] = "running"
  /\ UNCHANGED <<storeVars, capacity, files, holder, runVars, worker, target, verdict>>

\* cancel_queued matched no row: read the row again
CancelRaced(c) ==
  /\ CancelGoto(c, "queued", "reread")
  /\ status[target[c]] # "queued"
  /\ UNCHANGED <<storeVars, capacity, files, holder, runVars, worker, target, verdict>>

CancelReread(c) ==
  /\ \/ /\ CancelGoto(c, "reread", "running")
        /\ status[target[c]] = "running"
        /\ UNCHANGED verdict
     \/ /\ CancelReturns(c, "reread", "NOT_RUNNING")
        /\ status[target[c]] # "running"
  /\ UNCHANGED <<storeVars, capacity, files, holder, runVars, worker, target>>

CancelRunning(c) ==
  /\ \/ /\ CancelGoto(c, "running", "kill")
        /\ RequestCancel(target[c])
        /\ UNCHANGED verdict
     \/ /\ CancelReturns(c, "running", "NOT_RUNNING")
        /\ status[target[c]] # "running"
        /\ UNCHANGED storeVars
  /\ UNCHANGED <<capacity, files, holder, runVars, worker, target>>

\* _kill_group with the pid and start time of the row, then SIGKILL; a worker
\* that handles SIGTERM may still exit with a usable result
CancelKill(c) ==
  /\ CancelReturns(c, "kill", "CANCEL_REQUESTED")
  /\ IF worker[target[c]] = "alive"
     THEN \E how \in {"ok", "error"} : worker' = [worker EXCEPT ![target[c]] = how]
     ELSE UNCHANGED worker
  /\ UNCHANGED <<storeVars, capacity, files, holder, runVars, target>>

-----------------------------------------------------------------------------

\* save_settings by the CLI or the dashboard
SetCapacity(n) ==
  /\ capacity' = n
  /\ UNCHANGED <<storeVars, files, holder, runVars, worker, cancelVars>>

\* the steps run() takes by itself once it has been started
RunStep(j) ==
  \/ LoadCapacity(j) \/ (\E s \in Slots : OpenSlot(j, s) \/ TakeSlot(j, s))
  \/ CancelSeenQueued(j)
  \/ SlotGranted(j) \/ Spawn(j) \/ StartRunning(j) \/ StartRefused(j)
  \/ SeeCancel(j) \/ TimeOut(j) \/ ReadToEnd(j)
  \/ FinishSelect(j) \/ Finish(j) \/ Reread(j) \/ CleanUp(j)

\* what may go wrong around it
RunMishap(j) ==
  \/ SelectionFails(j) \/ SetupFails(j) \/ WaitFails(j) \/ LaunchFails(j) \/ Oversize(j)
  \/ InternalError(j) \/ LateInternalError(j) \/ StoreUnavailable(j)
  \/ Interrupt(j) \/ Crash(j)

CancelStep(c) ==
  \/ CancelWhileQueued(c) \/ CancelRaced(c) \/ CancelReread(c)
  \/ CancelRunning(c) \/ CancelKill(c)

Next ==
  \/ \E j \in Jobs : Submit(j) \/ RunStep(j) \/ RunMishap(j) \/ WorkerExits(j)
  \/ \E c \in Cancellers : CancelStep(c) \/ \E j \in Jobs : CancelLookup(c, j)
  \/ \E n \in Capacities : SetCapacity(n)

Spec == Init /\ [][Next]_vars

\* A supervisor that was started keeps executing (its polls never block for
\* good, its deadline bounds a hung worker), and so does a started cancel().
\* Nothing is assumed of users, of settings or of the worker.
Fairness ==
  /\ \A j \in Jobs : WF_vars(RunStep(j))
  /\ \A c \in Cancellers : WF_vars(CancelStep(c))

FairSpec == Spec /\ Fairness

-----------------------------------------------------------------------------
(* Properties *)

\* A worker that is alive while run() is still executing runs under one of the
\* slot files its supervisor opened: run() never gives up the slot before the
\* process is gone, on any exit path (finally closes the lock last).
WorkerHoldsSlot ==
  \A j \in Jobs :
    worker[j] = "alive" /\ pc[j] \notin {"interrupted", "crashed"} =>
      \E s \in Slots : s < cap[j] /\ holder[s] = j

\* A slot file is locked only by a supervisor that still executes run() between
\* the flock and the finally block, and only below the capacity it loaded: no
\* return, error, interrupt or crash leaks a slot.
SlotsHeldOnlyWhileRunning ==
  \A j \in Jobs, s \in Slots : holder[s] = j =>
    /\ pc[j] \in HoldingSlot \cup {"cleanup"}
    /\ s < cap[j]

\* A row says "running" only while its supervisor is between start_job and
\* finish_job, or has died there: no return path of run() leaves the row behind,
\* as long as the store can be written.
RunningIsSupervised ==
  "store" \notin Faults =>
    \A j \in Jobs : status[j] = "running" =>
      pc[j] \in {"talking", "classified", "writing", "interrupted", "crashed"}

\* When run() has returned, its row is terminal, its worker is gone and it
\* holds no slot: nothing is left for a caller to wait for.
SettledOnReturn ==
  "store" \notin Faults =>
    \A j \in Jobs : pc[j] = "returned" =>
      /\ status[j] \in Terminal
      /\ worker[j] # "alive"
      /\ \A s \in Slots : holder[s] # j

\* What run() has to record is never refused: between start_job and finish_job no
\* cancel() and no other supervisor takes the row out of its hands.
ResultNeverRefused == \A j \in Jobs : pc[j] = "classified" => Finishable(j)

\* The status a RunResult reports is the persisted one, whatever cancellation
\* did in between; only the exception handlers may answer "failed" for a row
\* that ended differently.
AnswerMatchesRow ==
  \A j \in Jobs : pc[j] = "returned" => answer[j] \in {status[j], "failed"}

\* The first terminal event of a job's trail is its status: fail_queued may
\* append a late "failed" event to a settled job, it never records one early.
FirstTerminalEventIsStatus ==
  \A j \in Jobs : status[j] \in Terminal =>
    \E i \in DOMAIN trail[j] :
      /\ trail[j][i] = status[j]
      /\ \A k \in 1 .. i - 1 : trail[j][k] \notin Terminal

\* cancel() answering CANCELLED means the job left the queue for good: the row
\* is cancelled and was never started.
CancelledMeansNeverStarted ==
  \A c \in Cancellers : verdict[c] = "CANCELLED" =>
    /\ status[target[c]] = "cancelled"
    /\ \A i \in DOMAIN trail[target[c]] : trail[target[c]][i] # "started"

\* cancel() answering CANCEL_REQUESTED has stopped the worker for good, also when
\* its supervisor has died and nobody else would.
CancelRequestedStopsWorker ==
  \A c \in Cancellers :
    verdict[c] = "CANCEL_REQUESTED" => worker[target[c]] # "alive"

\* A terminal status is never changed again, although finish_job's UPDATE has
\* no status condition of its own.
TerminalIsFinal ==
  [][\A j \in Jobs : status[j] \in Terminal => status'[j] = status[j]]_vars

\* The supervisors and cancellers implement the abstract job lifecycle: the
\* row's status is the phase, and the submitter is told when run() returns.
Lifecycle == INSTANCE JobLifecycle WITH
  Outcomes <- Terminal,
  NoAnswer <- None,
  phase    <- status,
  told     <- [j \in Jobs |-> IF pc[j] = "returned" THEN answer[j] ELSE None]

ImplementsLifecycle == Lifecycle!Spec

\* Every submitted job is eventually settled and its submitter answered, even
\* when the worker hangs, slots are contended and cancellations interfere.
EveryJobSettles ==
  \A j \in Jobs :
    pc[j] = "created" ~> pc[j] = "returned" /\ status[j] \in Terminal

\* A cancel() that found the job active returns, and the job settles.
CancelReturnsAndSettles ==
  \A c \in Cancellers :
    cpc[c] \in {"queued", "running"} ~>
      cpc[c] = "done" /\ status[target[c]] \in Terminal

-----------------------------------------------------------------------------
(* Claims of the documentation that the code does not keep *)

\* IMPLEMENTATION_SPEC.md:1381-1385: cancellation is recorded, the worker is
\* stopped, and step 5 is "mark job cancelled".
AcceptedCancelIsRecorded ==
  \A j \in Jobs :
    cancelRequested[j] /\ status[j] \in Terminal => status[j] = "cancelled"

\* IMPLEMENTATION_SPEC.md:5243-5245: on Ctrl+C "terminate the owned worker".
InterruptStopsWorker ==
  \A j \in Jobs : pc[j] = "interrupted" => worker[j] # "alive"

=============================================================================
