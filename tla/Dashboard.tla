------------------------------ MODULE Dashboard ------------------------------
(***************************************************************************)
(* The provider tests of dashboard/server.py, next to the supervisors of   *)
(* module Supervisor: start_test probes whether the worker is busy         *)
(* (_worker_has_active_job), which retires rows whose supervisor has died, *)
(* then launches a wrapper process `ai-worker test --job-id`, whose        *)
(* collector thread kills it after 150 seconds.  On shutdown the dashboard  *)
(* cancels the test it owns and then terminates the wrapper.  Any cancel() *)
(* may be a subprocess of the dashboard's, which it kills after 8 seconds.  *)
(*                                                                         *)
(* start_test runs under the controller's _lock, so there is one probe at  *)
(* a time.  The probe itself is not atomic: every open/flock and every     *)
(* query is a step.                                                        *)
(***************************************************************************)
EXTENDS Supervisor

VARIABLES
  dpc,      \* control point of start_test
  listed,   \* _slot_lock_paths: the slot files this probe will lock
  rows,     \* the rows this probe read and has not dealt with: status as read
  testJob,  \* _test_processes: job of the live wrapper process
  spc,      \* control point of shutdown_owned_tests
  victim,   \* shutdown_owned_tests: the test it found when it began
  helper    \* shutdown_owned_tests: the cancel() it started for that test

probeVars    == <<dpc, listed, rows, testJob>>
shutdownVars == <<spc, victim, helper>>
dashVars == <<probeVars, shutdownVars>>
allVars  == <<vars, dashVars>>

DashTypeOK ==
  /\ dpc \in {"idle", "listing", "locking", "reading", "retiring", "launching"}
  /\ listed \subseteq Slots
  /\ rows \in [Jobs -> Active \cup {None}]
  /\ testJob \in Jobs \cup {None}
  /\ spc \in {"serving", "cancelling", "calling", "waiting", "stopped"}
  /\ victim \in Jobs \cup {None}
  /\ helper \in Cancellers \cup {None}

DashInit ==
  /\ Init
  /\ dpc = "idle"
  /\ listed = {}
  /\ rows = [j \in Jobs |-> None]
  /\ testJob = None
  /\ spc = "serving"
  /\ victim = None
  /\ helper = None

-----------------------------------------------------------------------------

NoRows == [j \in Jobs |-> None]

\* Seeded fault: the query forgets its status condition
AllRows == [j \in Jobs |-> IF status[j] # "absent" THEN status[j] ELSE None]

\* active_jobs
ActiveRows == [j \in Jobs |-> IF status[j] \in Active THEN status[j] ELSE None]

Held == {s \in Slots : holder[s] = Prober}

DashGoto(from, to) ==
  /\ dpc = from
  /\ dpc' = to

\* Seeded fault: the probe's descriptors stay open
ReleaseNothing ==
  /\ UNCHANGED holder
  /\ rows' = NoRows
  /\ listed' = {}

\* the probe's finally block closes every descriptor it holds
Release ==
  /\ Unlock(Prober)
  /\ rows' = NoRows
  /\ listed' = {}

\* start_test: not _stopping, no wrapper for this worker yet; first active_jobs
\* query
ProbeStarts ==
  /\ spc = "serving"
  /\ testJob = None
  /\ DashGoto("idle", IF ActiveRows = NoRows THEN "launching" ELSE "listing")
  /\ UNCHANGED <<vars, listed, rows, testJob, shutdownVars>>

\* Seeded fault: the single lock file of a worker without concurrency
ListFirstPath ==
  /\ DashGoto("listing", "locking")
  /\ listed' = {0}
  /\ UNCHANGED <<vars, rows, testJob, shutdownVars>>

\* _slot_lock_paths: the indices below the configured capacity and the slot
\* files that exist
ListPaths ==
  /\ DashGoto("listing", "locking")
  /\ listed' = 0 .. capacity - 1 \cup files
  /\ UNCHANGED <<vars, rows, testJob, shutdownVars>>

\* open and flock the next file in order; a busy one ends the probe
LockNext ==
  /\ \E s \in listed \ Held :
       /\ \A other \in listed \ Held : s <= other
       /\ files' = files \cup {s}
       /\ \/ /\ holder[s] = None
             /\ DashGoto("locking", "locking")
             /\ holder' = [holder EXCEPT ![s] = Prober]
             /\ UNCHANGED <<listed, rows>>
          \/ /\ holder[s] # None
             /\ DashGoto("locking", "idle")
             /\ Release
  /\ UNCHANGED <<storeVars, capacity, runVars, worker, cancelVars, testJob, shutdownVars>>

\* Seeded fault: rows are read without waiting for the slot locks
ReadRowsUnlocked ==
  /\ DashGoto("locking", "retiring")
  /\ rows' = ActiveRows
  /\ UNCHANGED <<vars, listed, testJob, shutdownVars>>

\* every listed slot is held: second active_jobs query
ReadRows ==
  /\ listed \ Held = {}
  /\ DashGoto("locking", "retiring")
  /\ rows' = ActiveRows
  /\ UNCHANGED <<vars, listed, testJob, shutdownVars>>

\* Seeded fault: every running row counts as busy
BusyWheneverRunning(j) ==
  /\ rows[j] \in Active
  /\ DashGoto("retiring", "idle")
  /\ Release
  /\ UNCHANGED <<storeVars, capacity, files, runVars, worker, cancelVars, testJob, shutdownVars>>

\* a queued row, or one whose process group exists: the worker is busy
StillBusy(j) ==
  /\ \/ rows[j] = "queued"
     \/ rows[j] = "running" /\ worker[j] = "alive"
  /\ DashGoto("retiring", "idle")
  /\ Release
  /\ UNCHANGED <<storeVars, capacity, files, runVars, worker, cancelVars, testJob, shutdownVars>>

\* mark_interrupted, a no-op when the row is not running any more
RetireRow(j) ==
  /\ rows[j] = "running"
  /\ worker[j] # "alive"
  /\ DashGoto("retiring", "retiring")
  /\ rows' = [rows EXCEPT ![j] = None]
  /\ \/ MarkInterrupted(j)
     \/ status[j] # "running" /\ UNCHANGED storeVars
  /\ UNCHANGED <<capacity, files, holder, runVars, worker, cancelVars, listed, testJob,
                 shutdownVars>>

ProbeEnds ==
  /\ rows = NoRows
  /\ DashGoto("retiring", "launching")
  /\ Release
  /\ UNCHANGED <<storeVars, capacity, files, runVars, worker, cancelVars, testJob, shutdownVars>>

\* Popen of the wrapper, which will call run() with the preassigned job id
LaunchTest(j) ==
  /\ pc[j] = "idle"
  /\ DashGoto("launching", "idle")
  /\ testJob' = j
  /\ UNCHANGED <<vars, listed, rows, shutdownVars>>

\* Popen raises OSError
LaunchTestFails ==
  /\ DashGoto("launching", "idle")
  /\ UNCHANGED <<vars, listed, rows, testJob, shutdownVars>>

\* _collect_test: the wrapper exited
TestCollected ==
  /\ testJob # None
  /\ pc[testJob] \in Gone
  /\ testJob' = None
  /\ UNCHANGED <<vars, dpc, listed, rows, shutdownVars>>

\* _collect_test: 150 seconds are over, SIGTERM then SIGKILL for the wrapper
\* only; its slot goes with it, its worker and its row stay
TestTimesOut ==
  /\ testJob # None
  /\ pc[testJob] \notin Gone
  /\ pc' = [pc EXCEPT ![testJob] = "crashed"]
  /\ Unlock(testJob)
  /\ testJob' = None
  /\ UNCHANGED <<storeVars, capacity, files, cap, outcome, final, answer, worker,
                 cancelVars, dpc, listed, rows, shutdownVars>>

-----------------------------------------------------------------------------
(* Cancellations by the dashboard, and its shutdown *)

\* cancel_job: the subprocess running cancel() is killed after 8 seconds
CancelTimesOut(c) ==
  /\ cpc[c] \notin {"idle", "done"}
  /\ cpc' = [cpc EXCEPT ![c] = "done"]
  /\ UNCHANGED <<storeVars, capacity, files, holder, runVars, worker, target, verdict, dashVars>>

ShutdownGoto(from, to) ==
  /\ spc = from
  /\ spc' = to

\* shutdown_owned_tests needs the _lock that start_test holds
ShutdownBegins ==
  /\ dpc = "idle"
  /\ ShutdownGoto("serving", IF testJob = None THEN "stopped" ELSE "cancelling")
  /\ victim' = testJob
  /\ UNCHANGED <<vars, probeVars, helper>>

\* cancel_job raises: the test has no row yet, or a terminal one
ShutdownFindsNothing ==
  /\ ShutdownGoto("cancelling", "waiting")
  /\ status[victim] \notin Active
  /\ UNCHANGED <<vars, probeVars, victim, helper>>

\* cancel_job starts the subprocess, whose cancel() reads the row again
ShutdownCancels(c) ==
  /\ ShutdownGoto("cancelling", "calling")
  /\ status[victim] \in Active
  /\ CancelLookup(c, victim)
  /\ helper' = c
  /\ UNCHANGED <<probeVars, victim>>

ShutdownCallReturns ==
  /\ ShutdownGoto("calling", "waiting")
  /\ cpc[helper] = "done"
  /\ UNCHANGED <<vars, probeVars, victim, helper>>

\* the wrapper exits within five seconds
ShutdownSeesExit ==
  /\ ShutdownGoto("waiting", "stopped")
  /\ pc[victim] \in Gone
  /\ UNCHANGED <<vars, probeVars, victim, helper>>

\* it does not: SIGTERM for the wrapper only
ShutdownTerminates ==
  /\ ShutdownGoto("waiting", "stopped")
  /\ pc[victim] \notin Gone
  /\ pc' = [pc EXCEPT ![victim] = "crashed"]
  /\ Unlock(victim)
  /\ UNCHANGED <<storeVars, capacity, files, cap, outcome, final, answer, worker,
                 cancelVars, probeVars, victim, helper>>

ShutdownStep ==
  \/ ShutdownFindsNothing \/ (\E c \in Cancellers : ShutdownCancels(c))
  \/ ShutdownCallReturns \/ ShutdownSeesExit \/ ShutdownTerminates

-----------------------------------------------------------------------------

ProbeStep ==
  \/ ProbeStarts \/ ListPaths \/ LockNext \/ ReadRows
  \/ (\E j \in Jobs : StillBusy(j) \/ RetireRow(j)) \/ ProbeEnds
  \/ (\E j \in Jobs : LaunchTest(j)) \/ LaunchTestFails \/ TestCollected

DashNext ==
  \/ Next /\ UNCHANGED dashVars
  \/ \E j \in Jobs : FinishRefused(j) /\ UNCHANGED dashVars
  \/ ProbeStep
  \/ TestTimesOut
  \/ \E c \in Cancellers : CancelTimesOut(c)
  \/ ShutdownBegins
  \/ ShutdownStep

DashSpec == DashInit /\ [][DashNext]_allVars

\* A user who keeps asking for provider tests, and the supervisors' fairness.
\* Theirs is strong here: a probe holds the slot files for milliseconds and a
\* waiting supervisor polls every 100 ms for as long as it waits, so it does not
\* for ever find its slot in the hands of a probe.  The collector's 150 seconds
\* pass.
DashFairSpec ==
  /\ DashSpec
  /\ \A j \in Jobs : SF_allVars((RunStep(j) \/ FinishRefused(j)) /\ UNCHANGED dashVars)
  /\ \A c \in Cancellers : WF_allVars(CancelStep(c) /\ UNCHANGED dashVars)
  /\ WF_allVars(ProbeStep)
  /\ WF_allVars(TestTimesOut)
  /\ WF_allVars(ShutdownStep)

-----------------------------------------------------------------------------
(* Properties *)

\* A hypothesis about the user: no saved setting raises the concurrency while a
\* probe is locking files or retiring rows, or lowers it under a supervisor that
\* is still creating its slot files.  RetiresOnlyDead fails without either half.
CapacityKept ==
  /\ dpc \in {"locking", "retiring"} => capacity' <= capacity
  /\ \A j \in Jobs : pc[j] = "opening" => cap[j] <= capacity'

Dead == {"interrupted", "crashed"}

\* A row is only ever retired as SUPERVISOR_INTERRUPTED when its supervisor has
\* died: a supervisor that is still saving its result holds a slot file, and
\* the probe holds them all.
RetiresOnlyDead ==
  [][\A j \in Jobs :
       status[j] = "running" /\ status'[j] = "failed" /\ dpc = "retiring" /\ rows' # rows
         => pc[j] \in Dead]_allVars

\* TerminalIsFinal, for the supervisors and the dashboard together: the
\* recovery never races finish_job's unconditional UPDATE.
TerminalStaysFinal ==
  [][\A j \in Jobs : status[j] \in Terminal => status'[j] = status[j]]_allVars

\* A probe keeps slot files locked only while it is under way: every way out
\* of it lets waiting supervisors continue.
ProbeHoldsNothingAfterwards ==
  dpc \in {"idle", "listing", "launching"} => Held = {}

\* IMPLEMENTATION_SPEC.md:2773-2785 asks that jobs left "running" without an
\* owned process are marked failed.  The row of a dead supervisor whose worker is
\* gone is retired by some later test request, unless a dead supervisor's queued
\* row or surviving worker keeps the provider busy, or the dashboard stops.
StrandedRunIsRetiredOrBlocked ==
  \A j \in Jobs :
    (status[j] = "running" /\ pc[j] \in Dead /\ worker[j] # "alive") ~>
      \/ status[j] = "failed"
      \/ \E k \in Jobs : /\ pc[k] \in Dead
                         /\ (status[k] = "queued" \/ worker[k] = "alive")
      \/ spc # "serving"

\* docs/security.md:34: dashboard tests "are canceled on graceful dashboard
\* shutdown".
ShutdownStopsTest ==
  spc = "stopped" /\ victim # None => worker[victim] # "alive"

=============================================================================
