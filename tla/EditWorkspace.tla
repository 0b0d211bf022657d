---------------------------- MODULE EditWorkspace ----------------------------
(***************************************************************************)
(* The private directories of isolated-edit jobs: workers/workspace.py     *)
(* inside the supervisors, `ai-worker discard` (bin/worker.py) and the     *)
(* history cleanup (ai_router/retention.py), which share the directory of  *)
(* a job and its row.  Of the row only its life is kept: "terminal" stands *)
(* for every final status.                                                 *)
(***************************************************************************)
EXTENDS Naturals, FiniteSets

CONSTANT EditJobs      \* isolated-edit jobs

VARIABLES
  row,         \* the job's row: "queued", "running", "terminal" or "deleted"
  expired,     \* the row is older than the retention
  step,        \* control point of the supervisor
  alive,       \* the worker process exists
  dir,         \* what the job directory holds, a set; NoDir when there is none
  known,       \* the adapter's _job_dirs and _worktrees have the job
  diff,        \* RunResult's diff: "none", "reported", "partial" or "unavailable"
  discard,     \* `discard --confirm` of the job: "idle", "checked", "removed", "done"
  sweep,       \* apply_cleanup: "idle", "candidates", "preview"
  candidates,  \* apply_cleanup: rows selected so far
  started,     \* history: start_job recorded the job as running
  removalFailed \* history: something the supervisor removes could not be removed

workspaceVars == <<row, expired, step, alive, dir, known, diff, discard, sweep,
                   candidates, started, removalFailed>>

NoDir == {"no directory"}

WorkspaceInit ==
  /\ row = [j \in EditJobs |-> "queued"]
  /\ expired = [j \in EditJobs |-> FALSE]
  /\ step = [j \in EditJobs |-> "slot"]
  /\ alive = [j \in EditJobs |-> FALSE]
  /\ dir = [j \in EditJobs |-> NoDir]
  /\ known = [j \in EditJobs |-> FALSE]
  /\ diff = [j \in EditJobs |-> "none"]
  /\ discard = [j \in EditJobs |-> "idle"]
  /\ sweep = "idle"
  /\ candidates = {}
  /\ started = [j \in EditJobs |-> FALSE]
  /\ removalFailed = [j \in EditJobs |-> FALSE]

-----------------------------------------------------------------------------
\* The supervisor

StepTo(j, here, there) ==
  /\ step[j] = here
  /\ step' = [step EXCEPT ![j] = there]

Put(j, content) == dir' = [dir EXCEPT ![j] = content]

outsideVars == <<expired, discard, sweep, candidates>>
workerVars == <<alive, started>>

\* prepare_request: the refusals before the directory exists, or job_dir.mkdir()
RefuseEdit(j) ==
  /\ StepTo(j, "slot", "failing")
  /\ UNCHANGED <<row, workerVars, dir, known, diff, removalFailed, outsideVars>>

MakeJobDir(j) ==
  /\ StepTo(j, "slot", "made")
  /\ Put(j, {})
  /\ UNCHANGED <<row, workerVars, known, diff, removalFailed, outsideVars>>

\* prepare_request: git worktree add
AddWorktree(j) ==
  /\ StepTo(j, "made", "added")
  /\ Put(j, {"worktree"})
  /\ UNCHANGED <<row, workerVars, known, diff, removalFailed, outsideVars>>

\* prepare_request: request.json and the adapter's own files; only now does the
\* adapter know the directory.  All this fails if a discard took it away.
WriteRequest(j) ==
  /\ step[j] = "added"
  /\ IF dir[j] # NoDir
     THEN /\ StepTo(j, "added", "prepared")
          /\ Put(j, dir[j] \cup {"request.json"})
          /\ known' = [known EXCEPT ![j] = TRUE]
     ELSE StepTo(j, "added", "failing") /\ UNCHANGED <<dir, known>>
  /\ UNCHANGED <<row, workerVars, diff, removalFailed, outsideVars>>

\* prepare_request, except BaseException: the worktree is removed if it was
\* created, then the directory, from any point after mkdir
RollBack(j) ==
  /\ StepTo(j, "made", "failing") \/ StepTo(j, "added", "failing")
  /\ Put(j, NoDir)
  /\ UNCHANGED <<row, workerVars, known, diff, removalFailed, outsideVars>>

\* the same when git raises, so that rmtree is skipped, or when rmtree, which
\* ignores errors, leaves something.  A failed `worktree add` may have made the
\* worktree, a failed fsync of request.json that file.
RollBackFails(j) ==
  /\ StepTo(j, "made", "failing") \/ StepTo(j, "added", "failing")
  /\ dir[j] # NoDir
  /\ \E content \in SUBSET (IF step[j] = "made" THEN {"worktree"}
                            ELSE dir[j] \cup {"request.json"}) : Put(j, content)
  /\ removalFailed' = [removalFailed EXCEPT ![j] = TRUE]
  /\ UNCHANGED <<row, workerVars, known, diff, outsideVars>>

\* the command is built and the worker starts in its worktree, or does not
SpawnEdit(j) ==
  /\ StepTo(j, "prepared", "spawned")
  /\ "worktree" \in dir[j]
  /\ alive' = [alive EXCEPT ![j] = TRUE]
  /\ UNCHANGED <<row, started, dir, known, diff, removalFailed, outsideVars>>

SpawnFails(j) ==
  /\ StepTo(j, "prepared", "failing")
  /\ UNCHANGED <<row, workerVars, dir, known, diff, removalFailed, outsideVars>>

\* start_job
StartEdit(j) ==
  /\ row[j] = "queued"
  /\ StepTo(j, "spawned", "working")
  /\ row' = [row EXCEPT ![j] = "running"]
  /\ started' = [started EXCEPT ![j] = TRUE]
  /\ UNCHANGED <<alive, dir, known, diff, removalFailed, outsideVars>>

\* start_job refuses a row that is no longer queued, the store fails, or the
\* process cannot be identified: the worker is terminated
EditNotStarted(j) ==
  /\ StepTo(j, "spawned", "failing")
  /\ alive' = [alive EXCEPT ![j] = FALSE]
  /\ UNCHANGED <<row, started, dir, known, diff, removalFailed, outsideVars>>

\* the worker edits files in its worktree, also when its supervisor is gone
WorkerEdits(j) ==
  /\ alive[j]
  /\ "worktree" \in dir[j]
  /\ Put(j, dir[j] \cup {"edits"})
  /\ UNCHANGED <<row, step, workerVars, known, diff, removalFailed, outsideVars>>

WorkerEnds(j) ==
  /\ alive[j]
  /\ alive' = [alive EXCEPT ![j] = FALSE]
  /\ UNCHANGED <<row, step, started, dir, known, diff, removalFailed, outsideVars>>

\* finish_job, whatever the outcome, after the worker has exited or was terminated
FinishEdit(j) ==
  /\ row[j] = "running"
  /\ StepTo(j, "working", "finished")
  /\ row' = [row EXCEPT ![j] = "terminal"]
  /\ alive' = [alive EXCEPT ![j] = FALSE]
  /\ UNCHANGED <<started, dir, known, diff, removalFailed, outsideVars>>

\* collect_edit_output: the worktree may be gone by now and any git command may
\* fail; when it is `diff --name-only`, the tracked changes are missing silently
CollectDiff(j) ==
  /\ StepTo(j, "finished", "collected")
  /\ \E result \in IF "worktree" \in dir[j] THEN {"reported", "partial", "unavailable"}
                                           ELSE {"unavailable"} :
       diff' = [diff EXCEPT ![j] = result]
  /\ UNCHANGED <<row, workerVars, dir, known, removalFailed, outsideVars>>

\* run()'s handlers: the worker is terminated and the row fails, unless it has
\* been settled already or the store cannot be written
FailEdit(j) ==
  /\ StepTo(j, "failing", "collected") \/ StepTo(j, "working", "collected")
  /\ \/ row[j] \in {"queued", "running"} /\ row' = [row EXCEPT ![j] = "terminal"]
     \/ UNCHANGED row
  /\ alive' = [alive EXCEPT ![j] = FALSE]
  /\ UNCHANGED <<started, dir, known, diff, removalFailed, outsideVars>>

\* Ctrl+C passes run()'s handlers, so that nothing stops the worker; before the
\* worker exists it is a failure whose row is not written
InterruptEdit(j) ==
  /\ StepTo(j, "spawned", "collected") \/ StepTo(j, "working", "collected")
  /\ UNCHANGED <<row, workerVars, dir, known, diff, removalFailed, outsideVars>>

\* Seeded fault: cleanup keeps request.json with the edits
CleanUpNothing(j) ==
  /\ StepTo(j, "collected", "returned")
  /\ known' = [known EXCEPT ![j] = FALSE]
  /\ UNCHANGED <<row, workerVars, dir, diff, removalFailed, outsideVars>>

\* adapter.cleanup: request.json goes, the worktree stays for review
CleanUpEdit(j) ==
  /\ StepTo(j, "collected", "returned")
  /\ IF known[j] /\ dir[j] # NoDir THEN Put(j, dir[j] \ {"request.json"}) ELSE UNCHANGED dir
  /\ known' = [known EXCEPT ![j] = FALSE]
  /\ UNCHANGED <<row, workerVars, diff, removalFailed, outsideVars>>

\* adapter.cleanup when the file cannot be unlinked: the error is dropped
CleanUpFails(j) ==
  /\ StepTo(j, "collected", "returned")
  /\ known[j] /\ "request.json" \in dir[j]
  /\ known' = [known EXCEPT ![j] = FALSE]
  /\ removalFailed' = [removalFailed EXCEPT ![j] = TRUE]
  /\ UNCHANGED <<row, workerVars, dir, diff, outsideVars>>

\* the supervisor is killed; its worker goes on
CrashEdit(j) ==
  /\ step[j] \notin {"returned", "crashed"}
  /\ step' = [step EXCEPT ![j] = "crashed"]
  /\ UNCHANGED <<row, workerVars, dir, known, diff, removalFailed, outsideVars>>

\* from outside: cancel() of a queued job, or recovery of the row of a worker that
\* no longer exists, which may come before its supervisor has saved the result
SettleRow(j) ==
  /\ \/ row[j] = "queued"
     \/ row[j] = "running" /\ ~alive[j]
  /\ row' = [row EXCEPT ![j] = "terminal"]
  /\ UNCHANGED <<step, workerVars, dir, known, diff, removalFailed, outsideVars>>

-----------------------------------------------------------------------------
\* discard and cleanup

supervisorVars == <<step, alive, known, diff, started, removalFailed>>

\* Seeded fault: command_discard does not look at the status
DiscardAnyJob(j) ==
  /\ discard[j] = "idle"
  /\ row[j] # "deleted"
  /\ "worktree" \in dir[j]
  /\ discard' = [discard EXCEPT ![j] = "checked"]
  /\ UNCHANGED <<row, expired, dir, sweep, candidates, supervisorVars>>

\* command_discard up to the removal: a known, terminal job with a worktree
CheckDiscard(j) ==
  /\ row[j] \notin {"queued", "running"}
  /\ DiscardAnyJob(j)

\* command_discard: git worktree remove --force
RemoveWorktree(j) ==
  /\ discard[j] = "checked"
  /\ "worktree" \in dir[j]
  /\ discard' = [discard EXCEPT ![j] = "removed"]
  /\ Put(j, dir[j] \ {"worktree", "edits"})
  /\ UNCHANGED <<row, expired, sweep, candidates, supervisorVars>>

\* command_discard: shutil.rmtree(job_dir)
RemoveJobDir(j) ==
  /\ discard[j] = "removed"
  /\ dir[j] # NoDir
  /\ discard' = [discard EXCEPT ![j] = "done"]
  /\ Put(j, NoDir)
  /\ UNCHANGED <<row, expired, sweep, candidates, supervisorVars>>

\* the command dies, or git refuses: a later discard starts over
DiscardFails(j) ==
  /\ discard[j] \in {"checked", "removed"}
  /\ discard' = [discard EXCEPT ![j] = "idle"]
  /\ UNCHANGED <<row, expired, dir, sweep, candidates, supervisorVars>>

\* created_at passes the cutoff, whatever the job is doing: nothing limits the
\* wait for a slot
Expire(j) ==
  /\ ~expired[j]
  /\ expired' = [expired EXCEPT ![j] = TRUE]
  /\ UNCHANGED <<row, dir, discard, sweep, candidates, supervisorVars>>

\* preview_cleanup: cleanup_candidates
SelectCandidates ==
  /\ sweep = "idle"
  /\ sweep' = "candidates"
  /\ candidates' = {j \in EditJobs : expired[j] /\ row[j] = "terminal"}
  /\ UNCHANGED <<row, expired, dir, discard, supervisorVars>>

\* Seeded fault: only directories with a worktree that was edited are retained
SpareEdited ==
  /\ sweep = "candidates"
  /\ sweep' = "preview"
  /\ candidates' = {j \in candidates : dir[j] = NoDir \/ "edits" \notin dir[j]}
  /\ UNCHANGED <<row, expired, dir, discard, supervisorVars>>

\* preview_cleanup: _retained_worktree_ids spares every job whose directory is
\* not empty
SpareRetained ==
  /\ sweep = "candidates"
  /\ sweep' = "preview"
  /\ candidates' = {j \in candidates : dir[j] \in {NoDir, {}}}
  /\ UNCHANGED <<row, expired, dir, discard, supervisorVars>>

\* apply_cleanup: delete_jobs, which skips active rows
DeleteRows ==
  /\ sweep = "preview"
  /\ sweep' = "idle"
  /\ candidates' = {}
  /\ row' = [j \in EditJobs |-> IF j \in candidates /\ row[j] = "terminal"
                                THEN "deleted" ELSE row[j]]
  /\ UNCHANGED <<expired, dir, discard, supervisorVars>>

WorkspaceNext ==
  \/ \E j \in EditJobs :
       \/ RefuseEdit(j) \/ MakeJobDir(j) \/ AddWorktree(j) \/ WriteRequest(j)
       \/ RollBack(j) \/ RollBackFails(j) \/ SpawnEdit(j) \/ SpawnFails(j)
       \/ StartEdit(j) \/ EditNotStarted(j) \/ WorkerEdits(j) \/ WorkerEnds(j)
       \/ FinishEdit(j) \/ CollectDiff(j) \/ FailEdit(j) \/ InterruptEdit(j)
       \/ CleanUpEdit(j) \/ CleanUpFails(j) \/ CrashEdit(j) \/ SettleRow(j)
       \/ CheckDiscard(j) \/ RemoveWorktree(j) \/ RemoveJobDir(j) \/ DiscardFails(j)
       \/ Expire(j)
  \/ SelectCandidates
  \/ SpareRetained
  \/ DeleteRows

WorkspaceSpec == WorkspaceInit /\ [][WorkspaceNext]_workspaceVars

-----------------------------------------------------------------------------

\* command_diff shows a job's edits: the row and the worktree are there
Reviewable(j) == row[j] # "deleted" /\ "worktree" \in dir[j]

\* What the documents say of the cleanup: as long as a worktree exists, the row
\* through which `diff` and `discard` reach it does too.  It fails for a job that
\* expires in the queue, is cancelled at its grant and gets its worktree after the
\* cleanup has looked at its directory.
RowOutlivesWorktree ==
  \A j \in EditJobs : "worktree" \in dir[j] => Reviewable(j)

\* The cleanup never orphans the worktree of a job that ran, although it reads the
\* rows, the directories and the rows again while everybody else goes on and the
\* supervisor may still be collecting the edits.
StartedWorktreeKeepsRow ==
  \A j \in EditJobs : started[j] /\ "worktree" \in dir[j] => Reviewable(j)

\* What a worker has edited disappears only through a discard that the user
\* confirmed after the job had ended: not by the end of its supervisor, a failed
\* preparation or the cleanup.
EditsVanishOnlyByDiscard ==
  [][\A j \in EditJobs : "edits" \in dir[j] /\ "edits" \notin dir'[j]
       => discard[j] = "checked" /\ row[j] \notin {"queued", "running"}]_workspaceVars

\* A supervisor that returns, on whatever path, leaves no copy of the request on
\* disk, unless the removal itself failed: both removals drop their errors.
RequestTextRemoved ==
  \A j \in EditJobs : step[j] = "returned" /\ ~removalFailed[j] =>
    "request.json" \notin dir[j]

=============================================================================
