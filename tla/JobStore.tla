------------------------------ MODULE JobStore ------------------------------
(***************************************************************************)
(* The job rows and event trails of ai_router/state.py, one operator per   *)
(* StateStore method.  The module has no Next of its own: the processes    *)
(* that call the store (Supervisor, Dashboard) use these operators inside   *)
(* their actions.                                                          *)
(*                                                                         *)
(* A method that opens with an UPDATE or INSERT is one transaction and one *)
(* step here.  finish_job opens with a SELECT: the connection is           *)
(* isolation_level='DEFERRED', so the SELECT runs in autocommit and the    *)
(* transaction only begins with the UPDATE.  Another process may commit in *)
(* between, hence two operators, FinalStatus (the SELECT) and              *)
(* FinishUpdate (the UPDATE, which has no status condition).               *)
(***************************************************************************)
EXTENDS Naturals, Sequences

CONSTANT Jobs                 \* job identifiers (UUIDs in the code)

VARIABLES
  status,                     \* jobs.status; "absent" while there is no row
  cancelRequested,            \* jobs.cancel_requested
  trail                       \* the lifecycle rows of job_events, in order

storeVars == <<status, cancelRequested, trail>>

Active == {"queued", "running"}

Terminal == {"completed", "failed", "timed_out", "cancelled",
             "auth_error", "rate_limited", "invalid_output"}

Statuses == {"absent"} \cup Active \cup Terminal

Events == {"queued", "started", "cancellation requested"} \cup Terminal

StoreTypeOK ==
  /\ status \in [Jobs -> Statuses]
  /\ cancelRequested \in [Jobs -> BOOLEAN]
  /\ trail \in [Jobs -> Seq(Events)]

StoreInit ==
  /\ status = [j \in Jobs |-> "absent"]
  /\ cancelRequested = [j \in Jobs |-> FALSE]
  /\ trail = [j \in Jobs |-> <<>>]

-----------------------------------------------------------------------------

\* One row update together with the event row of the same transaction.
Record(j, newStatus, event) ==
  /\ status' = [status EXCEPT ![j] = newStatus]
  /\ trail' = [trail EXCEPT ![j] = Append(@, event)]

\* create_job
CreateJob(j) ==
  /\ status[j] = "absent"
  /\ Record(j, "queued", "queued")
  /\ UNCHANGED cancelRequested

\* Seeded fault: start_job without WHERE status='queued'
StartJobUnconditionally(j) ==
  /\ Record(j, "running", "started")
  /\ UNCHANGED cancelRequested

\* start_job, when its UPDATE ... WHERE status='queued' matched the row
StartJob(j) ==
  /\ status[j] = "queued"
  /\ Record(j, "running", "started")
  /\ UNCHANGED cancelRequested

\* finish_job, the SELECT: the row must be active, and a cancellation seen
\* here overrides the outcome the caller passed in
Finishable(j) == status[j] \in Active

FinalStatus(j, outcome) ==
  IF cancelRequested[j] /\ status[j] = "running" THEN "cancelled" ELSE outcome

\* finish_job, the UPDATE ... WHERE id=? and its event
FinishUpdate(j, final) ==
  /\ Record(j, final, final)
  /\ UNCHANGED cancelRequested

\* Seeded fault: fail_queued without WHERE status='queued'
FailAny(j) ==
  /\ Record(j, "failed", "failed")
  /\ UNCHANGED cancelRequested

\* fail_queued: the UPDATE only touches a queued row, the event is inserted
\* either way
FailQueued(j) ==
  /\ Record(j, IF status[j] = "queued" THEN "failed" ELSE status[j], "failed")
  /\ UNCHANGED cancelRequested

\* Seeded fault: cancel_queued without WHERE status='queued'
CancelAny(j) ==
  /\ Record(j, "cancelled", "cancelled")
  /\ cancelRequested' = [cancelRequested EXCEPT ![j] = TRUE]

\* cancel_queued, when its status-scoped UPDATE matched
CancelQueued(j) ==
  /\ status[j] = "queued"
  /\ Record(j, "cancelled", "cancelled")
  /\ cancelRequested' = [cancelRequested EXCEPT ![j] = TRUE]

\* Seeded fault: request_cancel logs the job as already cancelled
RequestCancelLogsCancelled(j) ==
  /\ status[j] = "running"
  /\ Record(j, "running", "cancelled")
  /\ cancelRequested' = [cancelRequested EXCEPT ![j] = TRUE]

\* request_cancel, when its status-scoped UPDATE matched
RequestCancel(j) ==
  /\ status[j] = "running"
  /\ Record(j, "running", "cancellation requested")
  /\ cancelRequested' = [cancelRequested EXCEPT ![j] = TRUE]

\* mark_interrupted, when its status-scoped UPDATE matched
MarkInterrupted(j) ==
  /\ status[j] = "running"
  /\ Record(j, "failed", "failed")
  /\ UNCHANGED cancelRequested

=============================================================================
