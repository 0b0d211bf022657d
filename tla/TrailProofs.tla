----------------------------- MODULE TrailProofs -----------------------------
(***************************************************************************)
(* Theorems about what the store records, statuses and event trails, about *)
(* what cancel() has achieved when it answers, and the refinement of       *)
(* JobLifecycle.  They rest on the inductive invariant of SupervisorProofs, *)
(* which narrows down what a step can do to a row (StoreStep).             *)
(***************************************************************************)
EXTENDS SupervisorProofs

\* What a step of the system may do to the row of job j.  fail_queued is never
\* called for a running row and finish_job's UPDATE only ever hits one.
StoreStep(j) ==
  \/ CreateJob(j)
  \/ StartJob(j)
  \/ status[j] \in {"queued"} \cup Terminal /\ FailQueued(j)
  \/ CancelQueued(j)
  \/ RequestCancel(j)
  \/ status[j] = "running" /\ \E f \in Terminal : FinishUpdate(j, f)

\* Every step changes the store by one such step, or not at all.
LEMMA StoreSteps ==
  ASSUME IInv, [Next]_vars
  PROVE  UNCHANGED storeVars \/ \E j \in Jobs : StoreStep(j)
<1>1. ASSUME NEW j \in Jobs, Submit(j) \/ StartRunning(j) \/ Finish(j)
      PROVE  StoreStep(j)
  BY <1>1 DEF Submit, StartRunning, Finish, Goto, StoreStep, IInv, BaseInv, RowInv, OwnInv,
              AnswerInv, OutcomeInv
<1>2. ASSUME NEW j \in Jobs, SelectionFails(j) \/ SetupFails(j) \/ LaunchFails(j)
      PROVE  StoreStep(j)
  BY <1>2 DEF SelectionFails, SetupFails, LaunchFails, Goto, StoreStep, IInv, BaseInv, RowInv,
              OwnInv, BeforeStart, Terminal
<1>3. ASSUME NEW j \in Jobs, LateInternalError(j)
      PROVE  StoreStep(j)
  BY <1>3 DEF LateInternalError, StoreStep, IInv, BaseInv, RowInv, OwnInv
<1>4. ASSUME NEW j \in Jobs,
             \/ LoadCapacity(j) \/ (\E s \in Slots : OpenSlot(j, s) \/ TakeSlot(j, s))
             \/ CancelSeenQueued(j)
             \/ SlotGranted(j) \/ Spawn(j) \/ StartRefused(j) \/ WorkerExits(j)
             \/ SeeCancel(j) \/ TimeOut(j) \/ Oversize(j) \/ ReadToEnd(j)
             \/ FinishSelect(j) \/ Reread(j) \/ CleanUp(j)
             \/ InternalError(j) \/ StoreUnavailable(j) \/ Interrupt(j) \/ Crash(j)
      PROVE  UNCHANGED storeVars
  BY <1>4 DEF LoadCapacity, OpenSlot, TakeSlot, CancelSeenQueued, SlotGranted, Spawn, StartRefused,
              WorkerExits, SeeCancel, TimeOut, Oversize, StopEarly, ReadToEnd, FinishSelect,
              Reread, CleanUp, InternalError, StoreUnavailable, Interrupt, Crash, Abandon
<1>5. ASSUME NEW c \in Cancellers, CancelWhileQueued(c) \/ CancelRunning(c)
      PROVE  UNCHANGED storeVars \/ (StoreStep(target[c]) /\ target[c] \in Jobs)
  BY <1>5 DEF CancelWhileQueued, CancelRunning, CancelReturns, CancelGoto, StoreStep,
              IInv, BaseInv, CancelInv
<1>6. ASSUME NEW c \in Cancellers,
             \/ CancelRaced(c) \/ CancelReread(c) \/ CancelKill(c)
             \/ \E j \in Jobs : CancelLookup(c, j)
      PROVE  UNCHANGED storeVars
  BY <1>6 DEF CancelRaced, CancelReread, CancelKill, CancelLookup
<1>7. ASSUME (\E n \in Capacities : SetCapacity(n)) \/ UNCHANGED vars
      PROVE  UNCHANGED storeVars
  BY <1>7 DEF SetCapacity, vars
<1>8. ASSUME NEW j \in Jobs, WaitFails(j)
      PROVE  UNCHANGED storeVars \/ StoreStep(j)
  BY <1>8 DEF WaitFails, Goto, StoreStep, IInv, BaseInv, RowInv, OwnInv, BeforeStart, Terminal
<1> QED
  BY <1>1, <1>2, <1>3, <1>4, <1>5, <1>6, <1>7, <1>8
  DEF Next, RunStep, RunMishap, CancelStep

-----------------------------------------------------------------------------

\* No step of the supervisors or of cancel() changes a terminal status.
LEMMA TerminalKept ==
  ASSUME IInv, [Next]_vars, NEW j \in Jobs, status[j] \in Terminal
  PROVE  status'[j] = status[j]
<1>1. CASE UNCHANGED storeVars  BY <1>1 DEF storeVars
<1>2. ASSUME NEW k \in Jobs, StoreStep(k)
      PROVE  status'[j] = status[j]
  BY <1>2 DEF StoreStep, CreateJob, StartJob, FailQueued, CancelQueued, RequestCancel,
              FinishUpdate, Record, Terminal, IInv, BaseInv, TypeOK, StoreTypeOK
<1> QED  BY <1>1, <1>2, StoreSteps

\* A terminal status is never changed again: by the time finish_job's UPDATE
\* runs, nobody else can have retired the row.
THEOREM TerminalStatusesAreFinal == Spec => TerminalIsFinal
<1>1. IInv /\ [Next]_vars => [\A j \in Jobs : status[j] \in Terminal => status'[j] = status[j]]_vars
  BY TerminalKept
<1> QED  BY <1>1, Inductive, PTL DEF Spec, TerminalIsFinal

-----------------------------------------------------------------------------

NoEvent(j, events) == \A i \in DOMAIN trail[j] : trail[j][i] \notin events

\* A trail holds no terminal event before its job is terminal, no start before
\* its job has run.
TrailInv ==
  /\ FirstTerminalEventIsStatus
  /\ \A j \in Jobs : status[j] \notin Terminal => NoEvent(j, Terminal)
  /\ \A j \in Jobs : status[j] \in {"absent", "queued"} => NoEvent(j, {"started"})

\* What a row update does to trails: one more event in its own.
LEMMA RecordTrail ==
  ASSUME StoreTypeOK, NEW k \in Jobs, NEW s, NEW e \in Events, Record(k, s, e)
  PROVE  /\ \A j \in Jobs : j # k => status'[j] = status[j] /\ trail'[j] = trail[j]
         /\ status'[k] = s
         /\ Len(trail[k]) \in Nat
         /\ DOMAIN trail[k] = 1 .. Len(trail[k])
         /\ DOMAIN trail'[k] = 1 .. Len(trail[k]) + 1
         /\ \A i \in 1 .. Len(trail[k]) : trail'[k][i] = trail[k][i]
         /\ trail'[k][Len(trail[k]) + 1] = e
BY DEF StoreTypeOK, Record

\* Logging an event that is not terminal, with the row staying unsettled.
LEMMA PlainEvent ==
  ASSUME StoreTypeOK, TrailInv, NEW k \in Jobs, status[k] \notin Terminal,
         NEW s, NEW e \in Events, Record(k, s, e), s \notin Terminal, e \notin Terminal,
         s \in {"absent", "queued"} => status[k] \in {"absent", "queued"} /\ e # "started"
  PROVE  TrailInv'
<1> USE RecordTrail
<1>1. FirstTerminalEventIsStatus'
  BY DEF TrailInv, FirstTerminalEventIsStatus
<1>2. \A j \in Jobs : status'[j] \notin Terminal => NoEvent(j, Terminal)'
  BY SMTT(20) DEF TrailInv, NoEvent
<1>3. \A j \in Jobs : status'[j] \in {"absent", "queued"} => NoEvent(j, {"started"})'
  BY DEF TrailInv, NoEvent
<1> QED  BY <1>1, <1>2, <1>3 DEF TrailInv, Terminal

\* The event that settles a row is the first terminal one of its trail.
LEMMA SettlingEvent ==
  ASSUME StoreTypeOK, TrailInv, NEW k \in Jobs, status[k] \notin Terminal,
         NEW s \in Terminal, Record(k, s, s)
  PROVE  TrailInv'
<1>0. s \in Events  BY DEF Events
<1> USE <1>0, RecordTrail
<1>1. FirstTerminalEventIsStatus'
  <2> SUFFICES ASSUME NEW j \in Jobs, status'[j] \in Terminal
               PROVE  \E i \in DOMAIN trail'[j] :
                        /\ trail'[j][i] = status'[j]
                        /\ \A m \in 1 .. i - 1 : trail'[j][m] \notin Terminal
    BY DEF FirstTerminalEventIsStatus
  <2>1. CASE j # k  BY <2>1 DEF TrailInv, FirstTerminalEventIsStatus
  <2>2. CASE j = k
    <3> DEFINE n == Len(trail[k]) + 1
    <3>1. n \in DOMAIN trail'[k] /\ trail'[k][n] = s
      OBVIOUS
    <3>2. \A m \in 1 .. n - 1 : trail'[k][m] \notin Terminal
      BY DEF TrailInv, NoEvent
    <3> QED  BY <2>2, <3>1, <3>2
  <2> QED  BY <2>1, <2>2
<1>2. \A j \in Jobs : status'[j] \notin Terminal => NoEvent(j, Terminal)'
  BY DEF TrailInv, NoEvent
<1>3. \A j \in Jobs : status'[j] \in {"absent", "queued"} => NoEvent(j, {"started"})'
  BY DEF TrailInv, NoEvent, Terminal
<1> QED  BY <1>1, <1>2, <1>3 DEF TrailInv

\* A late event of a settled row does not change which terminal event is first.
LEMMA LateEvent ==
  ASSUME StoreTypeOK, TrailInv, NEW k \in Jobs, status[k] \in Terminal,
         NEW e \in Events, Record(k, status[k], e)
  PROVE  TrailInv'
<1> USE RecordTrail
<1>1. FirstTerminalEventIsStatus'
  <2> SUFFICES ASSUME NEW j \in Jobs, status'[j] \in Terminal
               PROVE  \E i \in DOMAIN trail'[j] :
                        /\ trail'[j][i] = status'[j]
                        /\ \A m \in 1 .. i - 1 : trail'[j][m] \notin Terminal
    BY DEF FirstTerminalEventIsStatus
  <2>1. CASE j # k  BY <2>1 DEF TrailInv, FirstTerminalEventIsStatus
  <2>2. CASE j = k
    <3>1. PICK i \in DOMAIN trail[k] :
            /\ trail[k][i] = status[k]
            /\ \A m \in 1 .. i - 1 : trail[k][m] \notin Terminal
      BY DEF TrailInv, FirstTerminalEventIsStatus
    <3>2. i \in DOMAIN trail'[k] /\ trail'[k][i] = status'[k]
      BY <3>1
    <3>3. \A m \in 1 .. i - 1 : trail'[k][m] \notin Terminal
      BY <3>1
    <3> QED  BY <2>2, <3>2, <3>3
  <2> QED  BY <2>1, <2>2
<1>2. \A j \in Jobs : status'[j] \notin Terminal => NoEvent(j, Terminal)'
  BY DEF TrailInv, NoEvent
<1>3. \A j \in Jobs : status'[j] \in {"absent", "queued"} => NoEvent(j, {"started"})'
  BY DEF TrailInv, NoEvent, Terminal
<1> QED  BY <1>1, <1>2, <1>3 DEF TrailInv

\* The store operations preserve TrailInv.
LEMMA TrailPreserved ==
  ASSUME IInv, TrailInv, NEW k \in Jobs, StoreStep(k)
  PROVE  TrailInv'
<1>1. StoreTypeOK  BY DEF IInv, BaseInv, TypeOK
<1>2. CASE CreateJob(k) \/ StartJob(k) \/ RequestCancel(k)
  BY <1>1, <1>2, PlainEvent DEF CreateJob, StartJob, RequestCancel, Terminal, Events
<1>3. CASE \/ CancelQueued(k)
           \/ status[k] = "running" /\ \E f \in Terminal : FinishUpdate(k, f)
  BY <1>1, <1>3, SettlingEvent DEF CancelQueued, FinishUpdate, Terminal
<1>4. CASE status[k] \in {"queued"} \cup Terminal /\ FailQueued(k)
  <2>1. CASE status[k] = "queued"
    BY <1>1, <1>4, <2>1, SettlingEvent DEF FailQueued, Terminal
  <2>2. CASE status[k] \in Terminal
    <3>1. status[k] # "queued" /\ "failed" \in Events  BY <2>2 DEF Terminal, Events
    <3>2. Record(k, status[k], "failed")  BY <1>4, <3>1 DEF FailQueued, Record
    <3> QED  BY <1>1, <2>2, <3>1, <3>2, LateEvent
  <2> QED  BY <1>4, <2>1, <2>2
<1> QED  BY <1>2, <1>3, <1>4 DEF StoreStep

\* The first terminal event of a job is its status, in every reachable state.
THEOREM TrailsTellTheStatus == Spec => []FirstTerminalEventIsStatus
<1>1. Init => TrailInv
  BY DEF Init, StoreInit, TrailInv, FirstTerminalEventIsStatus, NoEvent, Terminal
<1>2. IInv /\ TrailInv /\ [Next]_vars => TrailInv'
  <2> SUFFICES ASSUME IInv, TrailInv, [Next]_vars PROVE TrailInv'
    OBVIOUS
  <2>1. CASE UNCHANGED storeVars
    BY <2>1 DEF storeVars, TrailInv, FirstTerminalEventIsStatus, NoEvent
  <2> QED  BY <2>1, StoreSteps, TrailPreserved
<1>3. TrailInv => FirstTerminalEventIsStatus  BY DEF TrailInv
<1> QED  BY <1>1, <1>2, <1>3, Inductive, PTL DEF Spec

-----------------------------------------------------------------------------

\* A verdict is there only when cancel() has returned.
VerdictInv ==
  /\ CancelledMeansNeverStarted
  /\ \A c \in Cancellers : cpc[c] # "done" => verdict[c] = None

\* A cancelled row that was never started stays so: only a late failure event
\* can still be added to its trail.
LEMMA NeverStarts ==
  ASSUME IInv, NEW k \in Jobs, StoreStep(k), NEW j \in Jobs,
         status[j] = "cancelled", NoEvent(j, {"started"})
  PROVE  status'[j] = "cancelled" /\ NoEvent(j, {"started"})'
<1>1. StoreTypeOK  BY DEF IInv, BaseInv, TypeOK
<1>2. CASE j # k
  BY <1>1, <1>2 DEF StoreStep, CreateJob, StartJob, FailQueued, CancelQueued, RequestCancel,
              FinishUpdate, Record, StoreTypeOK, NoEvent
<1>3. CASE j = k
  <2>1. FailQueued(k)
    BY <1>3 DEF StoreStep, CreateJob, StartJob, CancelQueued, RequestCancel
  <2>2. Record(k, "cancelled", "failed") /\ "failed" \in Events
    BY <1>3, <2>1 DEF FailQueued, Record, Events, Terminal
  <2> QED  BY <1>1, <1>3, <2>2, RecordTrail DEF NoEvent
<1> QED  BY <1>2, <1>3

\* run() and the worker never touch the state of a cancel() call.
LEMMA RunLeavesCancel ==
  ASSUME NEW j \in Jobs, Submit(j) \/ RunStep(j) \/ RunMishap(j) \/ WorkerExits(j)
  PROVE  UNCHANGED cancelVars
BY DEF RunStep, RunMishap, Submit, SelectionFails, LoadCapacity, OpenSlot, SetupFails, TakeSlot,
       CancelSeenQueued, WaitFails, SlotGranted, Spawn, LaunchFails, StartRunning, StartRefused,
       WorkerExits, SeeCancel, TimeOut, Oversize, StopEarly, ReadToEnd, FinishSelect,
       Finish, Reread, CleanUp, InternalError, LateInternalError,
       StoreUnavailable, Interrupt, Crash, Abandon

\* cancel() answers CANCELLED only for a row it has itself taken off the queue.
LEMMA VerdictPreserved ==
  ASSUME IInv, TrailInv, VerdictInv, [Next]_vars
  PROVE  VerdictInv'
<1>1. \A c \in Cancellers : verdict[c] = "CANCELLED" =>
         /\ cpc[c] = "done" /\ target[c] \in Jobs
         /\ status[target[c]] = "cancelled" /\ NoEvent(target[c], {"started"})
  BY DEF IInv, BaseInv, CancelInv, VerdictInv, CancelledMeansNeverStarted, NoEvent, None
<1>2. ASSUME NEW j \in Jobs, status[j] = "cancelled", NoEvent(j, {"started"})
      PROVE  status'[j] = "cancelled" /\ NoEvent(j, {"started"})'
  <2>1. CASE UNCHANGED storeVars  BY <1>2, <2>1 DEF storeVars, NoEvent
  <2> QED  BY <1>2, <2>1, StoreSteps, NeverStarts
<1>3. CASE UNCHANGED cancelVars
  BY <1>1, <1>2, <1>3 DEF cancelVars, VerdictInv, CancelledMeansNeverStarted, NoEvent
<1>4. ASSUME NEW c \in Cancellers, CancelWhileQueued(c)
      PROVE  VerdictInv'
  <2>1. PICK j \in Jobs : j = target[c] /\ status[j] = "queued" /\ NoEvent(j, {"started"})
    BY <1>4 DEF CancelWhileQueued, CancelReturns, CancelGoto, CancelQueued, IInv, BaseInv,
                CancelInv, TrailInv
  <2>2. Record(j, "cancelled", "cancelled") /\ StoreTypeOK /\ "cancelled" \in Events
    BY <1>4, <2>1 DEF CancelWhileQueued, CancelQueued, IInv, BaseInv, TypeOK, Events, Terminal
  <2>3. status'[j] = "cancelled" /\ NoEvent(j, {"started"})'
    BY <2>1, <2>2, RecordTrail DEF NoEvent
  <2>4. \A d \in Cancellers : d # c => UNCHANGED <<cpc[d], verdict[d], target[d]>>
    BY <1>4 DEF CancelWhileQueued, CancelReturns, CancelGoto, IInv, BaseInv, TypeOK
  <2>5. target'[c] = j /\ cpc'[c] = "done"
    BY <1>4, <2>1 DEF CancelWhileQueued, CancelReturns, CancelGoto, IInv, BaseInv, TypeOK
  <2> QED
    BY <1>1, <1>2, <2>3, <2>4, <2>5 DEF VerdictInv, CancelledMeansNeverStarted, NoEvent
<1>5. ASSUME NEW c \in Cancellers,
             \/ CancelRaced(c) \/ CancelReread(c) \/ CancelRunning(c) \/ CancelKill(c)
             \/ \E j \in Jobs : CancelLookup(c, j)
      PROVE  VerdictInv'
  <2>1. \A d \in Cancellers : d # c => UNCHANGED <<cpc[d], verdict[d], target[d]>>
    BY <1>5 DEF CancelRaced, CancelReread, CancelRunning, CancelKill, CancelLookup,
                CancelReturns, CancelGoto, IInv, BaseInv, TypeOK
  <2>2. verdict'[c] # "CANCELLED" /\ (cpc'[c] # "done" => verdict'[c] = None)
    BY <1>1, <1>5 DEF CancelRaced, CancelReread, CancelRunning, CancelKill, CancelLookup,
                CancelReturns, CancelGoto, IInv, BaseInv, TypeOK, VerdictInv, Active
  <2> QED
    BY <1>1, <1>2, <2>1, <2>2 DEF VerdictInv, CancelledMeansNeverStarted, NoEvent
<1>6. ASSUME NEW j \in Jobs, Submit(j) \/ RunStep(j) \/ RunMishap(j) \/ WorkerExits(j)
      PROVE  UNCHANGED cancelVars
  BY <1>6, RunLeavesCancel
<1>7. ASSUME (\E n \in Capacities : SetCapacity(n)) \/ UNCHANGED vars
      PROVE  UNCHANGED cancelVars
  BY <1>7 DEF SetCapacity, vars
<1> QED  BY <1>3, <1>4, <1>5, <1>6, <1>7 DEF Next, CancelStep

\* A job reported as CANCELLED by cancel() was taken off the queue for good.
THEOREM CancelledJobsNeverStart == Spec => []CancelledMeansNeverStarted
<1>1. Init => TrailInv /\ VerdictInv
  BY DEF Init, StoreInit, TrailInv, FirstTerminalEventIsStatus, NoEvent, Terminal,
         VerdictInv, CancelledMeansNeverStarted, None
<1>2. IInv /\ TrailInv /\ [Next]_vars => TrailInv'
  BY StoreSteps, TrailPreserved DEF storeVars, TrailInv, FirstTerminalEventIsStatus, NoEvent
<1>3. IInv /\ TrailInv /\ VerdictInv /\ [Next]_vars => VerdictInv'
  BY VerdictPreserved
<1>4. VerdictInv => CancelledMeansNeverStarted  BY DEF VerdictInv
<1> QED  BY <1>1, <1>2, <1>3, <1>4, Inductive, PTL DEF Spec

-----------------------------------------------------------------------------

\* run() has been past start_job, or has ended without getting there
PastStart(j) == pc[j] \notin BeforeStart \cup {"idle"}

\* Once a running job is being signalled its run() never launches a worker again.
StopInv ==
  /\ \A c \in Cancellers : cpc[c] = "kill" => PastStart(target[c])
  /\ \A c \in Cancellers : verdict[c] = "CANCEL_REQUESTED" =>
       PastStart(target[c]) /\ worker[target[c]] # "alive"
  /\ \A c \in Cancellers : cpc[c] # "done" => verdict[c] = None

\* run() only moves forward, and only Spawn brings a worker to life.
LEMMA StaysStopped ==
  ASSUME IInv, [Next]_vars, NEW j \in Jobs, PastStart(j)
  PROVE  PastStart(j)' /\ (worker[j] # "alive" => worker'[j] # "alive")
<1> USE DEF PastStart, BeforeStart, Goto
<1>1. ASSUME NEW k \in Jobs, Submit(k) \/ RunStep(k)
      PROVE  PastStart(j)' /\ (worker[j] # "alive" => worker'[j] # "alive")
  BY <1>1 DEF IInv, BaseInv, TypeOK, Submit, RunStep, LoadCapacity, OpenSlot, TakeSlot,
              CancelSeenQueued, SlotGranted, Spawn, StartRunning, StartRefused, SeeCancel, TimeOut,
              StopEarly, ReadToEnd,
              FinishSelect, Finish, Reread, CleanUp, Terminate
<1>2. ASSUME NEW k \in Jobs, RunMishap(k) \/ WorkerExits(k)
      PROVE  PastStart(j)' /\ (worker[j] # "alive" => worker'[j] # "alive")
  BY <1>2 DEF IInv, BaseInv, TypeOK, RunMishap, SelectionFails, SetupFails, WaitFails, LaunchFails,
              Oversize, StopEarly, InternalError, LateInternalError, StoreUnavailable, Interrupt,
              Crash,
              Abandon, WorkerExits, Terminate, runVars
<1>3. ASSUME NEW c \in Cancellers, CancelStep(c) \/ \E k \in Jobs : CancelLookup(c, k)
      PROVE  PastStart(j)' /\ (worker[j] # "alive" => worker'[j] # "alive")
  BY <1>3 DEF IInv, BaseInv, TypeOK, CancelStep, CancelWhileQueued, CancelRaced, CancelReread,
              CancelRunning, CancelKill, CancelLookup, runVars
<1>4. CASE (\E n \in Capacities : SetCapacity(n)) \/ UNCHANGED vars
  BY <1>4 DEF SetCapacity, vars, runVars
<1> QED  BY <1>1, <1>2, <1>3, <1>4 DEF Next

\* A cancel() that has flagged a running job and signalled its worker leaves no
\* worker behind.
LEMMA StopPreserved ==
  ASSUME IInv, StopInv, [Next]_vars
  PROVE  StopInv'
<1>1. \A c \in Cancellers : cpc[c] # "idle" => target[c] \in Jobs
  BY DEF IInv, BaseInv, CancelInv
<1>2. \A c \in Cancellers : verdict[c] = "CANCEL_REQUESTED" => cpc[c] = "done"
  BY DEF StopInv, None
<1>3. CASE UNCHANGED cancelVars
  BY <1>1, <1>2, <1>3, StaysStopped DEF StopInv, PastStart, cancelVars
<1>4. ASSUME NEW c \in Cancellers, CancelStep(c) \/ \E j \in Jobs : CancelLookup(c, j)
      PROVE  StopInv'
  <2>1. \A d \in Cancellers : d # c => UNCHANGED <<cpc[d], verdict[d], target[d]>>
    BY <1>4 DEF CancelStep, CancelWhileQueued, CancelRaced, CancelReread, CancelRunning, CancelKill,
                CancelLookup, CancelReturns, CancelGoto, IInv, BaseInv, TypeOK
  <2>2. CASE CancelRunning(c)
    <3>1. target'[c] = target[c] /\ target[c] \in Jobs /\ pc' = pc
      BY <1>1, <2>2 DEF CancelRunning, CancelReturns, CancelGoto, runVars
    <3>2. cpc'[c] = "kill" => PastStart(target[c])
      BY <2>2, <3>1 DEF CancelRunning, CancelReturns, CancelGoto, RequestCancel, IInv, BaseInv,
                        TypeOK, RowInv, OwnInv, PastStart
    <3>3. verdict'[c] # "CANCEL_REQUESTED" /\ (cpc'[c] # "done" => verdict'[c] = None)
      BY <2>2 DEF CancelRunning, CancelReturns, CancelGoto, IInv, BaseInv, TypeOK, StopInv, None
    <3> QED
      BY <1>1, <1>2, <2>1, <3>1, <3>2, <3>3, StaysStopped DEF StopInv, PastStart
  <2>3. CASE CancelKill(c)
    <3>1. /\ cpc[c] = "kill" /\ cpc'[c] = "done"
          /\ target'[c] = target[c] /\ target[c] \in Jobs /\ pc' = pc
          /\ worker'[target[c]] # "alive"
      BY <1>1, <2>3 DEF CancelKill, CancelReturns, CancelGoto, IInv, BaseInv, TypeOK, runVars
    <3> QED
      BY <1>1, <1>2, <2>1, <3>1, StaysStopped DEF StopInv, PastStart
  <2>4. CASE \/ CancelWhileQueued(c) \/ CancelRaced(c) \/ CancelReread(c)
             \/ \E j \in Jobs : CancelLookup(c, j)
    <3>1. /\ cpc'[c] # "kill" /\ verdict'[c] # "CANCEL_REQUESTED"
          /\ cpc'[c] # "done" => verdict'[c] = None
      BY <2>4 DEF CancelWhileQueued, CancelRaced, CancelReread, CancelLookup, CancelReturns,
                  CancelGoto, IInv, BaseInv, TypeOK, StopInv, None, Active
    <3> QED
      BY <1>1, <1>2, <2>1, <3>1, StaysStopped DEF StopInv, PastStart
  <2> QED  BY <1>4, <2>2, <2>3, <2>4 DEF CancelStep
<1>5. ASSUME NEW j \in Jobs, Submit(j) \/ RunStep(j) \/ RunMishap(j) \/ WorkerExits(j)
      PROVE  UNCHANGED cancelVars
  BY <1>5, RunLeavesCancel
<1>6. ASSUME (\E n \in Capacities : SetCapacity(n)) \/ UNCHANGED vars
      PROVE  UNCHANGED cancelVars
  BY <1>6 DEF SetCapacity, vars
<1> QED  BY <1>3, <1>4, <1>5, <1>6 DEF Next

\* A cancel() that answered CANCEL_REQUESTED has stopped the worker for good, even
\* when the job's supervisor has been interrupted or killed.
THEOREM CancelRequestsStopWorkers == Spec => []CancelRequestedStopsWorker
<1>1. Init => StopInv  BY DEF Init, StopInv, None
<1>2. IInv /\ StopInv /\ [Next]_vars => StopInv'  BY StopPreserved
<1>3. StopInv => CancelRequestedStopsWorker
  BY DEF StopInv, CancelRequestedStopsWorker
<1> QED  BY <1>1, <1>2, <1>3, Inductive, PTL DEF Spec

-----------------------------------------------------------------------------
(* Supervisor implements JobLifecycle, for every set of jobs and cancellers, *)
(* when the job store can be written.                                        *)

\* The answers visible to submitters: the refinement mapping of Lifecycle!told.
Told == [j \in Jobs |-> IF pc[j] = "returned" THEN answer[j] ELSE None]

\* Only two actions end run() with an answer, all others leave Told alone.
LEMMA Answers ==
  ASSUME IInv, [Next]_vars, ~ \E j \in Jobs : SelectionFails(j) \/ CleanUp(j)
  PROVE  Told' = Told
<1> USE DEF Told
<1>1. UNCHANGED <<pc, answer>> => Told' = Told
  OBVIOUS
<1>2. ASSUME NEW j \in Jobs, pc[j] # "returned",
             \A k \in Jobs \ {j} : UNCHANGED <<pc[k], answer[k]>>, pc'[j] # "returned"
      PROVE  Told' = Told
  BY <1>2
<1>3. ASSUME NEW j \in Jobs,
             \/ Submit(j) \/ LoadCapacity(j) \/ SetupFails(j)
             \/ (\E s \in Slots : OpenSlot(j, s) \/ TakeSlot(j, s))
             \/ CancelSeenQueued(j) \/ WaitFails(j) \/ SlotGranted(j) \/ Spawn(j) \/ LaunchFails(j)
             \/ StartRunning(j) \/ StartRefused(j)
      PROVE  Told' = Told
  BY <1>2, <1>3 DEF Submit, LoadCapacity, OpenSlot, SetupFails, TakeSlot, CancelSeenQueued,
       WaitFails,
       SlotGranted, Spawn, LaunchFails, StartRunning, StartRefused, Goto, Answer, IInv, BaseInv,
       TypeOK
<1>4. ASSUME NEW j \in Jobs,
             \/ SeeCancel(j) \/ TimeOut(j) \/ Oversize(j) \/ ReadToEnd(j)
             \/ FinishSelect(j) \/ Finish(j) \/ Reread(j)
      PROVE  Told' = Told
  BY <1>2, <1>4 DEF SeeCancel, TimeOut, Oversize, StopEarly, ReadToEnd, FinishSelect, Finish,
       Reread, Goto, Answer, IInv, BaseInv, TypeOK
<1>5. ASSUME NEW j \in Jobs,
             \/ InternalError(j) \/ LateInternalError(j) \/ StoreUnavailable(j)
             \/ Interrupt(j) \/ Crash(j)
      PROVE  Told' = Told
  BY <1>2, <1>5 DEF InternalError, LateInternalError, StoreUnavailable, Interrupt, Crash, Abandon,
       Gone, Goto, Answer, IInv, BaseInv, TypeOK
<1>6. ASSUME NEW j \in Jobs, WorkerExits(j)
      PROVE  UNCHANGED <<pc, answer>>
  BY <1>6 DEF WorkerExits, runVars
<1>7. ASSUME NEW c \in Cancellers, CancelStep(c) \/ \E j \in Jobs : CancelLookup(c, j)
      PROVE  UNCHANGED <<pc, answer>>
  BY <1>7 DEF CancelStep, CancelWhileQueued, CancelRaced, CancelReread, CancelRunning,
       CancelKill, CancelLookup, runVars
<1>8. ASSUME (\E n \in Capacities : SetCapacity(n)) \/ UNCHANGED vars
      PROVE  UNCHANGED <<pc, answer>>
  BY <1>8 DEF SetCapacity, vars, runVars
<1> QED  BY <1>1, <1>3, <1>4, <1>5, <1>6, <1>7, <1>8 DEF Next, RunStep, RunMishap

\* A step on the store moves the phase of its row along the lifecycle, or not.
LEMMA Moves ==
  ASSUME IInv, NEW j \in Jobs, StoreStep(j)
  PROVE  status' = status \/ Lifecycle!Move(j)
<1> USE DEF Record, Lifecycle!Move, Lifecycle!After
<1>1. status \in [Jobs -> Statuses]  BY DEF IInv, BaseInv, TypeOK, StoreTypeOK
<1>2. CASE CreateJob(j) \/ StartJob(j) \/ CancelQueued(j)
  BY <1>1, <1>2 DEF CreateJob, StartJob, CancelQueued
<1>3. CASE status[j] = "queued" /\ FailQueued(j)
  BY <1>1, <1>3 DEF FailQueued
<1>4. CASE status[j] # "queued" /\ FailQueued(j)
  BY <1>1, <1>4 DEF FailQueued
<1>5. CASE RequestCancel(j)
  BY <1>1, <1>5 DEF RequestCancel
<1>6. CASE status[j] = "running" /\ \E f \in Terminal : FinishUpdate(j, f)
  BY <1>1, <1>6 DEF FinishUpdate
<1> QED  BY <1>2, <1>3, <1>4, <1>5, <1>6 DEF StoreStep

\* The job's row follows queued -> running -> terminal and its submitter is
\* answered at most once, truthfully, and not before the row is terminal.
THEOREM SupervisorImplementsLifecycle ==
  ASSUME "store" \notin Faults
  PROVE  Spec => ImplementsLifecycle
<1>1. Init => Lifecycle!Init
  BY DEF Init, StoreInit, Lifecycle!Init
<1>2. IInv /\ [Next]_vars => [Lifecycle!Next]_(Lifecycle!lifecycleVars)
  <2> SUFFICES ASSUME IInv, [Next]_vars
               PROVE  Lifecycle!Next \/ (status' = status /\ Told' = Told)
    BY DEF Lifecycle!lifecycleVars, Told
  <2>1. CASE ~ \E j \in Jobs : SelectionFails(j) \/ CleanUp(j)
    BY <2>1, Answers, StoreSteps, Moves DEF Lifecycle!Next, Told, storeVars
  <2>2. ASSUME NEW j \in Jobs, SelectionFails(j)
        PROVE  Lifecycle!Next
    <3>1. status' = status \/ Lifecycle!Move(j)
      BY <2>2, Moves DEF SelectionFails, Goto, StoreStep, IInv, BaseInv, RowInv, OwnInv,
                         BeforeStart, Terminal
    <3>2. status'[j] \in Terminal
      BY <2>2 DEF SelectionFails, FailQueued, Record, Goto, IInv, BaseInv, TypeOK, StoreTypeOK,
                  RowInv, OwnInv,
                  BeforeStart, Terminal
    <3>3. Told[j] = None /\ Told' = [Told EXCEPT ![j] = "failed"]
      BY <2>2 DEF SelectionFails, Goto, Answer, Told, IInv, BaseInv, TypeOK
    <3> QED  BY <3>1, <3>2, <3>3 DEF Lifecycle!Next, Lifecycle!Tell, Told
  <2>3. ASSUME NEW j \in Jobs, CleanUp(j)
        PROVE  Lifecycle!Next
    <3>1. status' = status /\ status[j] \in Terminal /\ answer[j] \in {status[j], "failed"}
      BY <2>3 DEF CleanUp, Goto, storeVars, IInv, BaseInv, RowInv, OwnInv, AnswerInv, OutcomeInv
    <3>2. Told[j] = None /\ Told' = [Told EXCEPT ![j] = answer[j]]
      BY <2>3 DEF CleanUp, Goto, Told, IInv, BaseInv, TypeOK
    <3> QED  BY <3>1, <3>2 DEF Lifecycle!Next, Lifecycle!Tell, Told
  <2> QED  BY <2>1, <2>2, <2>3
<1> QED  BY <1>1, <1>2, Inductive, PTL DEF Spec, ImplementsLifecycle, Lifecycle!Spec

=============================================================================
