--------------------------- MODULE SupervisorProofs ---------------------------
(***************************************************************************)
(* Theorems about Supervisor, for every set of jobs and cancellers, every  *)
(* capacity and every combination of faults.                               *)
(***************************************************************************)
EXTENDS Supervisor, TLAPS

-----------------------------------------------------------------------------
(* The inductive invariant, in named parts. *)

BeforeStart == {"created", "opening", "waiting", "locked", "prepared", "spawned"}

\* A supervisor between its flock and its finally block holds a slot it opened,
\* nobody else's slots are held, and from the wait on all its slot files exist.
SlotInv ==
  /\ SlotsHeldOnlyWhileRunning
  /\ \A j \in Jobs : pc[j] \in HoldingSlot =>
       \E s \in Slots : s < cap[j] /\ holder[s] = j
  /\ \A j \in Jobs : pc[j] \in HoldingSlot \cup {"waiting"} =>
       \A s \in Slots : s < cap[j] => s \in files

\* A worker lives only while run() is at a point that will terminate or await it,
\* or after its supervisor has died.
WorkerInv ==
  \A j \in Jobs : worker[j] = "alive" =>
    pc[j] \in {"spawned", "talking", "interrupted", "crashed"}

\* What the row can say at each point of run(), also when somebody else settles a
\* running row, as the dashboard's recovery may.
RowInv ==
  \A j \in Jobs :
    /\ pc[j] = "idle" => status[j] = "absent" /\ ~cancelRequested[j]
    /\ pc[j] \notin {"idle", "crashed"} => status[j] # "absent"
    /\ pc[j] \in BeforeStart =>
         \/ status[j] = "queued" /\ ~cancelRequested[j]
         \/ status[j] = "cancelled"
    /\ pc[j] \in {"talking", "classified", "writing"} => status[j] \in Terminal \cup {"running"}
    /\ pc[j] = "written" => status[j] \in Terminal
    /\ pc[j] \in {"cleanup", "returned"} => status[j] \in Terminal \/ "store" \in Faults

\* What run() has computed when it comes to finish_job.
OutcomeInv ==
  \A j \in Jobs :
    /\ pc[j] \in {"classified", "writing"} => outcome[j] \in Terminal
    /\ pc[j] = "writing" => final[j] \in Terminal

\* A cancel() call past its first read has a job.
CancelInv == \A c \in Cancellers : cpc[c] # "idle" => target[c] \in Jobs

\* What does not depend on who settles rows.
BaseInv ==
  /\ TypeOK
  /\ SlotInv
  /\ WorkerInv
  /\ RowInv
  /\ OutcomeInv
  /\ CancelInv

\* Without a recovery, a started row is in the hands of its supervisor alone.
OwnInv ==
  \A j \in Jobs : pc[j] \in {"talking", "classified", "writing"} => status[j] = "running"

\* What run() is going to return at each of its points.
AnswerInv ==
  \A j \in Jobs :
    /\ pc[j] \in BeforeStart \cup {"idle", "talking"} => answer[j] = None
    /\ pc[j] \in {"classified", "writing", "written"} => answer[j] \in {None, "failed"}
    /\ pc[j] \in {"cleanup", "returned"} =>
         /\ answer[j] \in {status[j], "failed"}
         /\ answer[j] # "failed" => status[j] \in Terminal

IInv == BaseInv /\ OwnInv /\ AnswerInv

-----------------------------------------------------------------------------
(* Lemmas: each action preserves the base of the inductive invariant. *)

\* A row update keeps the store well-typed.
LEMMA RecordType ==
  ASSUME StoreTypeOK, NEW j \in Jobs, NEW s \in Statuses, NEW e \in Events, Record(j, s, e)
  PROVE  /\ status' \in [Jobs -> Statuses]
         /\ trail' \in [Jobs -> Seq(Events)]
BY DEF StoreTypeOK, Record

\* A loaded capacity is a number, 0 before that.
LEMMA CapacityType ==
  ASSUME TypeOK
  PROVE  capacity \in Nat /\ \A j \in Jobs : cap[j] \in Nat
<1>1. capacity \in Capacities /\ \A j \in Jobs : cap[j] \in Capacities \cup {0}
  BY DEF TypeOK
<1>2. \A n \in Capacities : n \in Nat
  BY SlotsAssumption
<1> QED  BY <1>1, <1>2

\* The initial states satisfy the base.
LEMMA BaseInit == Init => BaseInv
<1> SUFFICES ASSUME Init PROVE BaseInv
  OBVIOUS
<1> USE DEF Init, StoreInit
<1>1. StoreTypeOK  BY DEF StoreTypeOK, Statuses
<1>2. TypeOK  BY <1>1, SlotsAssumption DEF TypeOK, Points, Verdicts
<1>3. SlotInv /\ WorkerInv
  BY HoldersAssumption DEF SlotInv, WorkerInv, SlotsHeldOnlyWhileRunning, HoldingSlot, None
<1>4. RowInv /\ OutcomeInv /\ CancelInv
  BY DEF RowInv, OutcomeInv, CancelInv, BeforeStart
<1> QED  BY <1>2, <1>3, <1>4 DEF BaseInv

\* Up to the launch of the worker: the row is queued or already cancelled.
LEMMA LaunchPreserves ==
  ASSUME BaseInv, NEW j \in Jobs,
            \/ Submit(j)
            \/ SelectionFails(j)
            \/ LoadCapacity(j)
            \/ (\E s \in Slots : OpenSlot(j, s))
            \/ SetupFails(j)
            \/ (\E s \in Slots : TakeSlot(j, s))
            \/ CancelSeenQueued(j)
            \/ SlotGranted(j)
            \/ Spawn(j)
            \/ LaunchFails(j)
            \/ StartRunning(j)
            \/ StartRefused(j)
            \/ WaitFails(j)
  PROVE  BaseInv'
<1>1. CASE Submit(j)
  <2> USE <1>1 DEF Submit, Goto, CreateJob, Record
  <2>0. StoreTypeOK'
    BY RecordType DEF BaseInv, TypeOK, RowInv, OutcomeInv, StoreTypeOK, Statuses, Events, Active,
                      Terminal
  <2>1. TypeOK'  BY <2>0 DEF BaseInv, TypeOK, Points, HoldingSlot, Terminal, Gone, cancelVars
  <2>2. SlotInv' /\ WorkerInv'
    BY DEF BaseInv, TypeOK, SlotInv, WorkerInv, SlotsHeldOnlyWhileRunning, HoldingSlot, Gone
  <2>3. RowInv' /\ OutcomeInv'
    BY DEF BaseInv, TypeOK, RowInv, OutcomeInv, StoreTypeOK, storeVars, BeforeStart, Terminal, Gone
  <2> QED  BY <2>1, <2>2, <2>3 DEF BaseInv, CancelInv, cancelVars
<1>2. CASE SelectionFails(j)
  <2> USE <1>2 DEF SelectionFails, Goto, FailQueued, Record, Answer
  <2>0. StoreTypeOK'
    BY RecordType DEF BaseInv, TypeOK, RowInv, OutcomeInv, StoreTypeOK, Statuses, Events, Active,
                      Terminal
  <2>1. TypeOK'  BY <2>0 DEF BaseInv, TypeOK, Points, HoldingSlot, Terminal, Gone, cancelVars
  <2>2. SlotInv' /\ WorkerInv'
    BY DEF BaseInv, TypeOK, SlotInv, WorkerInv, SlotsHeldOnlyWhileRunning, HoldingSlot, Gone
  <2>3. RowInv' /\ OutcomeInv'
    BY DEF BaseInv, TypeOK, RowInv, OutcomeInv, StoreTypeOK, storeVars, BeforeStart, Terminal, Gone
  <2> QED  BY <2>1, <2>2, <2>3 DEF BaseInv, CancelInv, cancelVars
<1>3. CASE LoadCapacity(j)
  <2> USE <1>3 DEF LoadCapacity, Goto
  <2>1. TypeOK'
    BY SlotsAssumption DEF BaseInv, TypeOK, StoreTypeOK, storeVars, Points, HoldingSlot, Terminal,
                           Gone, cancelVars
  <2>2. SlotInv' /\ WorkerInv'
    BY DEF BaseInv, TypeOK, SlotInv, WorkerInv, SlotsHeldOnlyWhileRunning, HoldingSlot, Gone
  <2>3. RowInv' /\ OutcomeInv'
    BY DEF BaseInv, TypeOK, RowInv, OutcomeInv, StoreTypeOK, storeVars, BeforeStart, Terminal, Gone
  <2> QED  BY <2>1, <2>2, <2>3 DEF BaseInv, CancelInv, cancelVars
<1>4. CASE SetupFails(j)
  <2> USE <1>4 DEF SetupFails, Goto, FailQueued, Record, Answer
  <2>0. StoreTypeOK'
    BY RecordType DEF BaseInv, TypeOK, RowInv, OutcomeInv, StoreTypeOK, Statuses, Events, Active,
                      Terminal
  <2>1. TypeOK'  BY <2>0 DEF BaseInv, TypeOK, Points, HoldingSlot, Terminal, Gone, cancelVars
  <2>2. SlotInv' /\ WorkerInv'
    BY DEF BaseInv, TypeOK, SlotInv, WorkerInv, SlotsHeldOnlyWhileRunning, HoldingSlot, Gone
  <2>3. RowInv' /\ OutcomeInv'
    BY DEF BaseInv, TypeOK, RowInv, OutcomeInv, StoreTypeOK, storeVars, BeforeStart, Terminal, Gone
  <2> QED  BY <2>1, <2>2, <2>3 DEF BaseInv, CancelInv, cancelVars
<1>5. CASE (\E s \in Slots : TakeSlot(j, s))
  <2>0. PICK s \in Slots : TakeSlot(j, s)
    BY <1>5
  <2> USE <2>0 DEF TakeSlot, Goto
  <2>1. TypeOK'
    BY DEF BaseInv, TypeOK, StoreTypeOK, storeVars, Points, HoldingSlot, Terminal, Gone, cancelVars
  <2>2. SlotInv' /\ WorkerInv'
    BY HoldersAssumption DEF BaseInv, TypeOK, SlotInv, WorkerInv, SlotsHeldOnlyWhileRunning,
                             HoldingSlot, Gone
  <2>3. RowInv' /\ OutcomeInv'
    BY DEF BaseInv, TypeOK, RowInv, OutcomeInv, StoreTypeOK, storeVars, BeforeStart, Terminal, Gone
  <2> QED  BY <2>1, <2>2, <2>3 DEF BaseInv, CancelInv, cancelVars
<1>6. CASE CancelSeenQueued(j)
  <2> USE <1>6 DEF CancelSeenQueued, Goto, Answer, Unlock
  <2>1. TypeOK'
    BY DEF BaseInv, TypeOK, StoreTypeOK, storeVars, Points, HoldingSlot, Terminal, Gone, cancelVars
  <2>2. SlotInv' /\ WorkerInv'
    BY HoldersAssumption DEF BaseInv, TypeOK, SlotInv, WorkerInv, SlotsHeldOnlyWhileRunning,
                             HoldingSlot, Gone
  <2>3. RowInv' /\ OutcomeInv'
    BY DEF BaseInv, TypeOK, RowInv, OutcomeInv, StoreTypeOK, storeVars, BeforeStart, Terminal, Gone
  <2> QED  BY <2>1, <2>2, <2>3 DEF BaseInv, CancelInv, cancelVars
<1>7. CASE SlotGranted(j)
  <2> USE <1>7 DEF SlotGranted, Goto
  <2>1. TypeOK'
    BY DEF BaseInv, TypeOK, StoreTypeOK, storeVars, Points, HoldingSlot, Terminal, Gone, cancelVars
  <2>2. SlotInv' /\ WorkerInv'
    BY DEF BaseInv, TypeOK, SlotInv, WorkerInv, SlotsHeldOnlyWhileRunning, HoldingSlot, Gone
  <2>3. RowInv' /\ OutcomeInv'
    BY DEF BaseInv, TypeOK, RowInv, OutcomeInv, StoreTypeOK, storeVars, BeforeStart, Terminal, Gone
  <2> QED  BY <2>1, <2>2, <2>3 DEF BaseInv, CancelInv, cancelVars
<1>8. CASE Spawn(j)
  <2> USE <1>8 DEF Spawn, Goto
  <2>1. TypeOK'
    BY DEF BaseInv, TypeOK, StoreTypeOK, storeVars, Points, HoldingSlot, Terminal, Gone, cancelVars
  <2>2. SlotInv' /\ WorkerInv'
    BY DEF BaseInv, TypeOK, SlotInv, WorkerInv, SlotsHeldOnlyWhileRunning, HoldingSlot, Gone
  <2>3. RowInv' /\ OutcomeInv'
    BY DEF BaseInv, TypeOK, RowInv, OutcomeInv, StoreTypeOK, storeVars, BeforeStart, Terminal, Gone
  <2> QED  BY <2>1, <2>2, <2>3 DEF BaseInv, CancelInv, cancelVars
<1>9. CASE LaunchFails(j)
  <2> USE <1>9 DEF LaunchFails, Goto, FailQueued, Record, Terminate, Answer
  <2>0. StoreTypeOK'
    BY RecordType DEF BaseInv, TypeOK, RowInv, OutcomeInv, StoreTypeOK, Statuses, Events, Active,
                      Terminal
  <2>1. TypeOK'  BY <2>0 DEF BaseInv, TypeOK, Points, HoldingSlot, Terminal, Gone, cancelVars
  <2>2. SlotInv' /\ WorkerInv'
    BY DEF BaseInv, TypeOK, SlotInv, WorkerInv, SlotsHeldOnlyWhileRunning, HoldingSlot, Gone
  <2>3. RowInv' /\ OutcomeInv'
    BY DEF BaseInv, TypeOK, RowInv, OutcomeInv, StoreTypeOK, storeVars, BeforeStart, Terminal, Gone
  <2> QED  BY <2>1, <2>2, <2>3 DEF BaseInv, CancelInv, cancelVars
<1>10. CASE StartRunning(j)
  <2> USE <1>10 DEF StartRunning, Goto, StartJob, Record
  <2>0. StoreTypeOK'
    BY RecordType DEF BaseInv, TypeOK, RowInv, OutcomeInv, StoreTypeOK, Statuses, Events, Active,
                      Terminal
  <2>1. TypeOK'  BY <2>0 DEF BaseInv, TypeOK, Points, HoldingSlot, Terminal, Gone, cancelVars
  <2>2. SlotInv' /\ WorkerInv'
    BY DEF BaseInv, TypeOK, SlotInv, WorkerInv, SlotsHeldOnlyWhileRunning, HoldingSlot, Gone
  <2>3. RowInv' /\ OutcomeInv'
    BY DEF BaseInv, TypeOK, RowInv, OutcomeInv, StoreTypeOK, storeVars, BeforeStart, Terminal, Gone
  <2> QED  BY <2>1, <2>2, <2>3 DEF BaseInv, CancelInv, cancelVars
<1>11. CASE StartRefused(j)
  <2> USE <1>11 DEF StartRefused, Goto, Terminate, Answer
  <2>1. TypeOK'
    BY DEF BaseInv, TypeOK, StoreTypeOK, storeVars, Points, HoldingSlot, Terminal, Gone, cancelVars
  <2>2. SlotInv' /\ WorkerInv'
    BY DEF BaseInv, TypeOK, SlotInv, WorkerInv, SlotsHeldOnlyWhileRunning, HoldingSlot, Gone
  <2>3. RowInv' /\ OutcomeInv'
    BY DEF BaseInv, TypeOK, RowInv, OutcomeInv, StoreTypeOK, storeVars, BeforeStart, Terminal, Gone
  <2> QED  BY <2>1, <2>2, <2>3 DEF BaseInv, CancelInv, cancelVars
<1>12. CASE WaitFails(j)
  <2> USE <1>12 DEF WaitFails, Goto, FailQueued, Record, Answer, Unlock
  <2>0. StoreTypeOK'
    BY RecordType DEF BaseInv, TypeOK, StoreTypeOK, storeVars, Statuses, Events, Active, Terminal
  <2>1. TypeOK'  BY <2>0 DEF BaseInv, TypeOK, Points, HoldingSlot, Terminal, Gone, cancelVars
  <2>2. SlotInv' /\ WorkerInv'
    BY HoldersAssumption DEF BaseInv, TypeOK, SlotInv, WorkerInv, SlotsHeldOnlyWhileRunning,
                             HoldingSlot, Gone
  <2>3. RowInv' /\ OutcomeInv'
    BY DEF BaseInv, TypeOK, RowInv, OutcomeInv, StoreTypeOK, storeVars, BeforeStart, Terminal, Gone
  <2> QED  BY <2>1, <2>2, <2>3 DEF BaseInv, CancelInv, cancelVars
<1>13. CASE (\E s \in Slots : OpenSlot(j, s))
  <2>0. PICK s \in Slots : OpenSlot(j, s)
    BY <1>13
  <2> USE <2>0 DEF OpenSlot, Goto
  <2>1. TypeOK'
    BY DEF BaseInv, TypeOK, StoreTypeOK, storeVars, Points, HoldingSlot, Terminal, Gone, cancelVars
  <2>2. \A r \in Slots : pc'[j] = "waiting" /\ r < cap[j] => r \in files'
    <3>1. \A r \in Slots : r \in 0 .. s - 1 \/ r >= s
      BY SlotsAssumption DEF Slots
    <3>2. pc'[j] = "waiting" => s = cap[j] - 1
      BY DEF BaseInv, TypeOK
    <3>3. \A r \in Slots : r >= s /\ r < cap[j] /\ s = cap[j] - 1 => r = s
      <4>1. cap[j] \in Nat  BY CapacityType DEF BaseInv
      <4> QED  BY <4>1, SlotsAssumption DEF Slots
    <3> QED  BY <3>1, <3>2, <3>3
  <2>3. SlotInv' /\ WorkerInv'
    BY <2>2 DEF BaseInv, TypeOK, SlotInv, WorkerInv, SlotsHeldOnlyWhileRunning, HoldingSlot, Gone
  <2>4. RowInv' /\ OutcomeInv'
    BY DEF BaseInv, TypeOK, RowInv, OutcomeInv, StoreTypeOK, storeVars, BeforeStart, Terminal, Gone
  <2> QED  BY <2>1, <2>3, <2>4 DEF BaseInv, CancelInv, cancelVars
<1> QED
  BY <1>1, <1>2, <1>3, <1>4, <1>5, <1>6, <1>7, <1>8, <1>9, <1>10, <1>11, <1>12, <1>13

\* From the running worker to the returned result: the row is running until
\* finish_job's UPDATE, whose caller is the only one to write it.
LEMMA CollectPreserves ==
  ASSUME BaseInv, NEW j \in Jobs,
            \/ WorkerExits(j)
            \/ SeeCancel(j)
            \/ TimeOut(j)
            \/ Oversize(j)
            \/ ReadToEnd(j)
            \/ FinishSelect(j)
            \/ Finish(j)
            \/ Reread(j)
            \/ CleanUp(j)
            \/ FinishRefused(j)
  PROVE  BaseInv'
<1>1. CASE WorkerExits(j)
  <2> USE <1>1 DEF WorkerExits, Goto, runVars
  <2>1. TypeOK'
    BY DEF BaseInv, TypeOK, StoreTypeOK, storeVars, Points, HoldingSlot, Terminal, Gone, cancelVars
  <2>2. SlotInv' /\ WorkerInv'
    BY DEF BaseInv, TypeOK, SlotInv, WorkerInv, SlotsHeldOnlyWhileRunning, HoldingSlot, Gone
  <2>3. RowInv' /\ OutcomeInv'
    BY DEF BaseInv, TypeOK, RowInv, OutcomeInv, StoreTypeOK, storeVars, BeforeStart, Terminal, Gone
  <2> QED  BY <2>1, <2>2, <2>3 DEF BaseInv, CancelInv, cancelVars
<1>2. CASE SeeCancel(j)
  <2> USE <1>2 DEF SeeCancel, Goto, StopEarly, Terminate
  <2>1. TypeOK'
    BY DEF BaseInv, TypeOK, StoreTypeOK, storeVars, Points, HoldingSlot, Terminal, Gone, cancelVars
  <2>2. SlotInv' /\ WorkerInv'
    BY DEF BaseInv, TypeOK, SlotInv, WorkerInv, SlotsHeldOnlyWhileRunning, HoldingSlot, Gone
  <2>3. RowInv' /\ OutcomeInv'
    BY DEF BaseInv, TypeOK, RowInv, OutcomeInv, StoreTypeOK, storeVars, BeforeStart, Terminal, Gone
  <2> QED  BY <2>1, <2>2, <2>3 DEF BaseInv, CancelInv, cancelVars
<1>3. CASE TimeOut(j)
  <2> USE <1>3 DEF TimeOut, Goto, StopEarly, Terminate
  <2>1. TypeOK'
    BY DEF BaseInv, TypeOK, StoreTypeOK, storeVars, Points, HoldingSlot, Terminal, Gone, cancelVars
  <2>2. SlotInv' /\ WorkerInv'
    BY DEF BaseInv, TypeOK, SlotInv, WorkerInv, SlotsHeldOnlyWhileRunning, HoldingSlot, Gone
  <2>3. RowInv' /\ OutcomeInv'
    BY DEF BaseInv, TypeOK, RowInv, OutcomeInv, StoreTypeOK, storeVars, BeforeStart, Terminal, Gone
  <2> QED  BY <2>1, <2>2, <2>3 DEF BaseInv, CancelInv, cancelVars
<1>4. CASE Oversize(j)
  <2> USE <1>4 DEF Oversize, Goto, StopEarly, Terminate
  <2>1. TypeOK'
    BY DEF BaseInv, TypeOK, StoreTypeOK, storeVars, Points, HoldingSlot, Terminal, Gone, cancelVars
  <2>2. SlotInv' /\ WorkerInv'
    BY DEF BaseInv, TypeOK, SlotInv, WorkerInv, SlotsHeldOnlyWhileRunning, HoldingSlot, Gone
  <2>3. RowInv' /\ OutcomeInv'
    BY DEF BaseInv, TypeOK, RowInv, OutcomeInv, StoreTypeOK, storeVars, BeforeStart, Terminal, Gone
  <2> QED  BY <2>1, <2>2, <2>3 DEF BaseInv, CancelInv, cancelVars
<1>5. CASE ReadToEnd(j)
  <2> USE <1>5 DEF ReadToEnd, Goto
  <2>1. TypeOK'
    BY OutcomesAssumption DEF BaseInv, TypeOK, StoreTypeOK, storeVars, Points, HoldingSlot,
                              Terminal, Gone, cancelVars
  <2>2. SlotInv' /\ WorkerInv'
    BY DEF BaseInv, TypeOK, SlotInv, WorkerInv, SlotsHeldOnlyWhileRunning, HoldingSlot, Gone
  <2>3. RowInv' /\ OutcomeInv'
    BY OutcomesAssumption DEF BaseInv, TypeOK, RowInv, OutcomeInv, StoreTypeOK, storeVars,
                              BeforeStart, Terminal, Gone
  <2> QED  BY <2>1, <2>2, <2>3 DEF BaseInv, CancelInv, cancelVars
<1>6. CASE FinishSelect(j)
  <2> USE <1>6 DEF FinishSelect, Goto, Finishable, FinalStatus
  <2>1. TypeOK'
    BY DEF BaseInv, TypeOK, StoreTypeOK, storeVars, Points, HoldingSlot, Terminal, Gone, cancelVars
  <2>2. SlotInv' /\ WorkerInv'
    BY DEF BaseInv, TypeOK, SlotInv, WorkerInv, SlotsHeldOnlyWhileRunning, HoldingSlot, Gone
  <2>3. RowInv' /\ OutcomeInv'
    BY DEF BaseInv, TypeOK, RowInv, OutcomeInv, StoreTypeOK, storeVars, BeforeStart, Terminal, Gone
  <2> QED  BY <2>1, <2>2, <2>3 DEF BaseInv, CancelInv, cancelVars
<1>7. CASE Finish(j)
  <2> USE <1>7 DEF Finish, Goto, FinishUpdate, Record
  <2>0. StoreTypeOK'
    BY RecordType DEF BaseInv, TypeOK, RowInv, OutcomeInv, StoreTypeOK, Statuses, Events, Active,
                      Terminal
  <2>1. TypeOK'  BY <2>0 DEF BaseInv, TypeOK, Points, HoldingSlot, Terminal, Gone, cancelVars
  <2>2. SlotInv' /\ WorkerInv'
    BY DEF BaseInv, TypeOK, SlotInv, WorkerInv, SlotsHeldOnlyWhileRunning, HoldingSlot, Gone
  <2>3. RowInv' /\ OutcomeInv'
    BY DEF BaseInv, TypeOK, RowInv, OutcomeInv, StoreTypeOK, storeVars, BeforeStart, Terminal, Gone
  <2> QED  BY <2>1, <2>2, <2>3 DEF BaseInv, CancelInv, cancelVars
<1>8. CASE Reread(j)
  <2> USE <1>8 DEF Reread, Goto, Answer
  <2>1. TypeOK'
    BY DEF BaseInv, TypeOK, StoreTypeOK, storeVars, Points, HoldingSlot, Terminal, Gone,
           cancelVars, RowInv
  <2>2. SlotInv' /\ WorkerInv'
    BY DEF BaseInv, TypeOK, SlotInv, WorkerInv, SlotsHeldOnlyWhileRunning, HoldingSlot, Gone
  <2>3. RowInv' /\ OutcomeInv'
    BY DEF BaseInv, TypeOK, RowInv, OutcomeInv, StoreTypeOK, storeVars, BeforeStart, Terminal, Gone
  <2> QED  BY <2>1, <2>2, <2>3 DEF BaseInv, CancelInv, cancelVars
<1>9. CASE CleanUp(j)
  <2> USE <1>9 DEF CleanUp, Goto, Unlock
  <2>1. TypeOK'
    BY DEF BaseInv, TypeOK, StoreTypeOK, storeVars, Points, HoldingSlot, Terminal, Gone, cancelVars
  <2>2. SlotInv' /\ WorkerInv'
    BY HoldersAssumption DEF BaseInv, TypeOK, SlotInv, WorkerInv, SlotsHeldOnlyWhileRunning,
                             HoldingSlot, Gone
  <2>3. RowInv' /\ OutcomeInv'
    BY DEF BaseInv, TypeOK, RowInv, OutcomeInv, StoreTypeOK, storeVars, BeforeStart, Terminal, Gone
  <2> QED  BY <2>1, <2>2, <2>3 DEF BaseInv, CancelInv, cancelVars
<1>10. CASE FinishRefused(j)
  <2> USE <1>10 DEF FinishRefused, Finishable, Goto, FailQueued, Record, Answer
  <2>0. StoreTypeOK'
    BY RecordType DEF BaseInv, TypeOK, StoreTypeOK, storeVars, Statuses, Events, Active, Terminal
  <2>1. TypeOK'  BY <2>0 DEF BaseInv, TypeOK, Points, HoldingSlot, Terminal, Gone, cancelVars
  <2>2. SlotInv' /\ WorkerInv'
    BY DEF BaseInv, TypeOK, SlotInv, WorkerInv, SlotsHeldOnlyWhileRunning, HoldingSlot, Gone
  <2>3. status[j] \in Terminal /\ status' = status
    BY DEF BaseInv, TypeOK, RowInv, StoreTypeOK, storeVars, Active, Terminal
  <2>4. RowInv' /\ OutcomeInv'
    BY <2>3 DEF BaseInv, TypeOK, RowInv, OutcomeInv, StoreTypeOK, storeVars, BeforeStart, Terminal,
                Gone
  <2> QED  BY <2>1, <2>2, <2>4 DEF BaseInv, CancelInv, cancelVars
<1> QED  BY <1>1, <1>2, <1>3, <1>4, <1>5, <1>6, <1>7, <1>8, <1>9, <1>10

\* Exceptions, an unavailable store, Ctrl+C and crashes.
LEMMA FaultsPreserve ==
  ASSUME BaseInv, NEW j \in Jobs,
            \/ InternalError(j)
            \/ LateInternalError(j)
            \/ StoreUnavailable(j)
            \/ Interrupt(j)
            \/ Crash(j)
  PROVE  BaseInv'
<1>1. CASE InternalError(j)
  <2> USE <1>1 DEF InternalError, Goto, Terminate, Answer
  <2>1. TypeOK'
    BY DEF BaseInv, TypeOK, StoreTypeOK, storeVars, Points, HoldingSlot, Terminal, Gone, cancelVars
  <2>2. SlotInv' /\ WorkerInv'
    BY DEF BaseInv, TypeOK, SlotInv, WorkerInv, SlotsHeldOnlyWhileRunning, HoldingSlot, Gone
  <2>3. RowInv' /\ OutcomeInv'
    BY DEF BaseInv, TypeOK, RowInv, OutcomeInv, StoreTypeOK, storeVars, BeforeStart, Terminal, Gone
  <2> QED  BY <2>1, <2>2, <2>3 DEF BaseInv, CancelInv, cancelVars
<1>2. CASE LateInternalError(j)
  <2> USE <1>2 DEF LateInternalError, Goto, FailQueued, Record, Terminate, Answer
  <2>0. StoreTypeOK'
    BY RecordType DEF BaseInv, TypeOK, RowInv, OutcomeInv, StoreTypeOK, Statuses, Events, Active,
                      Terminal
  <2>1. TypeOK'  BY <2>0 DEF BaseInv, TypeOK, Points, HoldingSlot, Terminal, Gone, cancelVars
  <2>2. SlotInv' /\ WorkerInv'
    BY DEF BaseInv, TypeOK, SlotInv, WorkerInv, SlotsHeldOnlyWhileRunning, HoldingSlot, Gone
  <2>3. RowInv' /\ OutcomeInv'
    BY DEF BaseInv, TypeOK, RowInv, OutcomeInv, StoreTypeOK, storeVars, BeforeStart, Terminal, Gone
  <2> QED  BY <2>1, <2>2, <2>3 DEF BaseInv, CancelInv, cancelVars
<1>3. CASE StoreUnavailable(j)
  <2> USE <1>3 DEF StoreUnavailable, Goto, Terminate, Answer
  <2>1. TypeOK'
    BY DEF BaseInv, TypeOK, StoreTypeOK, storeVars, Points, HoldingSlot, Terminal, Gone, cancelVars
  <2>2. SlotInv' /\ WorkerInv'
    BY DEF BaseInv, TypeOK, SlotInv, WorkerInv, SlotsHeldOnlyWhileRunning, HoldingSlot, Gone
  <2>3. RowInv' /\ OutcomeInv'
    BY DEF BaseInv, TypeOK, RowInv, OutcomeInv, StoreTypeOK, storeVars, BeforeStart, Terminal, Gone
  <2> QED  BY <2>1, <2>2, <2>3 DEF BaseInv, CancelInv, cancelVars
<1>4. CASE Interrupt(j)
  <2> USE <1>4 DEF Interrupt, Goto, Abandon, Unlock
  <2>1. TypeOK'
    BY DEF BaseInv, TypeOK, StoreTypeOK, storeVars, Points, HoldingSlot, Terminal, Gone, cancelVars
  <2>2. SlotInv' /\ WorkerInv'
    BY HoldersAssumption DEF BaseInv, TypeOK, SlotInv, WorkerInv, SlotsHeldOnlyWhileRunning,
                             HoldingSlot, Gone
  <2>3. RowInv' /\ OutcomeInv'
    BY DEF BaseInv, TypeOK, RowInv, OutcomeInv, StoreTypeOK, storeVars, BeforeStart, Terminal, Gone
  <2> QED  BY <2>1, <2>2, <2>3 DEF BaseInv, CancelInv, cancelVars
<1>5. CASE Crash(j)
  <2> USE <1>5 DEF Crash, Goto, Abandon, Unlock
  <2>1. TypeOK'
    BY DEF BaseInv, TypeOK, StoreTypeOK, storeVars, Points, HoldingSlot, Terminal, Gone, cancelVars
  <2>2. SlotInv' /\ WorkerInv'
    BY HoldersAssumption DEF BaseInv, TypeOK, SlotInv, WorkerInv, SlotsHeldOnlyWhileRunning,
                             HoldingSlot, Gone
  <2>3. RowInv' /\ OutcomeInv'
    BY DEF BaseInv, TypeOK, RowInv, OutcomeInv, StoreTypeOK, storeVars, BeforeStart, Terminal, Gone
  <2> QED  BY <2>1, <2>2, <2>3 DEF BaseInv, CancelInv, cancelVars
<1> QED  BY <1>1, <1>2, <1>3, <1>4, <1>5

\* What a step that leaves run() and the statuses alone preserves.
LEMMA OutcomesKept ==
  ASSUME OutcomeInv, UNCHANGED runVars, \A j \in Jobs : status'[j] = status[j]
  PROVE  OutcomeInv'
BY DEF OutcomeInv, runVars

\* Before the start a row also needs its cancellation flag unchanged.
LEMMA RowsKept ==
  ASSUME RowInv, UNCHANGED runVars, \A j \in Jobs : status'[j] = status[j],
         \A j \in Jobs :
            pc[j] \in BeforeStart \cup {"idle"} => (cancelRequested'[j] <=> cancelRequested[j])
  PROVE  RowInv'
BY DEF RowInv, runVars

\* cancel() writes queued and running rows only, and answers nobody else.
LEMMA CancelPreserves ==
  ASSUME BaseInv, NEW c \in Cancellers, CancelStep(c) \/ \E j \in Jobs : CancelLookup(c, j)
  PROVE  BaseInv'
<1>0. cpc[c] # "idle" => target[c] \in Jobs
  BY DEF BaseInv, CancelInv
<1>1. CASE \E j \in Jobs : CancelLookup(c, j)
  <2> USE <1>0, <1>1 DEF CancelLookup, CancelGoto, CancelReturns, runVars
  <2>0. StoreTypeOK'  BY DEF BaseInv, TypeOK, StoreTypeOK, storeVars
  <2>1. TypeOK'  BY <2>0 DEF BaseInv, TypeOK, Active, Terminal, Verdicts
  <2>2. SlotInv' /\ WorkerInv' /\ CancelInv'
    BY DEF BaseInv, TypeOK, SlotInv, WorkerInv, CancelInv, SlotsHeldOnlyWhileRunning
  <2>3. RowInv' /\ OutcomeInv'  BY RowsKept, OutcomesKept DEF BaseInv, storeVars
  <2> QED  BY <2>1, <2>2, <2>3 DEF BaseInv
<1>2. CASE CancelWhileQueued(c)
  <2> USE <1>0, <1>2 DEF CancelWhileQueued, CancelReturns, CancelGoto, CancelQueued, Record, runVars
  <2>0. StoreTypeOK'
    BY RecordType DEF BaseInv, TypeOK, StoreTypeOK, storeVars, Statuses, Events, Active, Terminal
  <2>1. TypeOK'  BY <2>0 DEF BaseInv, TypeOK, Active, Terminal, Verdicts
  <2>2. SlotInv' /\ WorkerInv' /\ CancelInv'
    BY DEF BaseInv, TypeOK, SlotInv, WorkerInv, CancelInv, SlotsHeldOnlyWhileRunning
  <2>3. RowInv' /\ OutcomeInv'
    BY ZenonT(40) DEF BaseInv, TypeOK, RowInv, OutcomeInv, StoreTypeOK, storeVars, BeforeStart,
                      Terminal
  <2> QED  BY <2>1, <2>2, <2>3 DEF BaseInv
<1>3. CASE CancelRaced(c)
  <2> USE <1>0, <1>3 DEF CancelRaced, CancelGoto, runVars
  <2>0. StoreTypeOK'  BY DEF BaseInv, TypeOK, StoreTypeOK, storeVars
  <2>1. TypeOK'  BY <2>0 DEF BaseInv, TypeOK, Active, Terminal, Verdicts
  <2>2. SlotInv' /\ WorkerInv' /\ CancelInv'
    BY DEF BaseInv, TypeOK, SlotInv, WorkerInv, CancelInv, SlotsHeldOnlyWhileRunning
  <2>3. RowInv' /\ OutcomeInv'  BY RowsKept, OutcomesKept DEF BaseInv, storeVars
  <2> QED  BY <2>1, <2>2, <2>3 DEF BaseInv
<1>4. CASE CancelReread(c)
  <2> USE <1>0, <1>4 DEF CancelReread, CancelReturns, CancelGoto, runVars
  <2>0. StoreTypeOK'  BY DEF BaseInv, TypeOK, StoreTypeOK, storeVars
  <2>1. TypeOK'  BY <2>0 DEF BaseInv, TypeOK, Active, Terminal, Verdicts
  <2>2. SlotInv' /\ WorkerInv' /\ CancelInv'
    BY DEF BaseInv, TypeOK, SlotInv, WorkerInv, CancelInv, SlotsHeldOnlyWhileRunning
  <2>3. RowInv' /\ OutcomeInv'  BY RowsKept, OutcomesKept DEF BaseInv, storeVars
  <2> QED  BY <2>1, <2>2, <2>3 DEF BaseInv
<1>5. CASE CancelRunning(c)
  <2> USE <1>0, <1>5 DEF CancelRunning, CancelReturns, CancelGoto, RequestCancel, Record, runVars
  <2>1. CASE RequestCancel(target[c])
    <3> USE <2>1 DEF RequestCancel, Record
    <3>0. StoreTypeOK'
      BY RecordType DEF BaseInv, TypeOK, StoreTypeOK, Statuses, Events, Active
    <3>1. TypeOK'  BY <3>0 DEF BaseInv, TypeOK, Verdicts
    <3>2. SlotInv' /\ WorkerInv' /\ CancelInv'
      BY ZenonT(40) DEF BaseInv, TypeOK, SlotInv, WorkerInv, CancelInv, SlotsHeldOnlyWhileRunning
    <3>3. \A j \in Jobs : status'[j] = status[j]
      BY DEF BaseInv, TypeOK, StoreTypeOK
    <3>4. \A j \in Jobs :
            pc[j] \in BeforeStart \cup {"idle"} => (cancelRequested'[j] <=> cancelRequested[j])
      BY DEF BaseInv, TypeOK, StoreTypeOK, RowInv, BeforeStart
    <3>5. RowInv' /\ OutcomeInv'
      BY <3>3, <3>4, RowsKept, OutcomesKept DEF BaseInv
    <3> QED  BY <3>1, <3>2, <3>5 DEF BaseInv
  <2>2. CASE UNCHANGED storeVars
    <3> USE <2>2 DEF storeVars
    <3>1. TypeOK'  BY DEF BaseInv, TypeOK, StoreTypeOK, Verdicts
    <3>2. SlotInv' /\ WorkerInv' /\ CancelInv'
      BY DEF BaseInv, TypeOK, SlotInv, WorkerInv, CancelInv, SlotsHeldOnlyWhileRunning
    <3>3. RowInv' /\ OutcomeInv'  BY DEF BaseInv, RowInv, OutcomeInv
    <3> QED  BY <3>1, <3>2, <3>3 DEF BaseInv
  <2> QED  BY <2>1, <2>2
<1>6. CASE CancelKill(c)
  <2> USE <1>0, <1>6 DEF CancelKill, CancelReturns, CancelGoto, runVars
  <2>0. StoreTypeOK'  BY DEF BaseInv, TypeOK, StoreTypeOK, storeVars
  <2>1. TypeOK'  BY <2>0 DEF BaseInv, TypeOK, Active, Terminal, Verdicts
  <2>2. SlotInv' /\ WorkerInv' /\ CancelInv'
    BY DEF BaseInv, TypeOK, SlotInv, WorkerInv, CancelInv, SlotsHeldOnlyWhileRunning
  <2>3. RowInv' /\ OutcomeInv'  BY RowsKept, OutcomesKept DEF BaseInv, storeVars
  <2> QED  BY <2>1, <2>2, <2>3 DEF BaseInv
<1> QED  BY <1>1, <1>2, <1>3, <1>4, <1>5, <1>6 DEF CancelStep

\* Every step preserves the base.
LEMMA BaseNext == BaseInv /\ [Next]_vars => BaseInv'
<1> SUFFICES ASSUME BaseInv, [Next]_vars PROVE BaseInv'
  OBVIOUS
<1>1. ASSUME NEW j \in Jobs, Submit(j) \/ RunStep(j) \/ RunMishap(j) \/ WorkerExits(j)
      PROVE  BaseInv'
  BY <1>1, LaunchPreserves, CollectPreserves, FaultsPreserve DEF RunStep, RunMishap
<1>2. ASSUME NEW c \in Cancellers, CancelStep(c) \/ \E j \in Jobs : CancelLookup(c, j)
      PROVE  BaseInv'
  BY <1>2, CancelPreserves
<1>3. CASE (\E n \in Capacities : SetCapacity(n)) \/ UNCHANGED vars
  <2> USE <1>3 DEF SetCapacity, vars, storeVars, runVars, cancelVars
  <2>1. TypeOK'  BY DEF BaseInv, TypeOK, StoreTypeOK
  <2>2. SlotInv' /\ WorkerInv' /\ CancelInv'
    BY DEF BaseInv, SlotInv, WorkerInv, CancelInv, SlotsHeldOnlyWhileRunning
  <2>3. RowInv' /\ OutcomeInv'  BY DEF BaseInv, RowInv, OutcomeInv
  <2> QED  BY <2>1, <2>2, <2>3 DEF BaseInv
<1> QED  BY <1>1, <1>2, <1>3 DEF Next

-----------------------------------------------------------------------------
(* Lemmas: each action preserves the rest of the inductive invariant. *)

\* The initial states satisfy the inductive invariant.
LEMMA InitInv == Init => IInv
BY BaseInit DEF Init, StoreInit, IInv, OwnInv, AnswerInv, BeforeStart

\* The steps of run() itself: it alone ends what it has started.
LEMMA RunKeepsOwn ==
  ASSUME IInv, NEW j \in Jobs, Submit(j) \/ RunStep(j)
  PROVE  OwnInv' /\ AnswerInv'
<1> USE DEF IInv, BaseInv, TypeOK, StoreTypeOK, RowInv, OwnInv, AnswerInv, BeforeStart, Goto,
            Record, storeVars
<1>1. CASE Submit(j)  BY <1>1 DEF Submit, CreateJob
<1>2. CASE LoadCapacity(j)  BY <1>2 DEF LoadCapacity
<1>3. CASE \E s \in Slots : OpenSlot(j, s) \/ TakeSlot(j, s)
  BY <1>3 DEF OpenSlot, TakeSlot
<1>4. CASE CancelSeenQueued(j)  BY <1>4 DEF CancelSeenQueued, Answer, Terminal
<1>5. CASE SlotGranted(j)  BY <1>5 DEF SlotGranted
<1>6. CASE Spawn(j)  BY <1>6 DEF Spawn
<1>7. CASE StartRunning(j)  BY <1>7 DEF StartRunning, StartJob
<1>8. CASE StartRefused(j)  BY <1>8 DEF StartRefused, Answer, Terminal
<1>9. CASE SeeCancel(j) \/ TimeOut(j)  BY <1>9 DEF SeeCancel, TimeOut, StopEarly
<1>10. CASE ReadToEnd(j)  BY <1>10 DEF ReadToEnd
<1>11. CASE FinishSelect(j)  BY <1>11 DEF FinishSelect
<1>12. CASE Finish(j)  BY <1>12 DEF Finish, FinishUpdate
<1>13. CASE Reread(j)  BY <1>13 DEF Reread, Answer, Terminal
<1>14. CASE CleanUp(j)  BY <1>14 DEF CleanUp
<1> QED
  BY <1>1, <1>2, <1>3, <1>4, <1>5, <1>6, <1>7, <1>8, <1>9, <1>10, <1>11, <1>12, <1>13, <1>14
  DEF RunStep

\* What goes wrong around run(): fail_queued leaves a running row alone.
LEMMA MishapsKeepOwn ==
  ASSUME IInv, NEW j \in Jobs, RunMishap(j) \/ WorkerExits(j)
  PROVE  OwnInv' /\ AnswerInv'
<1> USE DEF IInv, BaseInv, TypeOK, StoreTypeOK, RowInv, OwnInv, AnswerInv, BeforeStart, Goto,
            Record, FailQueued, Answer, storeVars
<1>1. CASE SelectionFails(j)  BY <1>1 DEF SelectionFails
<1>2. CASE SetupFails(j)  BY <1>2 DEF SetupFails
<1>3. CASE WaitFails(j)  BY <1>3 DEF WaitFails
<1>4. CASE LaunchFails(j)  BY <1>4 DEF LaunchFails
<1>5. CASE Oversize(j)  BY <1>5 DEF Oversize, StopEarly
<1>6. CASE InternalError(j)  BY <1>6 DEF InternalError
<1>7. CASE LateInternalError(j)  BY <1>7 DEF LateInternalError
<1>8. CASE StoreUnavailable(j)  BY <1>8 DEF StoreUnavailable
<1>9. CASE Interrupt(j) \/ Crash(j)  BY <1>9 DEF Interrupt, Crash, Abandon
<1>10. CASE WorkerExits(j)  BY <1>10 DEF WorkerExits, runVars
<1> QED
  BY <1>1, <1>2, <1>3, <1>4, <1>5, <1>6, <1>7, <1>8, <1>9, <1>10 DEF RunMishap

\* cancel() settles queued rows only.
LEMMA CancelKeepsOwn ==
  ASSUME IInv, NEW c \in Cancellers, CancelStep(c) \/ \E j \in Jobs : CancelLookup(c, j)
  PROVE  OwnInv' /\ AnswerInv'
<1> USE DEF IInv, BaseInv, TypeOK, StoreTypeOK, RowInv, OwnInv, AnswerInv, CancelInv, runVars,
            storeVars
<1>1. CASE CancelWhileQueued(c)
  <2>1. target[c] \in Jobs  BY <1>1 DEF CancelWhileQueued, CancelReturns, CancelGoto
  <2> QED
    BY <1>1, <2>1 DEF CancelWhileQueued, CancelQueued, Record, BeforeStart, Terminal
<1>2. CASE CancelRunning(c)
  <2>1. target[c] \in Jobs  BY <1>2 DEF CancelRunning, CancelReturns, CancelGoto
  <2>2. \A j \in Jobs : status'[j] = status[j]
    BY <1>2, <2>1 DEF CancelRunning, RequestCancel, Record
  <2>3. UNCHANGED runVars  BY <1>2 DEF CancelRunning
  <2> QED  BY <2>2, <2>3
<1>3. CASE UNCHANGED <<storeVars, runVars>>  BY <1>3
<1> QED
  BY <1>1, <1>2, <1>3 DEF CancelStep, CancelRaced, CancelReread, CancelKill, CancelLookup

\* Every step preserves the inductive invariant.
LEMMA NextInv == IInv /\ [Next]_vars => IInv'
<1> SUFFICES ASSUME IInv, [Next]_vars PROVE IInv'
  OBVIOUS
<1>1. BaseInv'  BY BaseNext DEF IInv
<1>2. CASE (\E n \in Capacities : SetCapacity(n)) \/ UNCHANGED vars
  BY <1>1, <1>2 DEF SetCapacity, vars, storeVars, runVars, IInv, OwnInv, AnswerInv
<1> QED
  BY <1>1, <1>2, RunKeepsOwn, MishapsKeepOwn, CancelKeepsOwn DEF Next, IInv

-----------------------------------------------------------------------------
(* Theorems *)

\* The inductive invariant holds of every reachable state.
THEOREM Inductive == Spec => []IInv
<1>1. Init => IInv  BY InitInv
<1>2. IInv /\ [Next]_vars => IInv'  BY NextInv
<1> QED  BY <1>1, <1>2, PTL DEF Spec

\* Every variable keeps its type, whatever happens.
THEOREM TypeCorrect == Spec => []TypeOK
<1>1. IInv => TypeOK  BY DEF IInv, BaseInv
<1> QED  BY <1>1, Inductive, PTL

\* A worker is never left running by a run() that still executes or has
\* returned, and while it runs its supervisor holds one of its slot files.
THEOREM WorkersHoldSlots == Spec => []WorkerHoldsSlot
<1>1. IInv => WorkerHoldsSlot
  BY DEF IInv, BaseInv, SlotInv, WorkerInv, WorkerHoldsSlot, HoldingSlot
<1> QED  BY <1>1, Inductive, PTL

\* No return, error, interrupt or crash leaks a slot.
THEOREM NoSlotLeaks == Spec => []SlotsHeldOnlyWhileRunning
<1>1. IInv => SlotsHeldOnlyWhileRunning  BY DEF IInv, BaseInv, SlotInv
<1> QED  BY <1>1, Inductive, PTL

\* With a writable store a "running" row always has a supervisor that is
\* between start_job and finish_job, or one that died there.
THEOREM RunningRowsAreSupervised == Spec => []RunningIsSupervised
<1>1. IInv => RunningIsSupervised
  BY DEF IInv, BaseInv, TypeOK, RowInv, OwnInv, RunningIsSupervised, BeforeStart, Points,
         HoldingSlot, Gone, Terminal
<1> QED  BY <1>1, Inductive, PTL

\* With a writable store run() only returns once its job is settled, its worker
\* is gone and its slot is free.
THEOREM ReturnsSettled == Spec => []SettledOnReturn
<1>1. IInv => SettledOnReturn
  BY DEF IInv, BaseInv, SlotInv, WorkerInv, RowInv, SettledOnReturn, SlotsHeldOnlyWhileRunning,
         HoldingSlot
<1> QED  BY <1>1, Inductive, PTL

\* What run() has to record is never refused, however cancellations interleave.
THEOREM ResultsAreNeverRefused == Spec => []ResultNeverRefused
<1>1. IInv => ResultNeverRefused
  BY DEF IInv, BaseInv, OwnInv, ResultNeverRefused, Finishable, Active
<1> QED  BY <1>1, Inductive, PTL

\* run() never reports a status other than the persisted one or "failed".
THEOREM AnswersMatchRows == Spec => []AnswerMatchesRow
<1>1. IInv => AnswerMatchesRow  BY DEF IInv, BaseInv, AnswerInv, AnswerMatchesRow
<1> QED  BY <1>1, Inductive, PTL

=============================================================================
