--------------------------- MODULE DashboardProofs ---------------------------
(***************************************************************************)
(* Theorems about Dashboard, for every set of jobs, every capacity and     *)
(* every combination of faults of the supervisors beside it.               *)
(***************************************************************************)
EXTENDS Dashboard, TrailProofs

\* What the dashboard needs to know of the supervisors: who may hold a slot file.
HolderTypeOK ==
  /\ capacity \in Capacities
  /\ files \subseteq Slots
  /\ holder \in [Slots -> Jobs \cup {None, Prober}]

DashInv == HolderTypeOK /\ DashTypeOK /\ ProbeHoldsNothingAfterwards

\* A step of somebody else on the slot files: it never locks one for the probe.
OthersMoveHolders ==
  \/ UNCHANGED holder
  \/ \E j \in Jobs : Unlock(j)
  \/ \E j \in Jobs, s \in Slots :
       holder[s] # Prober /\ holder' = [holder EXCEPT ![s] = j]

-----------------------------------------------------------------------------

\* The supervisors, the cancellations and the user's settings.
LEMMA SupervisorsMoveHolders ==
  ASSUME HolderTypeOK, Next \/ \E j \in Jobs : FinishRefused(j)
  PROVE  OthersMoveHolders /\ capacity' \in Capacities /\ files' \subseteq Slots
<1> USE DEF OthersMoveHolders, HolderTypeOK
<1>1. ASSUME NEW j \in Jobs, Submit(j) \/ RunStep(j)
      PROVE  OthersMoveHolders /\ UNCHANGED capacity /\ files' \subseteq Slots
  <2>1. CASE \E s \in Slots : TakeSlot(j, s)
    BY <2>1 DEF TakeSlot, None, Prober
  <2>2. CASE Submit(j)  BY <2>2 DEF Submit
  <2>3. CASE LoadCapacity(j)  BY <2>3 DEF LoadCapacity
  <2>16. CASE \E s \in Slots : OpenSlot(j, s)  BY <2>16 DEF OpenSlot
  <2>4. CASE CancelSeenQueued(j)  BY <2>4 DEF CancelSeenQueued
  <2>5. CASE SlotGranted(j)  BY <2>5 DEF SlotGranted
  <2>6. CASE Spawn(j)  BY <2>6 DEF Spawn
  <2>7. CASE StartRunning(j)  BY <2>7 DEF StartRunning
  <2>8. CASE StartRefused(j)  BY <2>8 DEF StartRefused
  <2>9. CASE SeeCancel(j)  BY <2>9 DEF SeeCancel, StopEarly
  <2>10. CASE TimeOut(j)  BY <2>10 DEF TimeOut, StopEarly
  <2>11. CASE ReadToEnd(j)  BY <2>11 DEF ReadToEnd
  <2>12. CASE FinishSelect(j)  BY <2>12 DEF FinishSelect
  <2>13. CASE Finish(j)  BY <2>13 DEF Finish
  <2>14. CASE Reread(j)  BY <2>14 DEF Reread
  <2>15. CASE CleanUp(j)  BY <2>15 DEF CleanUp
  <2> QED
    BY <1>1, <2>1, <2>2, <2>3, <2>4, <2>5, <2>6, <2>7, <2>8, <2>9, <2>10, <2>11, <2>12, <2>13,
    <2>14, <2>15, <2>16
    DEF RunStep
<1>2. ASSUME NEW j \in Jobs, RunMishap(j) \/ WorkerExits(j) \/ FinishRefused(j)
      PROVE  OthersMoveHolders /\ UNCHANGED capacity /\ files' \subseteq Slots
  <2>1. CASE SelectionFails(j)  BY <2>1 DEF SelectionFails
  <2>2. CASE SetupFails(j)  BY <2>2 DEF SetupFails
  <2>3. CASE WaitFails(j)  BY <2>3 DEF WaitFails
  <2>4. CASE LaunchFails(j)  BY <2>4 DEF LaunchFails
  <2>5. CASE Oversize(j)  BY <2>5 DEF Oversize, StopEarly
  <2>6. CASE WorkerExits(j)  BY <2>6 DEF WorkerExits
  <2>7. CASE FinishRefused(j)  BY <2>7 DEF FinishRefused
  <2>8. CASE InternalError(j)  BY <2>8 DEF InternalError
  <2>9. CASE LateInternalError(j)  BY <2>9 DEF LateInternalError
  <2>10. CASE StoreUnavailable(j)  BY <2>10 DEF StoreUnavailable
  <2>11. CASE Interrupt(j)  BY <2>11 DEF Interrupt, Abandon
  <2>12. CASE Crash(j)  BY <2>12 DEF Crash, Abandon
  <2> QED
    BY <1>2, <2>1, <2>2, <2>3, <2>4, <2>5, <2>6, <2>7, <2>8, <2>9, <2>10, <2>11, <2>12
    DEF RunMishap
<1>3. ASSUME NEW c \in Cancellers, CancelStep(c) \/ \E j \in Jobs : CancelLookup(c, j)
      PROVE  OthersMoveHolders /\ UNCHANGED capacity /\ files' \subseteq Slots
  BY <1>3 DEF CancelStep, CancelWhileQueued, CancelRaced, CancelReread, CancelRunning, CancelKill,
              CancelLookup
<1>4. ASSUME NEW n \in Capacities, SetCapacity(n)
      PROVE  OthersMoveHolders /\ capacity' \in Capacities /\ files' \subseteq Slots
  BY <1>4 DEF SetCapacity
<1> QED  BY <1>1, <1>2, <1>3, <1>4 DEF Next

\* Such a step leaves the probe's locks to the probe.
LEMMA OthersLeaveProbe ==
  ASSUME HolderTypeOK, OthersMoveHolders
  PROVE  holder' \in [Slots -> Jobs \cup {None, Prober}] /\ Held' = Held
<1> USE HoldersAssumption DEF HolderTypeOK, Held, None, Prober
<1>1. CASE UNCHANGED holder  BY <1>1
<1>2. ASSUME NEW j \in Jobs, Unlock(j)
      PROVE  /\ holder' \in [Slots -> Jobs \cup {None, Prober}]
             /\ \A s \in Slots : holder'[s] = Prober <=> holder[s] = Prober
  BY <1>2 DEF Unlock
<1>3. ASSUME NEW j \in Jobs, NEW s \in Slots, holder' = [holder EXCEPT ![s] = j],
             holder[s] # Prober
      PROVE  /\ holder' \in [Slots -> Jobs \cup {None, Prober}]
             /\ \A r \in Slots : holder'[r] = Prober <=> holder[r] = Prober
  BY <1>3
<1> QED  BY <1>1, <1>2, <1>3 DEF OthersMoveHolders

\* Closing its descriptors leaves the probe with no lock.
LEMMA ReleaseFreesAll ==
  ASSUME HolderTypeOK, Release
  PROVE  /\ holder' \in [Slots -> Jobs \cup {None, Prober}]
         /\ Held' = {} /\ rows' = NoRows /\ listed' = {}
BY HoldersAssumption DEF HolderTypeOK, Release, Unlock, Held, None, Prober

\* The steps of start_test.
LEMMA ProbeKeepsInv ==
  ASSUME DashInv, ProbeStep
  PROVE  DashInv'
<1> USE DEF DashInv, HolderTypeOK, DashTypeOK, ProbeHoldsNothingAfterwards, DashGoto, shutdownVars
<1>1. CASE ProbeStarts
  BY <1>1 DEF ProbeStarts, vars, Held
<1>8. CASE ListPaths
  <2>1. 0 .. capacity - 1 \subseteq Slots
    BY SlotsAssumption DEF Slots
  <2> QED  BY <1>8, <2>1 DEF ListPaths, vars
<1>2. CASE LockNext
  <2>1. PICK s \in listed \ Held :
          /\ \/ /\ dpc = "locking" /\ dpc' = "locking"
                /\ holder' = [holder EXCEPT ![s] = Prober]
                /\ UNCHANGED <<listed, rows>>
             \/ dpc' = "idle" /\ Release
    BY <1>2 DEF LockNext
  <2>2. UNCHANGED <<capacity, testJob, spc, victim, helper>> /\ files' \subseteq Slots
    BY <1>2 DEF LockNext
  <2>3. CASE dpc' = "idle" /\ Release
    BY <2>1, <2>2, <2>3, ReleaseFreesAll DEF NoRows
  <2>4. CASE /\ dpc' = "locking"
             /\ holder' = [holder EXCEPT ![s] = Prober]
             /\ UNCHANGED <<listed, rows>>
    BY <2>1, <2>2, <2>4
  <2> QED  BY <2>1, <2>3, <2>4
<1>3. CASE ReadRows
  BY <1>3 DEF ReadRows, ActiveRows, vars
<1>4. ASSUME NEW j \in Jobs, StillBusy(j) PROVE DashInv'
  BY <1>4, ReleaseFreesAll DEF StillBusy, NoRows
<1>5. ASSUME NEW j \in Jobs, RetireRow(j) PROVE DashInv'
  BY <1>5 DEF RetireRow
<1>6. CASE ProbeEnds
  BY <1>6, ReleaseFreesAll DEF ProbeEnds, NoRows
<1>7. CASE (\E j \in Jobs : LaunchTest(j)) \/ LaunchTestFails \/ TestCollected
  BY <1>7 DEF LaunchTest, LaunchTestFails, TestCollected, vars, Held
<1> QED  BY <1>1, <1>2, <1>3, <1>4, <1>5, <1>6, <1>7, <1>8 DEF ProbeStep

\* Everybody else.
LEMMA OthersKeepInv ==
  ASSUME DashInv, OthersMoveHolders, capacity' \in Capacities, files' \subseteq Slots,
         UNCHANGED <<dpc, listed, rows>>,
         testJob' \in {testJob, None}, DashTypeOK'
  PROVE  DashInv'
BY OthersLeaveProbe DEF DashInv, HolderTypeOK, ProbeHoldsNothingAfterwards

\* Every step of the dashboard and of the supervisors.
LEMMA DashNextInv == DashInv /\ [DashNext]_allVars => DashInv'
<1> SUFFICES ASSUME DashInv, [DashNext]_allVars PROVE DashInv'
  OBVIOUS
<1> USE DEF DashInv
<1>1. CASE UNCHANGED allVars
  BY <1>1 DEF allVars, vars, dashVars, probeVars, shutdownVars, HolderTypeOK, DashTypeOK,
              ProbeHoldsNothingAfterwards, Held
<1>2. CASE (Next \/ \E j \in Jobs : FinishRefused(j)) /\ UNCHANGED dashVars
  BY <1>2, SupervisorsMoveHolders, OthersKeepInv
  DEF dashVars, probeVars, shutdownVars, DashTypeOK
<1>3. CASE ProbeStep  BY <1>3, ProbeKeepsInv
<1>4. CASE TestTimesOut
  <2>1. OthersMoveHolders /\ UNCHANGED <<capacity, files>>
    BY <1>4 DEF TestTimesOut, OthersMoveHolders, DashTypeOK
  <2> QED
    BY <1>4, <2>1, OthersKeepInv DEF TestTimesOut, DashTypeOK, HolderTypeOK, shutdownVars
<1>5. ASSUME NEW c \in Cancellers, CancelTimesOut(c) PROVE DashInv'
  BY <1>5, OthersKeepInv
  DEF CancelTimesOut, OthersMoveHolders, dashVars, probeVars, shutdownVars, DashTypeOK, HolderTypeOK
<1>6. CASE ShutdownBegins
  BY <1>6, OthersKeepInv
  DEF ShutdownBegins, ShutdownGoto, OthersMoveHolders, vars, probeVars, DashTypeOK, HolderTypeOK
<1>7. CASE ShutdownFindsNothing \/ ShutdownCallReturns \/ ShutdownSeesExit
  BY <1>7, OthersKeepInv
  DEF ShutdownFindsNothing, ShutdownCallReturns, ShutdownSeesExit, ShutdownGoto,
      OthersMoveHolders, vars, probeVars, DashTypeOK, HolderTypeOK
<1>8. ASSUME NEW c \in Cancellers, ShutdownCancels(c) PROVE DashInv'
  BY <1>8, OthersKeepInv
  DEF ShutdownCancels, CancelLookup, ShutdownGoto, OthersMoveHolders, probeVars, DashTypeOK,
      HolderTypeOK
<1>9. CASE ShutdownTerminates
  <2>1. victim \in Jobs \/ holder' = holder \/ Unlock(None)
    BY <1>9 DEF ShutdownTerminates, DashTypeOK
  <2>2. OthersMoveHolders
    <3>1. Unlock(None) => holder' = holder
      BY DEF Unlock, HolderTypeOK
    <3> QED  BY <1>9, <2>1, <3>1 DEF ShutdownTerminates, OthersMoveHolders
  <2> QED
    BY <1>9, <2>2, OthersKeepInv
    DEF ShutdownTerminates, ShutdownGoto, probeVars, DashTypeOK, HolderTypeOK
<1> QED
  BY <1>1, <1>2, <1>3, <1>4, <1>5, <1>6, <1>7, <1>8, <1>9 DEF DashNext, ShutdownStep

\* The invariant holds throughout.
LEMMA DashInductive == DashSpec => []DashInv
<1>1. DashInit => DashInv
  BY HoldersAssumption DEF DashInit, Init, DashInv, HolderTypeOK, DashTypeOK,
     ProbeHoldsNothingAfterwards, Held, None, Prober
<1> QED  BY <1>1, DashNextInv, PTL DEF DashSpec

-----------------------------------------------------------------------------

\* The type invariant.
THEOREM DashTypeCorrect == DashSpec => []DashTypeOK
BY DashInductive, PTL DEF DashInv

\* However a probe ends, and whatever the supervisors, cancellations and the
\* shutdown do meanwhile, it leaves no slot file locked.
THEOREM ProbesLetGo == DashSpec => []ProbeHoldsNothingAfterwards
BY DashInductive, PTL DEF DashInv

-----------------------------------------------------------------------------
(* What the supervisors promise whatever the dashboard does to them: a        *)
(* deadline, a shutdown or a mistaken recovery included.                      *)

\* A shutdown past its first step has found a test.
VictimInv == spc \in {"cancelling", "calling", "waiting"} => victim \in Jobs

SettledInv == BaseInv /\ DashInv /\ VictimInv

\* A supervisor killed from outside, perhaps before it has created its row.
LEMMA KilledKeepsBase ==
  ASSUME BaseInv, NEW j \in Jobs, pc[j] \notin Gone, pc' = [pc EXCEPT ![j] = "crashed"], Unlock(j),
         UNCHANGED <<storeVars, capacity, files, cap, outcome, final, answer, worker, cancelVars>>
  PROVE  BaseInv'
<1>1. TypeOK'
  BY DEF BaseInv, TypeOK, StoreTypeOK, storeVars, Points, Gone, Unlock, cancelVars
<1>2. SlotInv'
  BY HoldersAssumption
  DEF BaseInv, TypeOK, SlotInv, SlotsHeldOnlyWhileRunning, HoldingSlot, Unlock, None
<1>3. WorkerInv' /\ RowInv' /\ OutcomeInv'
  BY DEF BaseInv, TypeOK, WorkerInv, RowInv, OutcomeInv, StoreTypeOK, storeVars, BeforeStart
<1> QED  BY <1>1, <1>2, <1>3 DEF BaseInv, CancelInv, cancelVars

\* What the probe does with the slot files concerns no supervisor.
LEMMA ProbeLocksKeepBase ==
  ASSUME BaseInv,
         \/ Unlock(Prober)
         \/ \E s \in Slots : holder[s] = None /\ holder' = [holder EXCEPT ![s] = Prober],
         files' \in {files} \cup {files \cup {s} : s \in Slots},
         UNCHANGED <<storeVars, capacity, runVars, worker, cancelVars>>
  PROVE  BaseInv'
<1>1. TypeOK'
  BY DEF BaseInv, TypeOK, StoreTypeOK, storeVars, runVars, cancelVars, Unlock
<1>2. \A j \in Jobs, s \in Slots : holder'[s] = j <=> holder[s] = j
  BY HoldersAssumption DEF BaseInv, TypeOK, Unlock
<1>3. SlotInv'
  BY <1>2 DEF BaseInv, SlotInv, SlotsHeldOnlyWhileRunning, runVars
<1>4. WorkerInv' /\ RowInv' /\ OutcomeInv'
  BY DEF BaseInv, WorkerInv, RowInv, OutcomeInv, storeVars, runVars
<1> QED  BY <1>1, <1>3, <1>4 DEF BaseInv, CancelInv, cancelVars

\* A retired row was started and is now terminal.
LEMMA RetireKeepsBase ==
  ASSUME BaseInv, NEW j \in Jobs, RetireRow(j)
  PROVE  BaseInv'
<1> USE DEF RetireRow, DashGoto
<1>1. CASE UNCHANGED storeVars
  BY <1>1 DEF BaseInv, TypeOK, StoreTypeOK, SlotInv, SlotsHeldOnlyWhileRunning, WorkerInv, RowInv,
              OutcomeInv, CancelInv, storeVars, runVars, cancelVars
<1>2. CASE MarkInterrupted(j)
  <2> USE <1>2 DEF MarkInterrupted, Record
  <2>1. StoreTypeOK'
    BY RecordType DEF BaseInv, TypeOK, StoreTypeOK, Statuses, Events, Terminal
  <2>2. TypeOK'  BY <2>1 DEF BaseInv, TypeOK, runVars, cancelVars
  <2>3. SlotInv' /\ WorkerInv' /\ CancelInv'
    BY DEF BaseInv, SlotInv, SlotsHeldOnlyWhileRunning, WorkerInv, CancelInv, runVars, cancelVars
  <2>4. RowInv' /\ OutcomeInv'
    BY DEF BaseInv, TypeOK, StoreTypeOK, RowInv, OutcomeInv, BeforeStart, Terminal, runVars
  <2> QED  BY <2>2, <2>3, <2>4 DEF BaseInv
<1> QED  BY <1>1, <1>2

\* The base of the supervisors' invariant survives every step of the dashboard.
LEMMA DashboardKeepsBase ==
  ASSUME SettledInv, [DashNext]_allVars
  PROVE  BaseInv'
<1> USE DEF SettledInv
<1>1. CASE [Next]_vars  BY <1>1, BaseNext
<1>2. ASSUME NEW j \in Jobs, FinishRefused(j) PROVE BaseInv'
  BY <1>2, CollectPreserves
<1>3. CASE LockNext
  <2>1. PICK s \in listed \ Held :
          /\ files' = files \cup {s}
          /\ \/ holder[s] = None /\ holder' = [holder EXCEPT ![s] = Prober]
             \/ Unlock(Prober)
    BY <1>3 DEF LockNext, Release
  <2>2. s \in Slots  BY DEF DashInv, DashTypeOK
  <2> QED  BY <1>3, <2>1, <2>2, ProbeLocksKeepBase DEF LockNext
<1>4. ASSUME NEW j \in Jobs, StillBusy(j) \/ RetireRow(j) PROVE BaseInv'
  BY <1>4, ProbeLocksKeepBase, RetireKeepsBase DEF StillBusy, Release
<1>5. CASE ProbeEnds
  BY <1>5, ProbeLocksKeepBase DEF ProbeEnds, Release
<1>6. CASE TestTimesOut
  BY <1>6, KilledKeepsBase DEF TestTimesOut, DashInv, DashTypeOK
<1>7. ASSUME NEW c \in Cancellers, CancelTimesOut(c) PROVE BaseInv'
  BY <1>7 DEF CancelTimesOut, BaseInv, TypeOK, StoreTypeOK, SlotInv, SlotsHeldOnlyWhileRunning,
              WorkerInv, RowInv, OutcomeInv, CancelInv, storeVars, runVars
<1>8. ASSUME NEW c \in Cancellers, ShutdownCancels(c) PROVE BaseInv'
  BY <1>8, CancelPreserves DEF ShutdownCancels, ShutdownGoto, VictimInv
<1>9. CASE ShutdownTerminates
  BY <1>9, KilledKeepsBase DEF ShutdownTerminates, ShutdownGoto, VictimInv
<1>10. CASE \/ ProbeStarts \/ ListPaths \/ ReadRows \/ (\E j \in Jobs : LaunchTest(j))
            \/ LaunchTestFails \/ TestCollected \/ ShutdownBegins \/ ShutdownFindsNothing
            \/ ShutdownCallReturns \/ ShutdownSeesExit
  BY <1>10, <1>1 DEF ProbeStarts, ListPaths, ReadRows, LaunchTest, LaunchTestFails, TestCollected,
                     ShutdownBegins, ShutdownFindsNothing, ShutdownCallReturns, ShutdownSeesExit
<1> QED
  BY <1>1, <1>2, <1>3, <1>4, <1>5, <1>6, <1>7, <1>8, <1>9, <1>10
  DEF DashNext, ProbeStep, ShutdownStep, allVars

\* A shutdown keeps the test it found.
LEMMA VictimKept ==
  ASSUME DashInv, VictimInv, [DashNext]_allVars
  PROVE  VictimInv'
<1> USE DEF VictimInv
<1>1. CASE ShutdownBegins
  BY <1>1 DEF ShutdownBegins, ShutdownGoto, DashInv, DashTypeOK
<1>2. CASE ShutdownStep
  BY <1>2 DEF ShutdownStep, ShutdownFindsNothing, ShutdownCancels, ShutdownCallReturns,
              ShutdownSeesExit, ShutdownTerminates, ShutdownGoto
<1>3. CASE ProbeStep
  BY <1>3 DEF ProbeStep, ProbeStarts, ListPaths, LockNext, ReadRows, StillBusy, RetireRow,
              ProbeEnds, LaunchTest, LaunchTestFails, TestCollected, shutdownVars
<1>4. CASE TestTimesOut \/ UNCHANGED dashVars \/ \E c \in Cancellers : CancelTimesOut(c)
  BY <1>4 DEF TestTimesOut, CancelTimesOut, dashVars, shutdownVars
<1> QED  BY <1>1, <1>2, <1>3, <1>4 DEF DashNext, allVars

\* Every step of the dashboard and of the supervisors.
LEMMA SettledStep == SettledInv /\ [DashNext]_allVars => SettledInv'
BY DashboardKeepsBase, DashNextInv, VictimKept DEF SettledInv

\* The initial states.
LEMMA SettledInit == DashInit => SettledInv
BY BaseInit, HoldersAssumption
DEF DashInit, Init, SettledInv, DashInv, HolderTypeOK, DashTypeOK, ProbeHoldsNothingAfterwards,
    VictimInv, Held, None, Prober

\* The invariant holds throughout.
LEMMA SettledInductive == DashSpec => []SettledInv
BY SettledInit, SettledStep, PTL DEF DashSpec

\* A run() that returns leaves a settled row, no worker and no slot, whatever the
\* dashboard's probes, deadlines and shutdown do beside it: a row retired under a
\* living supervisor is overwritten, but never left open.
THEOREM ReturnsSettledBesideDashboard == DashSpec => []SettledOnReturn
<1>1. SettledInv => SettledOnReturn
  BY DEF SettledInv, BaseInv, SlotInv, WorkerInv, RowInv, SettledOnReturn,
         SlotsHeldOnlyWhileRunning, HoldingSlot
<1> QED  BY <1>1, SettledInductive, PTL

\* A worker runs under a slot of its supervisor although the probe locks the same
\* files and the dashboard kills wrappers at their deadline.
THEOREM WorkersHoldSlotsBesideDashboard == DashSpec => []WorkerHoldsSlot
<1>1. SettledInv => WorkerHoldsSlot
  BY DEF SettledInv, BaseInv, SlotInv, WorkerInv, WorkerHoldsSlot, HoldingSlot
<1> QED  BY <1>1, SettledInductive, PTL

-----------------------------------------------------------------------------
(* The recovery.  Raising the concurrency while a probe is locking files or  *)
(* retiring rows opens the race of run RecoveryRacesSupervisor, lowering it  *)
(* while a supervisor creates its slot files that of RecoveryRacesLowering.  *)
(* The theorems below say that nothing else does: their hypothesis           *)
(* CapacityKept leaves every other change of the setting, and every fault,   *)
(* possible.                                                                 *)

\* The supervisors that may lock the files below the capacity they loaded.
MayLock == {"opening", "waiting"} \cup HoldingSlot

\* From ListPaths on the probe knows every file that a supervisor may lock, and
\* before it retires a row it holds them all.
ProbeInv ==
  /\ dpc \in {"locking", "retiring"} =>
       /\ \A s \in Slots : s < capacity => s \in listed
       /\ \A j \in Jobs : pc[j] \in MayLock => \A s \in Slots : s < cap[j] => s \in listed
  /\ dpc = "retiring" => listed \subseteq Held

\* The files that a supervisor has still to create are below the capacity, so
\* that a probe starting now would list them.
OpeningInv == \A j \in Jobs : pc[j] = "opening" => cap[j] <= capacity

RecoveryInv == SettledInv /\ OwnInv /\ AnswerInv /\ OpeningInv /\ ProbeInv

\* A supervisor that still executes run() for a running row holds a slot, so
\* there is none while the probe retires rows.
LEMMA NobodyRuns ==
  ASSUME RecoveryInv, dpc = "retiring", NEW j \in Jobs
  PROVE  pc[j] \notin HoldingSlot
<1> SUFFICES ASSUME pc[j] \in HoldingSlot PROVE FALSE
  OBVIOUS
<1>1. PICK s \in Slots : s < cap[j] /\ holder[s] = j
  BY DEF RecoveryInv, SettledInv, BaseInv, SlotInv
<1>2. holder[s] = Prober
  BY <1>1 DEF RecoveryInv, ProbeInv, MayLock, Held
<1> QED  BY <1>1, <1>2, HoldersAssumption

\* Retiring a row that says "running" takes it from no supervisor.
LEMMA RetireKeepsOwn ==
  ASSUME RecoveryInv, NEW j \in Jobs, RetireRow(j)
  PROVE  OwnInv' /\ AnswerInv'
<1> USE DEF RetireRow, DashGoto, RecoveryInv, OwnInv, AnswerInv, runVars
<1>1. CASE UNCHANGED storeVars  BY <1>1 DEF storeVars
<1>2. CASE MarkInterrupted(j)
  <2>1. pc[j] \notin HoldingSlot  BY NobodyRuns
  <2> QED
    BY <1>2, <2>1 DEF MarkInterrupted, Record, SettledInv, BaseInv, TypeOK, StoreTypeOK,
                      BeforeStart, HoldingSlot, Terminal
<1> QED  BY <1>1, <1>2

\* The supervisors keep their rows and their answers.
LEMMA DashboardKeepsOwn ==
  ASSUME RecoveryInv, [DashNext]_allVars
  PROVE  OwnInv' /\ AnswerInv'
<1> USE DEF RecoveryInv, SettledInv
<1>1. CASE [Next]_vars  BY <1>1, NextInv DEF IInv
<1>2. ASSUME NEW j \in Jobs, FinishRefused(j) PROVE OwnInv' /\ AnswerInv'
  BY <1>2 DEF FinishRefused, Finishable, Goto, OwnInv, Active
<1>3. ASSUME NEW j \in Jobs, RetireRow(j) PROVE OwnInv' /\ AnswerInv'
  BY <1>3, RetireKeepsOwn
<1>4. CASE UNCHANGED <<storeVars, runVars>>
  BY <1>4 DEF storeVars, runVars, OwnInv, AnswerInv
<1>5. CASE TestTimesOut \/ ShutdownTerminates
  BY <1>5 DEF TestTimesOut, ShutdownTerminates, storeVars, OwnInv, AnswerInv, BaseInv, TypeOK,
              BeforeStart
<1>6. ASSUME NEW c \in Cancellers, ShutdownCancels(c) PROVE OwnInv' /\ AnswerInv'
  BY <1>6, CancelKeepsOwn DEF ShutdownCancels, ShutdownGoto, VictimInv, IInv
<1> QED
  BY <1>1, <1>2, <1>3, <1>4, <1>5, <1>6
  DEF DashNext, ProbeStep, ShutdownStep, ProbeStarts, ListPaths, LockNext, ReadRows, StillBusy,
      ProbeEnds, LaunchTest, LaunchTestFails, TestCollected, CancelTimesOut, ShutdownBegins,
      ShutdownFindsNothing, ShutdownCallReturns, ShutdownSeesExit, vars, allVars

\* A supervisor comes to hold a slot by one way only: it loads the capacity,
\* opens its files and waits for one of them.
MovesOn(j) ==
  \/ pc'[j] = "opening" /\ cap'[j] = capacity /\ capacity' = capacity
  \/ pc[j] = "opening" /\ pc'[j] \in {"opening", "waiting"} /\ cap'[j] = cap[j]
  \/ pc[j] \in MayLock \ {"opening"} /\ pc'[j] # "opening" /\ cap'[j] = cap[j]
  \/ pc'[j] \notin MayLock

\* What a supervisor's step does to the number of files it may lock.
LEMMA CapacitiesMove ==
  ASSUME BaseInv, [Next]_vars, NEW j \in Jobs
  PROVE  MovesOn(j)
<1> USE DEF MovesOn, MayLock, HoldingSlot, Goto, BaseInv, TypeOK
<1>1. ASSUME NEW k \in Jobs, LoadCapacity(k) PROVE MovesOn(j)
  BY <1>1 DEF LoadCapacity
<1>2. ASSUME NEW k \in Jobs, \E s \in Slots : OpenSlot(k, s) PROVE MovesOn(j)
  BY <1>2 DEF OpenSlot
<1>3. ASSUME NEW k \in Jobs,
             \/ \E s \in Slots : TakeSlot(k, s)
             \/ SlotGranted(k) \/ Spawn(k) \/ StartRunning(k) \/ ReadToEnd(k) \/ Oversize(k)
             \/ SeeCancel(k) \/ TimeOut(k) \/ FinishSelect(k) \/ Finish(k) \/ InternalError(k)
      PROVE  MovesOn(j)
  BY <1>3 DEF TakeSlot, SlotGranted, Spawn, StartRunning, ReadToEnd, Oversize, SeeCancel, TimeOut,
              StopEarly, FinishSelect, Finish, InternalError
<1>4. ASSUME NEW k \in Jobs,
             \/ Submit(k) \/ SelectionFails(k) \/ SetupFails(k) \/ WaitFails(k) \/ LaunchFails(k)
             \/ CancelSeenQueued(k) \/ StartRefused(k) \/ Reread(k) \/ CleanUp(k)
             \/ LateInternalError(k) \/ StoreUnavailable(k) \/ Interrupt(k) \/ Crash(k)
      PROVE  MovesOn(j)
  BY <1>4 DEF Submit, SelectionFails, SetupFails, WaitFails, LaunchFails, CancelSeenQueued,
              StartRefused, Reread, CleanUp, LateInternalError, StoreUnavailable, Interrupt, Crash,
              Abandon
<1>5. CASE UNCHANGED <<pc, cap, capacity>>
  BY <1>5
<1>6. ASSUME NEW c \in Cancellers, CancelStep(c) \/ \E k \in Jobs : CancelLookup(c, k)
      PROVE  UNCHANGED <<pc, cap, capacity>>
  BY <1>6 DEF CancelStep, CancelWhileQueued, CancelRaced, CancelReread, CancelRunning, CancelKill,
              CancelLookup, runVars
<1>7. CASE (\E n \in Capacities : SetCapacity(n)) \/ UNCHANGED vars
  BY <1>7 DEF SetCapacity, vars, runVars
<1>8. ASSUME NEW k \in Jobs, WorkerExits(k) PROVE MovesOn(j)
  BY <1>5, <1>8 DEF WorkerExits, runVars
<1> QED
  BY <1>1, <1>2, <1>3, <1>4, <1>5, <1>6, <1>7, <1>8 DEF Next, RunStep, RunMishap

\* Whoever leaves the probe's locks alone.
LEMMA OthersKeepProbeInv ==
  ASSUME BaseInv, OpeningInv, ProbeInv, Held' = Held, UNCHANGED <<dpc, listed>>, CapacityKept,
         capacity' \in Nat, \A j \in Jobs : MovesOn(j)
  PROVE  OpeningInv' /\ ProbeInv'
<1>1. capacity \in Nat /\ (\A j \in Jobs : cap[j] \in Nat) /\ (\A s \in Slots : s \in Nat)
  <2>1. \A s \in Slots : s \in Nat  BY SlotsAssumption DEF Slots
  <2> QED  BY <2>1, CapacityType DEF BaseInv
<1>2. OpeningInv'
  BY <1>1 DEF OpeningInv, MovesOn, MayLock, CapacityKept
<1>3. CASE dpc \in {"locking", "retiring"}
  <2>1. \A s \in Slots : s < capacity' => s \in listed
    <3>1. capacity' <= capacity  BY <1>3 DEF CapacityKept
    <3> QED  BY <1>1, <1>3, <3>1 DEF ProbeInv
  <2>2. \A j \in Jobs : pc'[j] \in MayLock => \A s \in Slots : s < cap'[j] => s \in listed
    BY <1>3 DEF ProbeInv, MovesOn, MayLock
  <2> QED  BY <1>2, <1>3, <2>1, <2>2 DEF ProbeInv
<1> QED  BY <1>2, <1>3 DEF ProbeInv

\* The steps of start_test: it lists every file, locks them one by one and only
\* then reads rows.
LEMMA ProbeStepKeepsProbeInv ==
  ASSUME RecoveryInv, ProbeStep
  PROVE  ProbeInv'
<1> USE DEF ProbeInv, DashGoto
<1>0. capacity \in Nat /\ \A j \in Jobs : cap[j] \in Nat
  BY CapacityType, SlotsAssumption DEF RecoveryInv, SettledInv, BaseInv, TypeOK
<1>1. CASE ListPaths
  <2> USE DEF RecoveryInv, SettledInv
  <2>1. \A s \in Slots : s < capacity => s \in listed'
    BY <1>0, <1>1, SlotsAssumption DEF ListPaths, Slots
  <2>2. ASSUME NEW j \in Jobs, pc[j] \in MayLock, NEW s \in Slots, s < cap[j]
        PROVE  s \in listed'
    <3>1. CASE pc[j] = "opening"
      <4>1. s < capacity
        BY <1>0, <2>2, <3>1, SlotsAssumption DEF OpeningInv, Slots
      <4> QED  BY <2>1, <4>1
    <3>2. CASE pc[j] \in HoldingSlot \cup {"waiting"}
      BY <1>1, <2>2, <3>2 DEF ListPaths, BaseInv, SlotInv
    <3> QED  BY <2>2, <3>1, <3>2 DEF MayLock
  <2> QED  BY <1>1, <2>1, <2>2 DEF ListPaths, vars, runVars
<1>2. CASE LockNext
  BY <1>2 DEF LockNext, RecoveryInv, runVars
<1>3. CASE ReadRows
  BY <1>3 DEF ReadRows, RecoveryInv, vars, runVars, Held
<1>4. ASSUME NEW j \in Jobs, RetireRow(j) PROVE ProbeInv'
  BY <1>4 DEF RetireRow, RecoveryInv, runVars, Held
<1>5. CASE \/ ProbeStarts \/ (\E j \in Jobs : StillBusy(j)) \/ ProbeEnds
           \/ (\E j \in Jobs : LaunchTest(j)) \/ LaunchTestFails
  BY <1>5 DEF ProbeStarts, StillBusy, ProbeEnds, LaunchTest, LaunchTestFails
<1>6. CASE TestCollected
  BY <1>6 DEF TestCollected, RecoveryInv, vars, runVars, Held
<1> QED  BY <1>1, <1>2, <1>3, <1>4, <1>5, <1>6 DEF ProbeStep

\* Every step of a user who changes the setting at harmless moments.
LEMMA RecoveryStep == RecoveryInv /\ [DashNext /\ CapacityKept]_allVars => RecoveryInv'
<1> SUFFICES ASSUME RecoveryInv, [DashNext]_allVars, CapacityKept \/ UNCHANGED allVars
             PROVE  RecoveryInv'
  BY DEF allVars
<1>1. SettledInv'  BY SettledStep DEF RecoveryInv
<1>2. OwnInv' /\ AnswerInv'  BY DashboardKeepsOwn
<1>3. capacity \in Nat /\ capacity' \in Nat /\ holder \in [Slots -> Jobs \cup {None, Prober}]
  BY <1>1, SlotsAssumption DEF RecoveryInv, SettledInv, BaseInv, TypeOK
<1>4. HolderTypeOK  BY DEF RecoveryInv, SettledInv, DashInv
<1>5. OpeningInv' /\ ProbeInv'
  <2> USE DEF RecoveryInv, SettledInv
  <2>1. CASE UNCHANGED allVars
    BY <2>1 DEF allVars, vars, runVars, dashVars, probeVars, OpeningInv, ProbeInv, Held
  <2>2. CASE Next /\ UNCHANGED dashVars /\ CapacityKept
    <3>1. Held' = Held  BY <1>4, <2>2, SupervisorsMoveHolders, OthersLeaveProbe
    <3> QED
      BY <1>3, <2>2, <3>1, CapacitiesMove, OthersKeepProbeInv DEF dashVars, probeVars
  <2>3. ASSUME NEW j \in Jobs, FinishRefused(j) PROVE FALSE
    BY <2>3 DEF FinishRefused, Finishable, Goto, OwnInv, Active
  <2>4. CASE ProbeStep
    <3>1. UNCHANGED <<pc, cap, capacity>>
      BY <2>4 DEF ProbeStep, ProbeStarts, ListPaths, LockNext, ReadRows, StillBusy, RetireRow,
                  ProbeEnds, LaunchTest, LaunchTestFails, TestCollected, vars, runVars
    <3> QED  BY <2>4, <3>1, ProbeStepKeepsProbeInv DEF OpeningInv
  <2>5. CASE TestTimesOut \/ ShutdownTerminates
    <3>1. \E j \in Jobs : Unlock(j)
      BY <2>5 DEF TestTimesOut, ShutdownTerminates, ShutdownGoto, DashInv, DashTypeOK, VictimInv
    <3>2. Held' = Held  BY <1>4, <3>1, OthersLeaveProbe DEF OthersMoveHolders
    <3> QED
      BY <2>5, <3>2
      DEF TestTimesOut, ShutdownTerminates, BaseInv, TypeOK, OpeningInv, ProbeInv, MayLock,
          HoldingSlot, probeVars
  <2>6. CASE (\E c \in Cancellers : CancelTimesOut(c) \/ ShutdownCancels(c))
    BY <2>6 DEF CancelTimesOut, ShutdownCancels, CancelLookup, OpeningInv, ProbeInv, Held,
                dashVars, probeVars, runVars
  <2>7. CASE ShutdownBegins \/ ShutdownFindsNothing \/ ShutdownCallReturns \/ ShutdownSeesExit
    BY <2>7 DEF ShutdownBegins, ShutdownFindsNothing, ShutdownCallReturns, ShutdownSeesExit,
                OpeningInv, ProbeInv, Held, vars, probeVars, runVars
  <2> QED  BY <2>1, <2>2, <2>3, <2>4, <2>5, <2>6, <2>7 DEF DashNext, ShutdownStep
<1> QED  BY <1>1, <1>2, <1>5 DEF RecoveryInv

\* The invariant holds in every behaviour without such a change.
LEMMA RecoveryInductive == DashSpec /\ [][CapacityKept]_allVars => []RecoveryInv
<1>1. DashInit => RecoveryInv
  BY SettledInit, InitInv DEF DashInit, Init, IInv, RecoveryInv, OpeningInv, ProbeInv
<1>2. [DashNext]_allVars /\ [CapacityKept]_allVars => [DashNext /\ CapacityKept]_allVars
  OBVIOUS
<1> QED  BY <1>1, <1>2, RecoveryStep, PTL DEF DashSpec

\* Only rows whose supervisor has died are retired, unless the concurrency is
\* raised in the middle of a probe or lowered under a supervisor that is creating
\* its slot files.  With an unwritable store a returned run() may have left its
\* row running; the recovery then retires that row too.
THEOREM RecoverySparesTheLiving ==
  ASSUME "store" \notin Faults
  PROVE  DashSpec /\ [][CapacityKept]_allVars => RetiresOnlyDead
<1> DEFINE Retired(j) ==
             status[j] = "running" /\ status'[j] = "failed" /\ dpc = "retiring" /\ rows' # rows
<1>1. ASSUME RecoveryInv, DashNext, NEW j \in Jobs, Retired(j)
      PROVE  pc[j] \in Dead
  <2>1. pc[j] \notin HoldingSlot  BY <1>1, NobodyRuns
  <2>2. pc[j] \in Gone \cup {"idle", "created", "opening", "waiting", "cleanup"}
    BY <1>1, <2>1 DEF RecoveryInv, SettledInv, BaseInv, TypeOK, Points
  <2>3. pc[j] \notin {"idle", "created", "opening", "waiting", "cleanup", "returned"}
    BY <1>1 DEF RecoveryInv, SettledInv, BaseInv, RowInv, BeforeStart, Terminal
  <2> QED  BY <2>2, <2>3 DEF Gone, Dead
<1>2. RecoveryInv /\ [DashNext]_allVars =>
        [\A j \in Jobs : Retired(j) => pc[j] \in Dead]_allVars
  BY <1>1
<1> QED  BY <1>2, RecoveryInductive, PTL DEF DashSpec, RetiresOnlyDead

\* The dashboard's recovery never meets the unconditional UPDATE of finish_job on
\* the same row: under the same condition a terminal status is final, whatever
\* supervisors, cancellations, recovery and shutdown do.
THEOREM TerminalSurvivesRecovery ==
  DashSpec /\ [][CapacityKept]_allVars => TerminalStaysFinal
<1>1. ASSUME RecoveryInv, DashNext, NEW j \in Jobs, status[j] \in Terminal
      PROVE  status'[j] = status[j]
  <2> USE DEF RecoveryInv, SettledInv
  <2>1. CASE Next  BY <1>1, <2>1, TerminalKept DEF IInv
  <2>2. ASSUME NEW k \in Jobs, FinishRefused(k) PROVE FALSE
    BY <1>1, <2>2 DEF FinishRefused, Finishable, Goto, OwnInv, Active
  <2>3. ASSUME NEW k \in Jobs, RetireRow(k) PROVE status'[j] = status[j]
    BY <1>1, <2>3 DEF RetireRow, MarkInterrupted, Record, storeVars, Terminal, BaseInv, TypeOK,
                     StoreTypeOK
  <2>4. CASE UNCHANGED storeVars  BY <2>4 DEF storeVars
  <2>5. UNCHANGED storeVars \/ Next \/ \E k \in Jobs : FinishRefused(k) \/ RetireRow(k)
    BY <1>1 DEF DashNext, ProbeStep, ShutdownStep, ProbeStarts, ListPaths, LockNext, ReadRows,
       StillBusy, ProbeEnds, LaunchTest, LaunchTestFails, TestCollected, TestTimesOut,
       CancelTimesOut, ShutdownBegins, ShutdownFindsNothing, ShutdownCancels, CancelLookup,
       ShutdownCallReturns,
       ShutdownSeesExit, ShutdownTerminates, vars
  <2> QED  BY <2>1, <2>2, <2>3, <2>4, <2>5
<1>2. RecoveryInv /\ [DashNext]_allVars =>
        [\A j \in Jobs : status[j] \in Terminal => status'[j] = status[j]]_allVars
  BY <1>1
<1> QED  BY <1>2, RecoveryInductive, PTL DEF DashSpec, TerminalStaysFinal

\* The condition of both theorems holds for a user who keeps to one concurrency.
COROLLARY StableCapacity ==
  ASSUME \A m, n \in Capacities : m = n
  PROVE  DashSpec => [][CapacityKept]_allVars
<1>1. SettledInv /\ SettledInv' => CapacityKept
  <2> SUFFICES ASSUME TypeOK, TypeOK' PROVE CapacityKept
    BY DEF SettledInv, BaseInv
  <2>1. capacity \in Capacities /\ capacity' \in Capacities
    BY DEF TypeOK
  <2>2. \A n \in Capacities : n \in Nat
    BY SlotsAssumption
  <2>3. \A j \in Jobs : cap[j] \in Capacities \cup {0}
    BY DEF TypeOK
  <2>4. capacity' = capacity /\ capacity \in Nat /\ \A j \in Jobs : cap[j] \in {capacity, 0}
    BY <2>1, <2>2, <2>3
  <2> QED  BY <2>4 DEF CapacityKept
<1> QED  BY <1>1, SettledInductive, PTL

=============================================================================
