\* Two jobs on slots whose number changes between one and two, next to a cancel()
\* call, while the job store fails and supervisors are killed.
SPECIFICATION Spec
CONSTANTS
  Jobs = {j1, j2}
  Cancellers = {c1}
  MaxSlots = 2
  Capacities = {1, 2}
  Faults = {"store", "crash"}
  ErrorOutcomes = {"failed"}
SYMMETRY Symmetry
INVARIANTS
  TypeOK
  WorkerHoldsSlot
  SlotsHeldOnlyWhileRunning
