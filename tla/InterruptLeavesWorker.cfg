\* Ctrl+C leaves the worker running.
SPECIFICATION Spec
CONSTANTS
  Jobs = {j1}
  Cancellers = {}
  MaxSlots = 1
  Capacities = {1}
  Faults = {"interrupt"}
  ErrorOutcomes = {"failed"}
INVARIANTS
  InterruptStopsWorker
