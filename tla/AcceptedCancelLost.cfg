\* A cancellation accepted between finish_job's SELECT and UPDATE is lost.
SPECIFICATION Spec
CONSTANTS
  Jobs = {j1}
  Cancellers = {c1}
  MaxSlots = 1
  Capacities = {1}
  Faults = {}
  ErrorOutcomes = {"failed"}
INVARIANTS
  AcceptedCancelIsRecorded
