\* A test whose row does not exist yet when the dashboard stops is not cancelled.
SPECIFICATION DashSpec
CONSTANTS
  Jobs = {j1}
  Cancellers = {c1}
  MaxSlots = 1
  Capacities = {1}
  Faults = {}
  ErrorOutcomes = {"failed"}
INVARIANTS
  ShutdownStopsTest
