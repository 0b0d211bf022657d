\* A probe that listed the slot files before the capacity grew retires a live row.
SPECIFICATION DashSpec
CONSTANTS
  Jobs = {j1}
  Cancellers = {}
  MaxSlots = 2
  Capacities = {1, 2}
  Faults = {}
  ErrorOutcomes = {"failed"}
PROPERTIES
  RetiresOnlyDead
