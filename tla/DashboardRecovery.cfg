\* Repeated provider tests recover rows next to live supervisors; the capacity
\* is stable.
SPECIFICATION DashFairSpec
CONSTANTS
  Jobs = {j1, j2}
  Cancellers = {}
  MaxSlots = 2
  Capacities = {2}
  Faults = {"crash"}
  ErrorOutcomes = {"failed"}
PROPERTIES
  RetiresOnlyDead
  TerminalStaysFinal
  StrandedRunIsRetiredOrBlocked
