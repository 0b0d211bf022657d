\* The capacity grows during a probe, so that a row may be retired under a live
\* supervisor, whose finish_job is then refused; cancellations and the dashboard's
\* shutdown interleave.
SPECIFICATION DashSpec
CONSTANTS
  Jobs = {j1}
  Cancellers = {c1}
  MaxSlots = 2
  Capacities = {1, 2}
  Faults = {"error"}
  ErrorOutcomes = {"failed"}
INVARIANTS
  DashTypeOK
  ProbeHoldsNothingAfterwards
  SettledOnReturn
