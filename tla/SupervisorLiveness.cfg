\* Progress under fair supervisors and cancellers; workers may hang for ever.
SPECIFICATION FairSpec
CONSTANTS
  Jobs = {j1, j2}
  Cancellers = {c1}
  MaxSlots = 1
  Capacities = {1}
  Faults = {"error"}
  ErrorOutcomes = {"failed"}
PROPERTIES
  EveryJobSettles
  CancelReturnsAndSettles
