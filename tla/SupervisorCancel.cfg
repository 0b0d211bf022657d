\* Two jobs share one slot; two cancel() calls interleave with each other, with
\* run(), its exception handler, Ctrl+C and the death of a supervisor.
SPECIFICATION Spec
CONSTANTS
  Jobs = {j1, j2}
  Cancellers = {c1, c2}
  MaxSlots = 1
  Capacities = {1}
  Faults = {"error", "interrupt", "crash"}
  ErrorOutcomes = {"failed"}
SYMMETRY Symmetry
INVARIANTS
  RunningIsSupervised
  SettledOnReturn
  AnswerMatchesRow
  ResultNeverRefused
  FirstTerminalEventIsStatus
  CancelledMeansNeverStarted
  CancelRequestedStopsWorker
PROPERTIES
  TerminalIsFinal
  ImplementsLifecycle
