\* The launch and the directories of jobs, the broker, and what is shown of workers.
SPECIFICATION Spec
CONSTANTS
  Limit = 1
  ReadOnlyBudget = 24
  EditJobs = {j1, j2}
  MaxTests = 2
  MaxClock = 3
  Freshness = 1
  Wires <- MCWires
  RowLimit = 2
  MaxRows = 3
  NodeVersions = {9, 10, 18}
  Paths <- MCPaths
  PlainNames = {"src"}
  SensitiveNames = {"key"}
  Trees <- MCTrees
SYMMETRY Symmetry
CHECK_DEADLOCK FALSE
INVARIANTS
  BudgetReachesWorker
  EditRunsConfined
  ModelVerifiedAfterWaiting
  StartedWorktreeKeepsRow
  RequestTextRemoved
  ReadyMeansHealthyTest
  TotalsCompleteOrUnknown
PROPERTIES
  EditsVanishOnlyByDiscard
  HostChoiceTrusted
  BrokerConfined
