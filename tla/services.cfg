SPECIFICATION MCSpec
CONSTANTS
  Unset = Unset
  NoBaseline = NoBaseline
  NoMetric = NoMetric
  NoStudy = NoStudy
  NoLine = NoLine
  NoCall = NoCall
  None = None
  HalfMade = HalfMade
  NoPid = NoPid
  p1 = p1
  p2 = p2
  s1 = s1
  s2 = s2
  Procs = {p1, p2}
  Setups <- MCSetups
  Outcomes <- MCOutcomes
  Rules <- MCRules
  ProfileCommands = 2
  Codes = {1, 2}
  MaxCommits = 2
  MaxRuns = 2
  MaxHead = 2
  Studies = {s1, s2}
  Lines = {"l1", "l2"}
  Targets = {"H_bug", "H_general"}
  StudyRegimes <- MCStudyRegimes
  MaxDrifts = 1
  Roles = {"writer", "evaluator"}
  Required <- MCRequired
  Backlog = 2
  MaxCommands = 2
  MaxBrokerCalls = 5
  MaxTask = 2
  MemoryRegimes <- MCMemoryRegimes
  MaxApprovals = 1
  Pids = {1, 2, 3}
  WorkerRegimes <- MCWorkerRegimes
  MaxAttempts = 3
  MaxAutoRetries = 1
  MaxCalls = 4
  MaxChecks = 5
  SchedulerRegimes <- MCSchedulerRegimes
  SchemaErrors <- MCSchemaErrors
  Datasets <- MCDatasets
INVARIANTS TypeOK VerdictsRestOnMeasurements StudyIsWhole BrokerIsStrict MemoryIsBacked WorkerIsNamed AttemptsAreGoverned ReportsAreTrue
PROPERTIES DecisionsStay EveryPartEnds
CHECK_DEADLOCK FALSE
