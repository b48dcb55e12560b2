SPECIFICATION Spec
CONSTANTS
  NoJob = NoJob
  NoWorker = NoWorker
  Workers = {w1, w2}
  Operators = {o1}
  InlineWorkers = {w2}
  TaskIds = {t1, t2}
  CleanupIds = {}
  CheckIds = {}
  MaxAttempts = 2
  BackoffUnit = 1
  ZombieTimeout = 2
  Day = 2
  DoneRetention = 3
  UpdateSettings = {FALSE}
  IsPostgres = FALSE
  PromptHandlers = TRUE
  MaxTime = 5
  MaxCrashes = 1
SYMMETRY Symmetric
INVARIANTS
  OneRunner
  AttemptsPaidFor
PROPERTIES
  ImplementsLease
CHECK_DEADLOCK FALSE
