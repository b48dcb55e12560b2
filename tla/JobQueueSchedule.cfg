SPECIFICATION Spec
CONSTANTS
  NoJob = NoJob
  NoWorker = NoWorker
  Workers = {w1}
  Operators = {o1}
  InlineWorkers = {}
  TaskIds = {}
  CleanupIds = {c1, c2, c3, c4}
  CheckIds = {u1}
  MaxAttempts = 2
  BackoffUnit = 1
  ZombieTimeout = 1
  Day = 2
  DoneRetention = 1
  UpdateSettings = {TRUE, FALSE}
  IsPostgres = FALSE
  PromptHandlers = TRUE
  MaxTime = 3
  MaxCrashes = 1
SYMMETRY Symmetric
INVARIANTS
  NoFlood
PROPERTIES
  ScheduleNeverLost
CHECK_DEADLOCK FALSE
