SPECIFICATION SupervisedSpec
CONSTANTS
  NoJob = NoJob
  NoWorker = NoWorker
  Workers = {w1, w2}
  Operators = {o1}
  InlineWorkers = {}
  TaskIds = {t1, t2}
  CleanupIds = {}
  CheckIds = {}
  MaxAttempts = 2
  BackoffUnit = 0
  ZombieTimeout = 2
  Day = 2
  DoneRetention = 3
  UpdateSettings = {FALSE}
  IsPostgres = FALSE
  PromptHandlers = FALSE
  MaxTime = 2
  MaxCrashes = 1
PROPERTIES
  DueIsClaimed
CHECK_DEADLOCK FALSE
