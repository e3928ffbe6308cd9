SPECIFICATION EngineSpec
CONSTANTS
  EngineParts = {"splits", "scan_cache", "creator", "resume", "downgrade", "lifecycle", "startup", "duckdb_scan"}
  QueryScans <- MCQueryScans
  ScanBatches = 2
  SplitsPer = 1
  PoolThreads = {"t1", "t2"}
  MaxInflight = 1
  PullWorkers = {"w1"}
  ScQueries = {"q1", "q2", "q3"}
  ScKind <- MCScKind
  ScParts = 2
  ScLevels = {"PARQUET", "TABLE_HOST"}
  MaxScRuns = 4
  MaxScWrites = 1
  MaxScFaults = 1
  ClWorkers = {"w1", "w2"}
  ClSlots = {"l1", "l2"}
  ClUnits = 3
  LambdaFails = TRUE
  MaxClQueries = 2
  MaxClFaults = 2
  RsTasks = {1, 2}
  RsOperators = 3
  MAX_OOM_RETRIES = 2
  MaxRsOom = 4
  ResumedOom = FALSE
  RepoBatches <- MCRepo
  TaskBatches <- MCTaskBatches
  BatchSize <- MCSizes
  QueuedTasks <- MCQueue
  DgWorkers = {"w1", "w2"}
  NeedBytes = 2
  GpuRoom = 5
  HostRoom = 1
  DiskRoom = 2
  PoolSlots = 2
  MonitorBytes = 2
  MaxMonitor = 1
  MaxDrains = 1
  LcConns <- MCLcConns
  LcWorkloads <- MCWorkloads
  MaxStatements = 3
  StartConfigs <- MCStartConfigs
  FailingSteps <- EarlySteps
  MaxLives = 2
  Ranges = 3
  Batch = 2
  MaxThreads = 4
  Id = {"i1", "i2", "i3"}
  Worker = {"w1", "w2"}
  None = "none"
CHECK_DEADLOCK FALSE
INVARIANT DispatchSound
PROPERTY ImplementsStream
INVARIANT ReplaySound
INVARIANT HandOverSound
INVARIANT ResumeSound
INVARIANT BorrowingSound
 
INVARIANT StatementsIsolated
 
INVARIANT FinishedIsComplete
INVARIANT ExhaustedMeansRead
