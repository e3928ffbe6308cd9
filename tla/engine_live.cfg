SPECIFICATION EngineFairSpec
CONSTANTS
  EngineParts = {"splits", "creator", "downgrade", "lifecycle", "duckdb_scan"}
  QueryScans <- MCQueryScans
  ScanBatches = 1
  SplitsPer = 1
  PoolThreads = {"t1", "t2"}
  MaxInflight = 1
  PullWorkers = {"w1"}
  ScQueries = {"q1", "q2", "q3"}
  ScKind <- MCScKind
  ScParts = 2
  ScLevels = {"PARQUET", "TABLE_HOST"}
  MaxScRuns = 4
  MaxScWrites = 1
  MaxScFaults = 1
  ClWorkers = {"w1", "w2"}
  ClSlots = {"l1", "l2"}
  ClUnits = 3
  LambdaFails = FALSE
  MaxClQueries = 2
  MaxClFaults = 2
  RsTasks = {1, 2}
  RsOperators = 3
  MAX_OOM_RETRIES = 2
  MaxRsOom = 4
  ResumedOom = FALSE
  RepoBatches <- MCRepo
  TaskBatches <- MCTaskBatches
  BatchSize <- MCSizes
  QueuedTasks <- MCQueue
  DgWorkers = {"w1", "w2"}
  NeedBytes = 2
  GpuRoom = 5
  HostRoom = 1
  DiskRoom = 2
  PoolSlots = 2
  MonitorBytes = 2
  MaxMonitor = 0
  MaxDrains = 1
  LcConns <- MCLcConns
  LcWorkloads <- MCWorkloads
  MaxStatements = 2
  StartConfigs <- MCStartConfigs
  FailingSteps <- EarlySteps
  MaxLives = 2
  Ranges = 2
  Batch = 2
  MaxThreads = 4
  Id = {"i1", "i2"}
  Worker = {"w1", "w2"}
  None = "none"
CHECK_DEADLOCK FALSE
 
PROPERTY QueriesReturn
PROPERTY WorkersAnswered
