SPECIFICATION IoSpec
CONSTANTS
  IoParts = {"gcs", "uring", "s3", "blocking", "cache", "ranges"}
  GcsRanges = {"r1", "r2"}
  Objects = {"o1", "o2"}
  ObjectOf <- GcsObjectOf
  Total <- GcsTotal
  Device = {"r2"}
  BidiMode = "auto"
  DirectPath = TRUE
  Window = 1
  MaxRetry = 1
  MaxRedirects = 1
  MaxOutstanding = 1
  MaxPerWrite = 1
  MaxSessions = 1
  DeviceWindow = 1
  LateWriteOk = FALSE
  DeadlineFires = FALSE
  UChunks = {"h1", "d1", "d2"}
  UReads = {"q1", "q2"}
  UHost = {"h1"}
  UReadOf <- UringReadOf
  USize <- UringSize
  UAvail <- UringAvail
  UOff <- UringOff
  UWanted <- UringWanted
  NumSlots = 1
  RingEntries = 2
  UStops = TRUE
  Transfers = {"t1", "t2", "t3"}
  SReads = {"v1", "v2"}
  SReadOf <- CurlReadOf
  SDevice = {"t1", "t2"}
  MaxConnections = 1
  MaxAttempts = 2
  BlkObject = 4
  BlkReads <- BlockingReads
  BlkConnections = 1
  BlkThreads = 2
  BlkRetries = 2
  BlkAnswers = {"206", "bare", "short", "long", "shifted", "200", "503", "refused"}
  StagingBlock = 2
  MaxBlkCalls = 2
  Entries = {"e1", "e2"}
  ChunksOf <- CacheChunksOf
  PReaders = {"p1"}
  SlabChunks = 1
  MaxSlabs = 2
  Budget = 2
  MaxInserts = 2
  MaxReads = 2
  MaxAge = 2
  FileSizes = {0, 5, 9}
  Block = 2
  Chunk = 4
  MaxOffset = 7
  MaxLen = 2
CHECK_DEADLOCK FALSE
INVARIANT ReadsExact
 
INVARIANT CacheSound
INVARIANT ReadersProtected
 
