SPECIFICATION MCSpec
CONSTANTS
  OperatorParts = {"joins", "keys", "plans", "aggregates", "orders", "expressions", "legacy_scan", "legacy_join", "legacy_topn", "legacy_relations"}
  JoinPlans <- MCPlans
  Comparisons = {"equal"}
  LeftRows <- MCLeft
  RightRows <- MCRight
  JKeys = {0, 1}
  NoKey = NoKey
  PartitionBytes = {1, 2}
  ConcatBytes = 1
  MaxBuildBytes = 4
  Tables <- KeyTables
  OtherRows <- KeyOthers
  Projections <- KeyMaps
  KJoinTypes <- KeyTypes
  MaxHeight = 3
  Leaves <- AllLeaves
  Unaries <- AllUnaries
  Binaries <- AllBinaries
  MaxNodes = 5
  AggCells <- MCAggCells
  AggGroups <- MCAggGroups
  AggLists <- MCAggLists
  MaxAggRows = 3
  MaxAggBatches = 2
  MaxPartitions = 2
  SumBits = 3
  OrdPlans <- MCOrdPlans
  MaxKey = 2
  MaxOrdRows = 3
  MaxOrdBatches = 3
  SizeBits = 4
  MaxExprNodes = 5
  ExprTables <- MCExprTables
  MinAstSizes = {1, 2}
  BetweenFlags = {"[]"}
  LgBits = 4
  LgTables <- MCLgTables
  LgQueries <- MCLgQueries
  LgThreads = {"t1", "t2"}
  LgWidth = 2
  LgPad = 2
  LgAlign = 4
  GpuCache = 64
  CpuCache = 24
  LgBlock = 2
  LgItems = 2
  MaxLgScans = 3
  LjTuples <- MCLjTuples
  LjConds <- MCLjConds
  LjKinds = {"SEMI", "ANTI", "MARK", "RIGHT", "RIGHT_SEMI", "RIGHT_ANTI", "NLJ"}
  LjGeometries <- MCLjGeometries
  LjUniqueOn = {"eq"}
  LjHash <- MCLjHash
  LjStep = 5
  LjWord = 16
  LjBuildRows = 2
  LjProbeRows = 2
  KeyBits = 3
  ByteValues = 2
  PrefixBytes = 3
  MAX_THREAD_TOP_K = 2
  TopThreads = 2
  TopBlocks = 2
  TopQueries <- MCTopQueries
  LmTables <- MCLmTables
  LmKinds = {"INNER", "LEFT", "OUTER", "MARK"}
  LmVector = 4
  LmSteps = 6
CHECK_DEADLOCK FALSE
INVARIANT JoinsExact
INVARIANT PlanSound
 
 
