SPECIFICATION MCSpec
CONSTANTS
  ScanParts = {"plans", "iceberg", "files", "parquet", "tables", "native", "decode", "strings", "pinned"}
  NumColumns = 2
  MaxIds = 2
  ApproxSize = 3
  StringLimit = 2
  MaxFiles = 3
  MaxGroups = 3
  GroupSizes = {1, 2, 5}
  IceValues = {0, 1}
  MaxIceRows = 2
  IceBatch = 2
  Translations = {FALSE}
  VarintBase = 4
  Extras <- MCExtras
  MaxExtras = 1
  ArrayMax = 2
  OffsetThreshold = 2
  BitmapWord = 2
  Universe = 4
  MaxPosition = 8
  FileSize = 9
  HeaderSize = 2
  FooterAt = 7
  BlockSizes = {2, 3}
  MaxChunks = 3
  MaxChunk = 2
  MaskByte = 4
  VectorSize = 8
  TableBlock = 6
  OffsetBytes = 2
  ColumnAlign = 2
  VarcharSize = 2
  TableTypes <- MCTypes
  BatchSizes = {100}
  ChunkSizes = {3, 5}
  BlockBytes = 3
  BlockHeader = 1
  HostBlock = 5
  SegAlign = 2
  RowGroupRows <- MCRowGroupRows
  NsProjections <- MCNsProjections
  ByteBits = 2
  RoaringWord = 4
  RoaringChunk = 4
  MaxRoaring = 6
  Lanes = 1
  Warps = 2
  Vpt = 2
  RunRows = 2
  RleTile = 2
  MaxRun = 2
  AlpRows = 2
  PackRows = 2
  MaskBits = 2
  DecCodecs = {"UNCOMPRESSED", "CONSTANT", "BITPACKING", "RLE", "ALP", "ALPRD"}
  DecTypes = {4, 8}
  DecCells = {0, 100}
  OddCells = {100}
  MaxDecRows = 5
  MixedRows = 2
  Esc = 5
  Threads = 2
  WarpBytes = 2
  MaxSymbol = 2
  ScratchBytes = 4
  ChunkRows = 2
  HostLimit = 8
  CharLimit = 15
  SymbolTables <- MCTables
  StrCodecs = {"UNCOMPRESSED", "DICTIONARY", "FSST", "DICT_FSST"}
  StrCells <- MCStrCells
  MaxStrRows = 3
  MaxStrSegs = 2
  PinNames = {"t", "u"}
  PinGlobs <- MCPinGlobs
  PinSchema <- MCPinSchema
  PinSizes <- MCPinSizes
  ReadLimit = 3
  PinGpus = 2
  PinCalls <- MCPinCalls
  PinScans <- MCPinScans
  MaxPins = 3
CHECK_DEADLOCK FALSE
 
INVARIANT HostScanExact
INVARIANT NativeExact
 
INVARIANT ScanPlanExact
