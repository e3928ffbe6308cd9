CONSTANTS
  p1 = p1  p2 = p2  p3 = p3
  w1 = w1  w2 = w2  c1 = c1  c2 = c2
  None = None
  Pipe <- TwoPipes
  Result = p2
  Kind <- PairKind
  Parents <- PairParents
  Full <- NoEdges
  NoRepo <- NoEdges
  Inputs <- PairInputs
  InitialScans <- Scans1
  SingleScan = TRUE
  LimitPipe <- NoEdges
  Outputs <- One
  Worker <- TwoWorkers
  Creator <- OneLambda
  MaxCreated = 0
  FirstLoad = {"created", "completed"}
SPECIFICATION FairSpec
PROPERTY FinishedResultCompletes
CHECK_DEADLOCK FALSE
