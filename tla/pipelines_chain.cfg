CONSTANTS
  p1 = p1  p2 = p2  p3 = p3
  w1 = w1  w2 = w2  c1 = c1  c2 = c2
  None = None
  Pipe <- ThreePipes
  Result = p3
  Kind <- ChainKind
  Parents <- ChainParents
  Full <- ChainFull
  NoRepo <- NoEdges
  Inputs <- ChainInputs
  InitialScans <- Scans1
  SingleScan = TRUE
  LimitPipe <- NoEdges
  Outputs <- One
  Worker <- TwoWorkers
  Creator <- TwoLambdas
  MaxCreated = 0
  FirstLoad = {"created", "completed"}
SPECIFICATION FairSpec
PROPERTY QueryCompletes
