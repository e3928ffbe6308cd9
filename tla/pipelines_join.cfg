CONSTANTS
  p1 = p1  p2 = p2  p3 = p3
  w1 = w1  w2 = w2  c1 = c1  c2 = c2
  None = None
  Pipe <- ThreePipes
  Result = p3
  Kind <- JoinKind
  Parents <- JoinParents
  Full <- JoinFull
  NoRepo <- NoEdges
  Inputs <- JoinInputs
  InitialScans <- Scans2
  SingleScan = FALSE
  LimitPipe <- NoEdges
  Outputs <- One
  Worker <- TwoWorkers
  Creator <- TwoLambdas
  MaxCreated = 3
  FirstLoad = {"completed"}
SPECIFICATION Spec
INVARIANT NoTaskAfterFinish
INVARIANT NoInputLeftBehind
INVARIANT NothingQueuedAtCompletion
INVARIANT PlanOutlivesItsUsers
SYMMETRY Symmetry
CHECK_DEADLOCK FALSE
