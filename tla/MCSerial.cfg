CONSTANTS
  NX = 3
  NY = 2
  NTheta = 2
  MaxWalls = 2
  Lists = {{2, 4, 5}}
  ProbBase = 2
  TopCost = 700
  Word = 1024
  Reach = 120
  RefDepth = 10
  Tau = 3
  TopK = 1
  Step = 2
  Fine = 1
  CoarseBudget = 1
  ThetaBudget = 2
  LocalSweeps = 2
  MaxIter = 14
  Kinds = {"reference", "frontier3d", "stack", "frontier2d", "pad", "block", "pyramid", "coarse_theta", "tau", "topk"}
  Actions <- MCActions
  Trans <- MCTrans
  Penalty <- MCPenalty
  Mazes <- MCMazes
  Coarse <- MCCoarse
SPECIFICATION FairSpec
INVARIANTS TableSound Covered ParityAtEnd
PROPERTY EventuallyConverged
CHECK_DEADLOCK FALSE
