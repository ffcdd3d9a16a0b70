CONSTANTS
  NX = 4
  NY = 2
  NTheta = 2
  MaxWalls = 2
  Lists = {{3, 4, 5}}
  ProbBase = 2
  TopCost = 668
  Word = 1024
  Reach = 120
  RefDepth = 10
  Tau = 0
  TopK = 9
  Step = 2
  Fine = 1
  CoarseBudget = 1
  ThetaBudget = 2
  LocalSweeps = 2
  MaxIter = 30
  Kinds = {"pad"}
  Actions <- MCActions
  Trans <- MCTrans
  Penalty <- MCPenalty
  Mazes <- MCMazes
  Coarse <- MCCoarse
SPECIFICATION FairSpec
INVARIANT ReachedExact
CHECK_DEADLOCK FALSE
