CONSTANTS
  NX = 3
  NY = 2
  NTheta = 2
  MaxWalls = 1
  Lists = {{1, 4, 5}, {2, 4, 5}, {3, 4, 5}}
  ProbBase = 2
  TopCost = 700
  Word = 1024
  Reach = 120
  RefDepth = 10
  MaxIters = {1, 20}
  LabelSetting = {TRUE, FALSE}
  Actions <- MCActions
  Trans <- MCTrans
  Penalty <- MCPenalty
  Mazes <- MCMazes
SPECIFICATION FairSpec
INVARIANTS IInv NeverBelow LabelsExact
PROPERTY EventuallyConverged
CHECK_DEADLOCK FALSE
