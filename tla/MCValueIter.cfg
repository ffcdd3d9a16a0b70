CONSTANTS
  NX = 3
  NY = 2
  NTheta = 2
  MaxWalls = 2
  Lists = {{2, 4, 5}}
  ProbBase = 2
  TopCost = 700
  Word = 1024
  Reach = 120
  RefDepth = 10
  Actions <- MCActions
  Trans <- MCTrans
  Penalty <- MCPenalty
  Mazes <- MCFewMazes
  Setups <- MCSetups
SPECIFICATION IterFairSpec
INVARIANTS TableSound CallsHold
PROPERTIES QuietIsNear EventuallyExact
CHECK_DEADLOCK FALSE
