CONSTANTS
  NX = 4
  NY = 2
  NTheta = 2
  MaxWalls = 2
  Lists = {{2, 4, 5}}
  ProbBase = 2
  TopCost = 700
  Word = 1024
  Reach = 120
  RefDepth = 10
  XYRange = 1
  HitReach = 0
  HitPenalty = 8
  CallCap = 2
  LoopCap = 8
  Actions <- MCActions
  Trans <- MCTrans
  Penalty <- MCPenalty
  Mazes <- MCPocketMazes
  Robots <- MCRobots
  Scans <- MCScans
SPECIFICATION FairSpec
INVARIANTS TableSound
PROPERTY EventuallySolved
CHECK_DEADLOCK FALSE
