SPECIFICATION FairSpec
CONSTANTS
  NX = 2
  NY = 9
  NTheta = 3
  Actions <- MCActions
  Trans <- MCTrans
  ProbBase = 2
  TopCost = 40
  Penalty <- MCPenalty
  FreeCols <- MCFree
  GoalStates <- MCGoals
  Cols <- GridCols
  NT <- NTheta
  EvalStates <- GridEval
  Slots <- GridSlots
  Nbr <- GridNbr
  Backup <- GridBackup
  MaxCost <- TopCost
  Value0 <- GridValue0
  Reference <- MCReference
  Near <- GridNear
  Scan <- GridScan
  Mx <- DispX
  My <- DispY
  Mt <- DispT
  Open <- MCFree
  NumRows <- NY
  MaxPen = 2
  Best <- GridBest
  BlockRows = 2
  CoupleSafety = 4
  ThreadNumbers = {1, 2}
  MinCols = 1
  MaxIter = 40
INVARIANTS
  IInv
  BlocksSafe
  SinkExact
  MasksCleared
PROPERTIES
  EventuallyConverged
CHECK_DEADLOCK FALSE
