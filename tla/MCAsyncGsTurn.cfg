SPECIFICATION FairSpec
CONSTANTS
  NX = 3
  NY = 1
  NTheta = 2
  Actions <- TurnActions
  Trans <- TurnTrans
  ProbBase = 2
  TopCost = 6
  Penalty <- TurnPenalty
  FreeCols <- MCCols
  GoalStates <- TurnGoals
  Cols <- GridCols
  NT <- NTheta
  EvalStates <- GridEval
  Slots <- GridSlots
  Nbr <- GridNbr
  Backup <- GridBackup
  MaxCost <- TopCost
  Value0 <- GridValue0
  Reference <- MCReference
  Near <- GridNear
  Scan <- GridScan
  Threads = {w0, w1}
  Leader = w0
  Block = 2
  MaxIter = 2
  MaxSolves = 6
INVARIANTS
  IInv
PROPERTIES
  ImplementsAsyncVi
  EventuallyConverged
CHECK_DEADLOCK FALSE
