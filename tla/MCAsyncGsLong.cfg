SPECIFICATION Spec
CONSTANTS
  NX = 5
  NY = 1
  NTheta = 1
  Actions <- LongActions
  Trans <- LongTrans
  ProbBase = 2
  TopCost = 8
  Penalty <- LongPenalty
  FreeCols <- MCCols
  GoalStates <- LongGoals
  Cols <- GridCols
  NT <- NTheta
  EvalStates <- GridEval
  Slots <- GridSlots
  Nbr <- GridNbr
  Backup <- GridBackup
  MaxCost <- TopCost
  Value0 <- GridValue0
  Reference <- MCReference
  Near <- GridNear
  Scan <- GridScan
  Threads = {w0, w1, w2}
  Leader = w0
  Block = 1
  MaxIter = 9
  MaxSolves = 1
SYMMETRY Followers
INVARIANTS
  SingleWriter
  NoLostUpdate
  ExactAtConvergence
PROPERTIES
  RebuildAlone
CHECK_DEADLOCK FALSE
