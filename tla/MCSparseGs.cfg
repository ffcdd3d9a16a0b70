SPECIFICATION FairSpec
CONSTANTS
  NX = 3
  NY = 1
  NTheta = 4
  Actions <- MCActions
  Trans <- MCTrans
  ProbBase = 2
  TopCost = 12
  Penalty <- MCPenalty
  FreeCols <- MCFree
  GoalStates <- MCGoals
  Reference <- MCReference
  Unreached = 99
  Layouts = {"masked", "plain"}
  Threads = {w0, w1}
  Block = 1
  MaxIter = 4
  MaxCalls = 4
INVARIANTS
  IInv
  NoHiddenChange
  PolicyFits
PROPERTIES
  ImplementsAsyncVi
  EventuallyConverged
CHECK_DEADLOCK FALSE
