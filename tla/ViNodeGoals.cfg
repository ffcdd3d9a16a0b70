SPECIFICATION FairSpec
CONSTANTS
  NGoals = 2
  Budget = 3
  Chunk = 2
  Patience = {TRUE, FALSE}
  Online = TRUE
INVARIANTS
  IInv
  OwnVerdict
  HandleOwned
  StaleSweepsStop
PROPERTIES
  DriveOnlyCurrent
  EveryGoalAnswered
