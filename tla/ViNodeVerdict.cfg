SPECIFICATION Spec
CONSTANTS
  NGoals = 2
  Budget = 3
  Chunk = 2
  Patience = {FALSE}
  Online = TRUE
INVARIANTS
  FinishedMeansConverged
