SPECIFICATION FairSpec
CONSTANTS
  WordBits = 3
  MapX = 4
  MapY = 2
  NTheta = 3
  Reaches <- MCReaches
  Operands <- MCOperands
  None = None
  MaxSet = 2
INVARIANTS
  BoardSound
PROPERTIES
  ImplementsSets
  IterationEnds
