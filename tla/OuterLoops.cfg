CONSTANTS
  NLoops = 3
  Kind <- MCKind
  Budget = 4
SPECIFICATION Spec
CHECK_DEADLOCK FALSE
INVARIANTS
  ConvergedIsFixedPoint
  ConsultedOnCurrentSolve
  ReturnedStateIsSolved
PROPERTIES
  KeepsPromise
