CONSTANTS
  Networks = {"n1", "n2"}
  Buses <- MCBuses
  Branches <- MCBranches
  From <- MCFrom
  To <- MCTo
  HalfOpen = {"h"}
  SlackBuses <- MCSlack
  Threads = {"t1", "t2"}
  Dedicated = TRUE
  Calls <- MCCalls
SPECIFICATION Spec
CHECK_DEADLOCK FALSE
INVARIANTS
  AnswersAreTheirOwn
  KeptSolverIsIntact
PROPERTIES
  KeepsPromise
