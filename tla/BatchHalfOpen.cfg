CONSTANTS
  Networks = {"n1", "n2"}
  Buses <- MCBuses
  Branches <- MCBranches
  From <- BesideFrom
  To <- BesideTo
  HalfOpen = {"h"}
  SlackBuses <- MCSlack
  Threads = {"t1", "t2"}
  Dedicated = TRUE
  Calls <- BesideCalls
SPECIFICATION Spec
CHECK_DEADLOCK FALSE
INVARIANTS
  SameOutageSameAnswer
