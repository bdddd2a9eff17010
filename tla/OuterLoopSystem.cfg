CONSTANTS
  NLoops = 3
  Kind <- AllKinds
  Budget = 3
  LoopList <- AllLoops
  Buses <- MCBuses
  ImportedType <- MCTypes
  Machines <- MCMachines
  At <- MCAt
  Controls <- MCControls
  Balances = {"slack", "area"}
  Areas = {"north", "south"}
  Participating = {"north"}
  MaxOuterIter = 2
SPECIFICATION SysSpec
CHECK_DEADLOCK FALSE
INVARIANTS
  PatternFitsBusTypes
  SwitchedOnce
  ConvergedControlsAgree
