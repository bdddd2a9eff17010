SPECIFICATION Spec
CONSTANTS
  Units <- MCUnits
  Folds <- MCFolds
  Saturations <- MCSaturations
  FirstStep = 4
  StepMin = 1
  StepMax = 4
  MaxSteps = 7
  TraceLower = FALSE
  TargetLambda = 9
  ProbesConverge = TRUE
  Shared = {"m1", "m2", "m3"}
  Ratings <- MCRatings
  Totals <- MCTotals
  PlausibleMin = 1
  PlausibleMax = 5
  NoKey = 99
  Files = {"eq", "ssh"}
  MaxEdits = 3
  Nodes <- MCNodes
  SwitchEnds <- MCSwitchEnds
  Operable = {1, 2, 3, 4}
  Feeders <- MCFeeders
  Machines <- MCMachines
  OutOfService <- MCOutOfService
  Dimension = 4
  Sparsities <- MCSparsities
  BlockSize = 4
  BlockPatterns <- MCBlockPatterns
  NBlocks = 2
  Sizes <- MCSizes
  Matrices <- MCMatrices
  Factorings <- MCFactorings
  MaxCalls = 3
  Columns <- MCColumns
  Lower <- MCLower
  Upper <- MCUpper
  Objectives <- MCObjectives
  Tolerance = 0
  MaxNodes = 6
  GapPercent = 40
INVARIANTS
  LambdaMaxIsTheMaximum
CHECK_DEADLOCK FALSE
