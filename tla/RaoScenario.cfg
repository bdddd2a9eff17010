SPECIFICATION Spec
CONSTANTS
  KindOf <- MCKindOf
  None <- MCNone
  States <- MCStates
  Cnecs <- MCCnecs
  StateOf <- MCStateOf
  Optimized <- MCOptimized
  CountriesOf <- MCCountriesOf
  Elements <- MCElements
  Shifters = {"p"}
  Injections = {"g"}
  NActions = 5
  Effect <- MCEffect
  Rules <- MCRules
  Operator <- MCOperator
  Elementary <- MCElementary
  NRange = 4
  ElementOf <- MCElementOf
  Table <- MCTable
  Ranges <- MCRanges
  RangeRules <- MCRangeRules
  RangeOperator <- MCRangeOperator
  MaxRa <- MCMaxRa
  MaxTopoPerTso <- MCMaxTopoPerTso
  MaxPstPerTso <- MCMaxPstPerTso
  MaxRaPerTso <- MCMaxRaPerTso
  MaxElementaryPerTso <- MCMaxElementaryPerTso
  Imported <- MCImported
  Cases <- MCCases
  NoTarget = 100
  Margin <- MCMargin
  AutoState <- MCAutoState
  Speed <- MCSpeed
  RangeSpeed <- MCRangeSpeed
  MaxRounds = 2
  MaxShifts = 2
  Combinations <- MCCombinations
  Key <- MCKey
  Near <- MCNear
  MaxDepth = 2
  MinImpact = 0
  RelativeImpact = 20
  Contingency = "co"
  PreventiveGrids <- MCPreventiveGrids
  Targets = {100, 1}
INVARIANTS
  SameSpeedSeesSameGrid
  AutomatonsKeepTheirPromise
  SearchKeepsItsPromise
  WinnerIsTheBest
PROPERTIES
  NoFurtherThanNeeded
CHECK_DEADLOCK FALSE
