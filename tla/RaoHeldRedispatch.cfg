SPECIFICATION Spec
CONSTANTS
  KindOf <- MCKindOf
  None <- MCNone
  States <- MCStates
  Cnecs <- MCCnecs
  StateOf <- MCStateOf
  Optimized <- MCCnecs
  CountriesOf <- MCCountriesOf
  Elements <- MCElements
  Shifters = {"p"}
  Injections = {"g"}
  NActions = 3
  Effect <- MCEffect
  Rules <- MCRules
  Operator <- MCOperator
  Elementary <- MCElementary
  NRange = 3
  ElementOf <- MCElementOf
  Table <- MCTable
  Ranges <- MCRanges
  RangeRules <- MCRangeRules
  RangeOperator <- MCRangeOperator
  MaxRa <- MCMaxRa
  MaxTopoPerTso <- MCNoCap
  MaxPstPerTso <- MCNoCap
  MaxRaPerTso <- MCNoCap
  MaxElementaryPerTso <- MCNoCap
  Imported <- MCImported
  Cases <- MCCases
  NoTarget = 100
  Margin <- MCMargin
  Contingencies = {1, 2}
  StopAtTarget = 100
  MinImprovement = 0
  EnforceSecurity = FALSE
  Conditions = {"cost increase", "possible curative improvement"}
INVARIANT DecidedIsNotInForceYet
CHECK_DEADLOCK FALSE
