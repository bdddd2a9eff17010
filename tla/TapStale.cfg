CONSTANTS
  NControllers = 3
  Quantity <- MCQuantity
  Target <- MCTarget
  Half <- MCHalf
  Low <- MCLow
  High <- MCHigh
  Ratio <- MCRatio
  Start <- MCStart
  MaxTapShift = 1
  MaxDirectionChanges = 2
  Budget = 10
  Disturbances = 1
  Measurements <- MCMeasurements
  Sensitivities <- MCSensitivities
SPECIFICATION Spec
CHECK_DEADLOCK FALSE
INVARIANTS
  InDeadbandIsMeasured
