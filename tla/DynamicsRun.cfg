CONSTANTS
  End = 4
  Step = 2
  DampingSteps = 2
  Schedule <- MCSchedule
  Relay <- MCRelay
  TrialsConverge = TRUE
SPECIFICATION Spec
CHECK_DEADLOCK FALSE
INVARIANTS
  EventsOnTime
  DelayExact
  DampedAfterDiscontinuity
  CrossedAtIsTheOnset
  OwedTripsHappen
PROPERTIES
  Terminates
