SPECIFICATION Spec
CONSTANTS
  r1 = r1
  r2 = r2
  Requests = {}
  Objectives <- AllObjectives
  MaxFaults = 0
  MaxAnswers = 0
PROPERTY CancelledIsFinal
CHECK_DEADLOCK FALSE
