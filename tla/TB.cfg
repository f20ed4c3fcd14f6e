SPECIFICATION Spec
CONSTANTS
  w1 = w1
  w2 = w2
  Workers = {w1, w2}
  Departed = departed
  NActions = 2
  Kind <- KindH
  DependsOn <- Independent
  Granted = {1, 2}
  Unkillable = {2}
  MaxAttempts = 2
  MaxToken = 3
SYMMETRY WorkerSymmetry
INVARIANT AttemptBudget
CHECK_DEADLOCK FALSE
