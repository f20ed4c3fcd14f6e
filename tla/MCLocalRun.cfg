SPECIFICATION Spec
CONSTANTS
  w1 = w1
  w2 = w2
  Workers = {w1, w2}
  Departed = departed
  NActions = 2
  Kind <- KindSiblings
  DependsOn <- Independent
  Granted = {1, 2}
  Unkillable = {2}
  MaxAttempts = 2
  MaxToken = 3
SYMMETRY WorkerSymmetry
INVARIANTS
  TypeOK
  EffectsNotReplayed
  SoleExecutor
  EffectsInOrder
  SealedIsSuccess
  AttemptBudget
PROPERTY AmbiguousIsFinal
CHECK_DEADLOCK FALSE
