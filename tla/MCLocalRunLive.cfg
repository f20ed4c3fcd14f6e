SPECIFICATION FairSpec
CONSTANTS
  w1 = w1
  w2 = w2
  Workers = {w1, w2}
  Departed = departed
  NActions = 1
  Kind <- KindCode
  DependsOn <- NoDependencies
  Granted = {1}
  Unkillable = {}
  MaxAttempts = 1
  MaxToken = 3
PROPERTY RunComesToRest
CHECK_DEADLOCK FALSE
