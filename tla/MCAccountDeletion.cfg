SPECIFICATION Spec
CONSTANTS
  r1 = r1
  s1 = s1
  d1 = d1
  None = None
  Runs = {r1}
  Stores = {s1}
  Deletions = {d1}
  DailyLimit = 1
  IndexLimit = 2
  MaxGenerations = 2
INVARIANTS
  TypeOK
  StaleRequestsFenced
PROPERTIES
  DeletionIsComplete
