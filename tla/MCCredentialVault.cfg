SPECIFICATION VaultSpec
CONSTANTS
  r1 = r1
  r2 = r2
  r3 = r3
  s1 = s1
  None = None
  Stores = {s1}
  Runs = {r1, r2, r3}
  DailyLimit = 2
  MaxGenerations = 2
SYMMETRY RunSymmetry
INVARIANTS
  VaultTypeOK
  StaleKeyFenced
PROPERTY LeaseIsItsHolders
