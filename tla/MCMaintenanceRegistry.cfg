SPECIFICATION Spec
CONSTANTS
  p1 = p1
  p2 = p2
  i1 = i1
  r1 = r1
  r2 = r2
  None = None
  Repositories = {p1}
  Unreachable = {}
  Issues = {i1}
  RepositoryOf <- FirstsIssue
  Runs = {r1, r2}
  Policies <- OnlyAutomatic
  MaxScheduled = 2
  MaxRepairs = 1
  MaxFaults = 1
  MaxGenerations = 1
SYMMETRY RunSymmetry
INVARIANTS
  TypeOK
  OneRunPerFinding
  StaleWritesFenced
PROPERTY RetiresOnlyVerifiedMerged
