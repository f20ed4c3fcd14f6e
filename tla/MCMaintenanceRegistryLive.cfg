SPECIFICATION FairSpec
CONSTANTS
  p1 = p1
  p2 = p2
  i1 = i1
  r1 = r1
  r2 = r2
  None = None
  Repositories = {p1, p2}
  Unreachable = {p1}
  Issues = {i1}
  RepositoryOf <- SecondsIssue
  Runs = {r1}
  Policies <- OnlyAutomatic
  MaxScheduled = 2
  MaxRepairs = 1
  MaxFaults = 1
  MaxGenerations = 0
PROPERTIES
  LabelledIssueFound
  MergedBranchRetired
