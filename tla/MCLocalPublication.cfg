SPECIFICATION Spec
CONSTANTS
  r1 = r1
  r2 = r2
  Runs = {r1, r2}
  GoRuns <- MCGoRuns
  Judged = {r1}
  Processes = {p1}
  MaxEvents = 4
  MaxSwitches = 1
  None = None
INVARIANTS TypeOK SubjectIsPublished
PROPERTIES FindingNamesOneRepair
CHECK_DEADLOCK FALSE
