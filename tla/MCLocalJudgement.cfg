SPECIFICATION Spec
CONSTANTS
  r1 = r1
  r2 = r2
  Runs = {r1}
  GoRuns <- MCGoRuns
  Judged = {r1}
  Processes = {p1, p2}
  MaxEvents = 7
  MaxSwitches = 0
  None = None
SYMMETRY ProcessSymmetry
PROPERTIES ImplementsJudgement
CHECK_DEADLOCK FALSE
