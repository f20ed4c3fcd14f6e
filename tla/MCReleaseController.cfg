SPECIFICATION Spec
CONSTANTS
  GithubRuns = {"a", "b", "c"}
  Workflows = {"w1", "w2"}
  WorkflowOf <- MCWorkflowOf
  Subjects = {"s"}
  Pins = {"p", "q"}
  Deployments <- MCDeployments
  Requests = {q1, q2}
  MaxTime = 3
  HandoffLife = 1
  ReceiptWindow = 2
  DecisionWindow = 1
  ReservationLife = 1
  None = None
SYMMETRY RequestSymmetry
INVARIANTS TypeOK ReceiptOfCurrentAuthority OneLiveHandoff
PROPERTIES HistoryKept ImplementsJudgement
