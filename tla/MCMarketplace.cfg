SPECIFICATION Spec
CONSTANTS
  d1 = d1
  d2 = d2
  Deliveries = {d1, d2}
  Handlers = {h1, h2}
  Installs = {i1}
  Callbacks = {c1}
  Histories <- MCHistories
  MaxTime = 2
  Day = 1
  Retention = 1
  LogLimit = 2
  None = None
SYMMETRY HandlerSymmetry
INVARIANTS TypeOK EntitlementIsNewest FailureReported
