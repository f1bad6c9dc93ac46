SPECIFICATION Spec
CONSTANTS
  p1 = p1
  p2 = p2
  e1 = e1
  Raised = Raised
  None = None
  Probes = {p1, p2}
  JsonProbes = {p1}
  Evals = {e1}
  Executions <- MCExecutions
  MaxRevision = 2
  Asked = {p1}
  Claimed = {e1}
CHECK_DEADLOCK FALSE
INVARIANTS
  
  HonestIsAcceptable
  FailureIsNamed
