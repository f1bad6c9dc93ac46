SPECIFICATION Spec
CONSTANTS
  Cases = {"c1", "c2"}
  WorkOrders = {"w1","w2","w3"}
  CaseOf <- MCCaseOf
  ChangeSets = {"cs1","cs2","cs3","cs4"}
  Own <- MCOwn
  Contents = {"h1"}
  Drafts <- MCDrafts
  Reports = {e1, e2}
  Grants = {a1, a2}
  Releases = {r1, r2}
  MaxIncidents = 1
  None = None
SYMMETRY Symmetry
CHECK_DEADLOCK FALSE
INVARIANTS
  ReleaseRestsOnGrant
  VerdictRestsOnGate
  CommittedIsReleased
  CaseFollowsItsChange
