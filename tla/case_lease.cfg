SPECIFICATION FairSpec
CONSTANTS
  Cases = {"c1"}
  Exps = {"e1", "e2"}
  Workers = {"eval-runner", "quality-officer"}
  Runners = {"eval-runner"}
  Officers = {"quality-officer"}
  Cells = {"C", "G"}
  Probes = {"p1"}
  Outcomes = {"recovered"}
  Keys = {"k1"}
  Verdicts = {"ATTRIBUTED", "CONFOUNDED"}
  ApiEvents = {"case.escalated"}
  MaxToken = 2
  None = None
CHECK_DEADLOCK FALSE
INVARIANTS
  WorkIsCovered
  FixIsAttributed
PROPERTIES
  ReceiptsFrozen
  ImplementsFencedLease
  LostWorkIsTakenOver
