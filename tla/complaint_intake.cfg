SPECIFICATION Spec
CONSTANTS
  r1 = r1 r2 = r2 r3 = r3
  c1 = c1 c2 = c2 c3 = c3
  Requests <- MCRequests
  Complaints <- MCComplaints
  Messages = {"m1"}
  Injections = {"i1"}
  Texts = {"b1", " B1"}
  Fixture = "b1"
  Fingerprint <- MCFingerprint
  Threads = {"t1"}
  Ids = {"m1"}
  Cases <- MCCases
  Window = 1
  MaxTime = 2
  None = None
SYMMETRY Symmetry
CHECK_DEADLOCK FALSE
INVARIANTS
  OneCasePerWindow
  FiledAsAsked
