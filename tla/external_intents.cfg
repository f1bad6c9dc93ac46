SPECIFICATION FairSpec
CONSTANTS
  Keys = {"k1", "i1", "r1"}
  KindOf <- MCKindOf
  Requests = {"q1", "q2", "qi", "qr"}
  KeyOf <- MCKeyOf
  Teams <- MCTeams
  Workers = {"w1"}
  WorkerOf <- MCWorkerOf
  BaseOf <- MCBaseOf
  Quarantined = "k1"
  Movable = {"k1"}
  MaxFaults = 1
  Malformed = Malformed
  Refused = Refused
  NoAnswer = NoAnswer
  None = None
CHECK_DEADLOCK FALSE
INVARIANTS
  CompletedIsReal
PROPERTIES
  CandidateUnderLease
  ImplementsDurableIntent
  LandedIsRecorded
