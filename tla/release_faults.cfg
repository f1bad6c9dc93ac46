SPECIFICATION FairSpec
CONSTANTS
  Keys = {"s1", "c1", "p1", "r1"}
  KindOf <- MCKindOf
  Grants = {"g1", "g2"}
  Reasons = {"drift"}
  Reconcilers = {"rec1"}
  Faulty = {"c1","p1","r1"}
  Doomed = {"p1","r1"}
  None = None
CHECK_DEADLOCK FALSE
PROPERTIES
  UnknownLeftByProof
  ImplementsLifecycle
  UnknownResolved
