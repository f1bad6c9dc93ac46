SPECIFICATION Spec
CONSTANTS
  Keys = {"s1", "c1", "r1", "r2"}
  KindOf <- MCKindOf
  Grants = {g1, g2, g3}
  Reasons = {"drift"}
  Reconcilers = {"rec1"}
  Faulty = {"r1", "r2"}
  Doomed = {"r1", "r2"}
  None = None
CHECK_DEADLOCK FALSE
SYMMETRY Symmetry
INVARIANTS
  ViewIsReal
  EffectsAuthorised
  OneEffectPerTransition
