SPECIFICATION ExperimentSpec
CONSTANTS
  d1 = d1
  h1 = h1
  k1 = k1
  s1 = s1
  s2 = s2
  None = None
  Discovery = {d1}
  Hidden = {h1}
  Controls = {k1}
  Order <- MCOrder
  Executors = {s1, s2}
  Worlds <- MCWorlds
  Significant <- MCSignificant
  Reproduced <- MCReproduced
  MaxTokens = 2
  MaxCalls <- MCMaxCalls
CHECK_DEADLOCK FALSE
INVARIANTS
  VerdictIsTrue
  BundleIsAcceptable
PROPERTIES
  NeverLeftRunning
