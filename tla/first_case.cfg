SPECIFICATION FilingSpec
CONSTANTS
  catalog = catalog
  intake = intake
  p1 = p1
  p2 = p2
  None = None
  Installs <- Both
  Catalog <- OnlyCatalog
  Processes <- Shells
  Lifetime = 2
  MaxAge = 1
  MaxClock = 2
  MaxCredentials = 4
  MaxEdits = 1
  MaxRuns = 2
  MaxAttempts = 2
SYMMETRY Symmetry
INVARIANTS
  OneLiveCredential
  FilingIsRepeatable
CHECK_DEADLOCK FALSE
