CONSTANTS
  Requests = {r1, r2}
  None = None
  Marker = Marker
  MaxAge = 1
  CleanupRuns = TRUE
  ReadErrors = {}
  PowerLoss = {"bytes"}
  ClientsKeep = FALSE
  MaxVersion = 1
  MaxInvalidations = 1
  MaxTime = 2
SPECIFICATION Spec
SYMMETRY Symmetry
INVARIANTS
  InvalidatedIsIgnored
