CONSTANTS
  Requests = {r1}
  None = None
  Marker = Marker
  MaxAge = 1
  CleanupRuns = TRUE
  ReadErrors = {}
  PowerLoss = {}
  ClientsKeep = FALSE
  MaxVersion = 1
  MaxInvalidations = 2
  MaxTime = 2
SPECIFICATION Spec
INVARIANTS
  InvalidatedIsIgnored
