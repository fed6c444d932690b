CONSTANTS
  Requests = {r1, r2}
  None = None
  Marker = Marker
  MaxAge = 1
  CleanupRuns = TRUE
  ReadErrors = {"open"}
  PowerLoss = {"name"}
  ClientsKeep = TRUE
  MaxVersion = 2
  MaxInvalidations = 0
  MaxTime = 3
SPECIFICATION Spec
SYMMETRY Symmetry
INVARIANTS
  TypeOK
  ServedIsCurrent
  ServedIsWhole
