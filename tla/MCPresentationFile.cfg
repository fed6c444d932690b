CONSTANTS
  Clients = {c1, c2}
  Bodies = {b1, b2}
  Absent = Absent
  Star = Star
  None = None
  Torn = Torn
  ShardPersists = TRUE
SPECIFICATION FairSpec
INVARIANTS
  TypeOK
  NeverTorn
PROPERTIES
  AcknowledgedSurvives
  Refines
  RequestsReturn
