CONSTANTS
  Requests = {r1, r2}
  Idents = {i1}
  Creds = {alice}
  NoCred = NoCred
  None = None
  TTL = 1
  MaxEntries = 1
SPECIFICATION Spec
INVARIANT NoDecisionSurvivesInvalidation
