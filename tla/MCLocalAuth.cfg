CONSTANTS
  Requests = {r1, r2}
  Idents = {i1}
  Creds = {alice, bob}
  NoCred = NoCred
  None = None
  TTL = 1
  MaxEntries = 1
SPECIFICATION FairSpec
INVARIANTS
  TypeOK
  AllowsAreGrounded
  DenialsAreCurrent
  InvalidationClears
  ScopesAreBounded
  ProbesHaveOneLeader
PROPERTY RequestsAnswered
