CONSTANTS
  r1 = r1
  r2 = r2
  r3 = r3
  k1 = k1
  k2 = k2
  KeysOf <- MCKeysOf
  Requests = {r1, r2, r3}
  Keys = {k1, k2}
  Calls = {c1, c2}
  NoCall = NoCall
  NoKey = NoKey
SPECIFICATION FairSpec
INVARIANTS
  TypeOK
  HeldFileExists
  NoOrphanFile
  ServedUnderOwnKey
  SingleFlight
  OnlyOwnCancellation

PROPERTY RequestsReturn
