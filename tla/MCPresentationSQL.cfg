CONSTANTS
  c1 = c1
  c2 = c2
  s1 = s1
  Clients = {c1, c2}
  Bodies = {b1, b2}
  Absent = Absent
  Star = Star
  None = None
  Servers = {s1}
  ServerOf <- OneServer
SPECIFICATION FairSpec
INVARIANT TypeOK
PROPERTIES
  Refines
  RequestsReturn
