CONSTANTS
  r1 = r1
  r2 = r2
  alice = alice
  guest = guest
  repository = repository
  elsewhere = elsewhere
  None = None
  Requests = {r1, r2}
  Sessions = {alice, guest}
  Permitted = {alice}
  Identifiers <- Names
  Mappings <- ProbedThenPublic
  AllowedOrigins = {repository}
  Default = "file"
  MaxVersion = 2
SPECIFICATION Spec
SYMMETRY Symmetry
INVARIANTS
  TypeOK
  ServedIsPermitted
  AnswersAreCurrent
