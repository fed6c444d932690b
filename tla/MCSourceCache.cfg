CONSTANTS
  Readers = {r1, r2}
  Refreshers = {g1, g2}
  None = None
  Torn = Torn
  Blocks <- TwoThenOne
  Ranges = TRUE
  Cuts = TRUE
  RemoveFails = FALSE
  MaxVersion = 2
SPECIFICATION Spec
SYMMETRY Symmetry
INVARIANTS
  TypeOK
  EntryAgrees
  SizesAgree
  OneRefresh
