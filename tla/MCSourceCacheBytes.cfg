CONSTANTS
  Readers = {r1}
  Refreshers = {g1}
  None = None
  Torn = Torn
  Blocks <- TwoEach
  Ranges = TRUE
  Cuts = TRUE
  RemoveFails = FALSE
  MaxVersion = 2
SPECIFICATION Spec
INVARIANT EntryIsOriginal
