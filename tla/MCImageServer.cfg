CONSTANTS
  r1 = r1
  r2 = r2
  Requests = {r1, r2}
  Paths <- MCPaths
  Images <- MCImages
  Unit = 2
  MaxParsedDimension = 20
  MaxParsedPercent = 1000
  TileWidth = 2
  MaxConcurrent = 1
  MaxInfoCacheEntries = 1
  MaxSourcePixels = 60
  MaxOutputPixels = 40
  MaxSourceBytes = 5
SPECIFICATION Spec
INVARIANTS TypeOK SlotsAreHeld InfoFollowsMeta TilesAreServed ExtractIsInside CanonicalNames
PROPERTIES RequestsReturn
