SPECIFICATION Spec
CONSTANTS
  FileCount = 2
  Looks <- MCLooks
  Recent <- MCRecent
  Anchoring <- MCAnchoring
  RowCount <- MCRowCount
  Dials <- MCDials
  FlushAt = 2
  InFlight = 2
  VersionMax <- MCVersionMax
  ShapeMax = 1
  IdentityMax = 2

INVARIANT KeyedAreSearchable
