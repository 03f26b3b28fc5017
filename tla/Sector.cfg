SPECIFICATION Spec
CONSTANTS
  Catalogs <- MCCatalogs
  Rows <- MCRows
  Poses <- MCPoses
  Caps = {0, 1, 3}
  Extent = 8
  PerAxis = 2
  MinCell = 2
  BoxFactor = 1
  Ceiling = 3
  None = None
  Torn = Torn
INVARIANTS
  StreamShowsTheSector
