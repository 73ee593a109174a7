CONSTANTS
  Names <- MCNames
  Globs <- MCGlobs
  Accepts <- MCAccepts
  Malformed = {"["}
  PatternLists <- MCPatternLists
  Paths <- MCPaths
  MaxSegments = 4
SPECIFICATION FairSpec
INVARIANTS
  TypeOK
  VerdictExact
  PruneHidesNoMore
PROPERTIES
  Returns
