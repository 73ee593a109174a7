CONSTANTS
  Files <- MCFiles
  Dirs <- MCDirs
  Beneath <- MCBeneath
  WalkOrder <- MCWalkOrder
  PathOrder <- MCPathOrder
  PruneNames = {"nm"}
  ExcludedPaths = {"x"}
  Contents <- MCContents
  Bytes <- MCBytes
  Texts <- MCTexts
  Mixed <- MCMixed
  Parse <- MCParse
  MaxSize = 2
  Roots <- AnyRoot
  AllFlags = {TRUE, FALSE}
  JobCounts = {1, 3}
  Disks <- StillTrees
  MaxChanges = 0
SPECIFICATION FairSpec
INVARIANTS
  TypeOK
  StrictOrder
  StableFilesExact
  CountsExact
PROPERTIES
  Returns
