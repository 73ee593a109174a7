CONSTANTS
  Files <- MCFiles
  Dirs <- MCDirs
  Beneath <- MCBeneath
  WalkOrder <- MCWalkOrder
  PathOrder <- MCPathOrder
  PruneNames = {"nm"}
  ExcludedPaths = {"x"}
  Contents <- MCContents
  Bytes <- MCBytes
  Texts <- MCTexts
  Mixed <- MCMixed
  Parse <- MCParse
  MaxSize = 2
  Roots <- OneFile
  AllFlags = {FALSE}
  JobCounts = {1}
  Disks <- StillTrees
  MaxChanges = 0
SPECIFICATION Spec
INVARIANTS
  SymlinksNeverFollowed
