CONSTANTS
  Files <- MCFiles
  Dirs <- MCDirs
  Beneath <- MCBeneath
  WalkOrder <- MCWalkOrder
  PathOrder <- MCPathOrder
  PruneNames = {"nm"}
  ExcludedPaths = {"x"}
  Contents <- MCContents
  Bytes <- MCBytes
  Texts <- MCTexts
  Mixed <- MCMixed
  Parse <- MCParse
  MaxSize = 2
  Roots <- BusyRoots
  AllFlags = {FALSE}
  JobCounts = {2}
  Disks <- BusyTrees
  MaxChanges = 2
SPECIFICATION Spec
INVARIANTS
  DataRaceFree
  StageInv
  Accounting
  StableFilesExact
  NoPhantoms
PROPERTIES
  FrozenWhileShared
  ImplementsInventory
