CONSTANTS
  Reported = {"key"}
  Dropped = {"pub"}
  Files <- MCFiles
  MaxLines = 4
SPECIFICATION FairSpec
INVARIANTS
  TypeOK
  LinesIncreasing
  BlocksDisjoint
  StrictComplete
  IndentedComplete
PROPERTIES
  Returns
