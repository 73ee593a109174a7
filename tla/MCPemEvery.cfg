CONSTANTS
  Reported = {"key"}
  Dropped = {"pub"}
  Files <- PlainFiles
  MaxLines = 4
SPECIFICATION Spec
INVARIANTS
  EveryBlock
