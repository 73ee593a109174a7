CONSTANTS
  Sessions <- Containers
  FlagName <- MCFlagName
  Inline <- MCInline
  Number <- MCNumber
  Truth <- MCTruth
  Day = 2
  MaxDuration = 6
  Early <- MCEarly
  Start = 0
  End = 1
SPECIFICATION LineSpec
CHECK_DEADLOCK FALSE
INVARIANTS
  LooseContainersShown
