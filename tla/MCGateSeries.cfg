CONSTANTS
  Sessions <- MCSessions
  FlagName <- MCFlagName
  Inline <- MCInline
  Number <- MCNumber
  Truth <- MCTruth
  Day = 2
  MaxDuration = 6
  Early <- MCEarly
  Start = 0
  End = 2
SPECIFICATION LineSpec
CHECK_DEADLOCK FALSE
INVARIANTS
  LineType
  ExitCodes
  SameWordsSameSweep
  JSONDecides
  FormatsAgree
  FailStaysFailed
  GateAgreesWithReport
  WindowUpToRounding
