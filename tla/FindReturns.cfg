CONSTANTS
  Order = 3
  Keys <- MCKeys
  CommandKeys <- MCKeys2
  IndexFiles <- MCIndexFiles3
  Cuts <- MCNone
  MaxOpen = 4
  MaxNodes = 16
  MaxSessions = 1
SPECIFICATION Spec
PROPERTY FindReturns
CHECK_DEADLOCK FALSE
