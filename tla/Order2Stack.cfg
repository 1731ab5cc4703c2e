CONSTANTS
  Order = 2
  Keys <- MCKeys
  CommandKeys <- MCKeys2
  IndexFiles <- MCNone
  Cuts <- MCNone
  MaxOpen = 12
  MaxNodes = 16
  MaxSessions = 1
SPECIFICATION Spec
INVARIANT StackIsPath
CHECK_DEADLOCK FALSE
