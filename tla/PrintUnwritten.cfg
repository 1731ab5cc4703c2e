CONSTANTS
  Order = 3
  Keys <- MCKeys
  CommandKeys <- MCKeysNone
  IndexFiles <- MCNone
  Cuts <- MCNone
  MaxOpen = 4
  MaxNodes = 16
  MaxSessions = 2
  MaxPrinted = 24
SPECIFICATION PSpec
INVARIANT PrintsOnce
CHECK_DEADLOCK FALSE
