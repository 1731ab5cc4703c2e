CONSTANTS
  Order = 3
  Keys <- MCKeys
  CommandKeys <- MCKeys2
  IndexFiles <- MCNone
  Cuts <- MCNone
  MaxOpen = 8
  MaxNodes = 16
  MaxSessions = 1
SPECIFICATION Spec
PROPERTY AddStores
CHECK_DEADLOCK FALSE
