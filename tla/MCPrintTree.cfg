CONSTANTS
  Order = 4
  Keys <- MCKeys
  CommandKeys <- MCKeys4
  IndexFiles <- MCIndexFiles4
  Cuts <- MCNone
  MaxOpen = 6
  MaxNodes = 16
  MaxSessions = 2
  MaxPrinted = 24
SPECIFICATION PSpec
INVARIANTS SearchTreeAlways QueueSound PrintedByLevel
PROPERTIES ImplementsStore PrintEnds
CHECK_DEADLOCK FALSE
