CONSTANTS
  Order = 3
  Keys <- MCKeys
  CommandKeys <- MCKeys3
  IndexFiles <- MCIndexFiles3
  Cuts <- MCNone
  MaxOpen = 6
  MaxNodes = 16
  MaxSessions = 2
SPECIFICATION Spec
INVARIANTS TypeOK SearchTreeAlways StackIsPath OffsetsSound
PROPERTIES ImplementsStore CommandsEnd
CHECK_DEADLOCK FALSE
