CONSTANTS
  Order = 4
  Keys <- MCKeys
  CommandKeys <- MCKeysWords
  IndexFiles <- MCIndexFiles
  Cuts <- MCCuts
  MaxOpen = 6
  MaxNodes = 16
  MaxSessions = 3
  Block = 10
SPECIFICATION WSpec
INVARIANTS FileAgrees SearchAgrees OffsetsSound NoCycle
PROPERTIES CommandsEnd
CHECK_DEADLOCK FALSE
