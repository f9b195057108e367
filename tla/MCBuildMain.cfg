\* A main that is global, not at the start of its file.
SPECIFICATION BuildSpec
CONSTANTS
  B = 3
  LittleEndian = TRUE
  Offset <- MCOffset
  ByName <- MCByName
  Projects <- MCGlobal
  Programs = {}
  Alphabet <- MCChars
  MaxChars = 0
  Length = 4
  Pieces = 3
INVARIANT GlobalMainRunsFirst
CHECK_DEADLOCK FALSE
