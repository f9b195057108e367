\* Every file of up to three lines, and every file of up to three pieces.
SPECIFICATION BuildSpec
CONSTANTS
  B = 3
  LittleEndian = TRUE
  Offset <- MCOffset
  ByName <- MCByName
  Projects <- MCProjects
  Programs = {}
  Alphabet <- MCChars
  MaxChars = 4
  Length = 3
  Pieces = 3
INVARIANTS
  AsmTypeOK LabelsFindTheirLine PassesAgree FirstItemsAligned
  DebugInfoNamesLine RefusedForCause MainRunsFirst
  TokensAsWritten
  ScopesRespected AllTextKept LoadsWhatWasSaved
CHECK_DEADLOCK FALSE
