SPECIFICATION Spec
CONSTANTS
  B = 3
  LittleEndian = TRUE
  Offset <- MCOffset
  Programs <- MCDoubles
  Values <- MCValues
  Stack <- MCStack
  MaxSteps = 7
  FpResults <- MCFpResults
INVARIANT DoublesLoadAsWritten
CHECK_DEADLOCK FALSE
