SPECIFICATION Spec
CONSTANTS
  B = 3
  LittleEndian = TRUE
  Offset <- MCOffset
  Programs <- MCShifts
  Values <- MCValues
  Stack <- MCStack
  MaxSteps = 7
  FpResults <- MCFpResults
INVARIANT LogicalShifts
CHECK_DEADLOCK FALSE
