SPECIFICATION Spec
CONSTANTS
  B = 3
  LittleEndian = TRUE
  Offset <- MCOffset
  Programs <- MCPrograms
  Values <- MCValues
  Stack <- MCStack
  MaxSteps = 7
  FpResults <- MCFpResults
INVARIANTS
  ToolchainTypeOK ComputesAsWritten GoesWhereWritten TrapsWhenSpecified
CHECK_DEADLOCK FALSE
