\* Up to three calls and three keys.
SPECIFICATION SysSpec
CONSTANTS
  Modulus   <- MCModulus
  HeapBase  <- MCHeapBase
  StackTop  <- MCStackTop
  Sizes     <- MCSizes
  StackPtrs <- MCStackPtrs
  MaxBlocks = 5
  Keys      <- MCKeys
  MaxTyped  = 3
  BufSize   = 2
  Outputs   <- MCOutputs
  MaxDigits = 1
  Seeds     = {"s"}
  Ids       = {0}
  MaxCalls  = 3
INVARIANTS SysTypeOK BlocksTileHeap OutputStays ShownIsRead
PROPERTIES FailureIsSticky GrantsDisjointBlocks FailureKeepsState ReadsEnd
CHECK_DEADLOCK FALSE
