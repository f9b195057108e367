\* All commands in any order, over the program Calls.
SPECIFICATION DFairSpec
CONSTANTS
  a = a
  NUL = NUL
  IOMode     = "mmio"
  AddrSpace  = 64
  Text       <- MCText
  TextSecEnd <- MCTextEnd
  KText      <- MCKText
  Code       <- Calls
  Chars      = {a}
  InitStream <- MCStream
  MaxTyped   = 1
  MaxStored  = 1
  BreakAddrs <- MCBreaks
  MaxBreaks  = 2
INVARIANTS DTypeOK IdsAreUnique StopsWhereAsked ShowsFetchedOffender
PROPERTIES PromptReturns UnhandledTrapEnds
CHECK_DEADLOCK FALSE
