\* The same: next and a breakpoint.
SPECIFICATION DSpec
CONSTANTS
  a = a
  NUL = NUL
  IOMode     = "mmio"
  AddrSpace  = 64
  Text       <- MCText
  TextSecEnd <- MCTextEnd
  KText      <- MCKText
  Code       <- Calls
  Chars      = {a}
  InitStream <- MCStream
  MaxTyped   = 1
  MaxStored  = 1
  BreakAddrs <- MCBreaks
  MaxBreaks  = 2
INVARIANT ContinueStopsAtBreakpoints
CHECK_DEADLOCK FALSE
