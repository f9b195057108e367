\* The programs of mmio.asm and echointer.asm, the input padded as in the test.
SPECIFICATION FairSpec
CONSTANTS
  a = a
  b = b
  NUL = NUL
  IOMode     = "mmio"
  AddrSpace  = 128
  Text       <- MCText
  TextSecEnd <- MCTextEnd2
  KText      <- MCKText2
  Code       <- Echoes
  Chars      <- MCChars
  InitStream <- MCPadded
  MaxTyped   = 7
  MaxStored  = 8
PROPERTIES EverythingIsEchoed HandlerReturns
CHECK_DEADLOCK FALSE
