\* The same programs, the input not padded.
SPECIFICATION FairSpec
CONSTANTS
  a = a
  b = b
  NUL = NUL
  IOMode     = "mmio"
  AddrSpace  = 128
  Text       <- MCText
  TextSecEnd <- MCTextEnd2
  KText      <- MCKText2
  Code       <- Echoes
  Chars      <- MCChars
  InitStream <- MCTwoChars
  MaxTyped   = 2
  MaxStored  = 8
PROPERTIES TypedCharsInterrupt
CHECK_DEADLOCK FALSE
