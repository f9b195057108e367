\* Every program made of the instructions of AnyMmio, in MMIO mode.
SPECIFICATION Spec
CONSTANTS
  a = a
  b = b
  NUL = NUL
  IOMode     = "mmio"
  AddrSpace  = 64
  Text       <- MCText
  TextSecEnd <- MCTextEnd
  KText      <- MCKText
  Code       <- AnyMmio
  Chars      <- MCChars
  InitStream <- MCStream
  MaxTyped   = 2
  MaxStored  = 2
INVARIANTS TypeOK NothingTypedIsLost OutputLossless TrapsTransparent
PROPERTIES KeyboardIsChannel OnlyHandlerClobbers
CHECK_DEADLOCK FALSE
