\* Faulting programs in syscall mode, under a handler that skips.
SPECIFICATION Spec
CONSTANTS
  a = a
  b = b
  NUL = NUL
  IOMode     = "syscall"
  AddrSpace  = 64
  Text       <- MCText
  TextSecEnd <- MCTextEnd
  KText      <- MCKText
  Code       <- Faulty
  Chars      <- MCChars
  InitStream <- MCStream
  MaxTyped   = 3
  MaxStored  = 2
INVARIANTS NothingTypedIsLost OnlyMisalignedFetchEscapes
PROPERTIES FaultsCanBeSkipped
CHECK_DEADLOCK FALSE
