SPECIFICATION Spec
CONSTANTS
  MaxRequests = 2
  Requests <- PlainRequests
  Apps <- FileApps
  Hangups = TRUE
  Resets = TRUE
  BufferUnits = 2
  Spurious = FALSE
INVARIANTS
  NothingReleasedIsKept
