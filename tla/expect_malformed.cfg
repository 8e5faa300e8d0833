SPECIFICATION Spec
CONSTANTS
  MaxRequests = 2
  Requests <- ExpectMalformed
  Apps <- SomeApps
  Hangups = TRUE
  Resets = FALSE
  BufferUnits = 2
  Spurious = FALSE
INVARIANTS
  OnlyCloseInCaseOfError
