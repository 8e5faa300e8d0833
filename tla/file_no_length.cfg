SPECIFICATION Spec
CONSTANTS
  MaxRequests = 2
  Requests <- PlainRequests
  Apps <- UnknownFileApps
  Hangups = TRUE
  Resets = FALSE
  BufferUnits = 2
  Spurious = FALSE
INVARIANTS
  ChunkedResponsesEnd
