SPECIFICATION Spec
CONSTANTS
  MaxRequests = 2
  Requests <- ExpectNoBody
  Apps <- SomeApps
  Hangups = TRUE
  Resets = FALSE
  BufferUnits = 2
  Spurious = FALSE
PROPERTIES
  MessageBeginsClean
