SPECIFICATION Spec
CONSTANTS
  MaxRequests = 2
  Requests <- AnyRequests
  Apps <- AnyApps
  Hangups = TRUE
  Resets = TRUE
  BufferUnits = 2
  Spurious = TRUE
INVARIANTS
  TypeOK
  SendsLiveBuffer
