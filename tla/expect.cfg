SPECIFICATION FairSpec
CONSTANTS
  MaxRequests = 2
  Requests <- InterruptedRequests
  Apps <- IteratorApps
  Hangups = TRUE
  Resets = TRUE
  BufferUnits = 2
  Spurious = FALSE
INVARIANTS
  Exchange
  NothingReleasedIsKept
PROPERTIES
  ServedInOrder
  HangsUpAfterFailure
  ExpectationAnswered
  ImplementsKeepAlive
