SPECIFICATION FairSpec
CONSTANTS
  MaxRequests = 2
  Requests <- PlainRequests
  Apps <- CoreApps
  Hangups = TRUE
  Resets = FALSE
  BufferUnits = 2
  Spurious = TRUE
INVARIANTS
  Delivery
  NeverGarbled
  ReadsOnlyBetweenReplies
  IterableAccounting
  NoChunkLeaked
  OffsetInBuffer
  PiecesConserved
PROPERTIES
  MessageBeginsClean
  ContinuesIfAsked
  ClosesAfterReply
  EveryRequestEnds
