SPECIFICATION FairSpec
CONSTANTS
  MessageKinds <- Kinds
  Parts <- SomeParts
  N = 2
INVARIANTS
  TypeOK
  NeverLosesDict
  CalledInTurn
  EnvironExact
  EnvironOfOne
  VerdictOfMessage
PROPERTIES
  EveryMessageHandled
CHECK_DEADLOCK FALSE
