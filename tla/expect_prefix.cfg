SPECIFICATION Spec
CONSTANTS
  MessageKinds <- Kinds
  Parts <- SomeParts
  N = 1
INVARIANTS
  UnmetIsRefused
CHECK_DEADLOCK FALSE
