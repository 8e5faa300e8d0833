SPECIFICATION FairSpec
CONSTANTS
  Workers = {w1, w2}
  Clients = {c1, c2}
  Sockets = {s1}
  Listens <- Forked
  MaxFds <- OneTight
  Signalled <- Roomy
  MaxSignals = 2
INVARIANTS
  TypeOK
  CompletesRequests
PROPERTIES
  AcceptsNoMore
  ShutsDown
  HandlesSignals
  AnswersRequests
CHECK_DEADLOCK FALSE
