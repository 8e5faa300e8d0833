SPECIFICATION Spec
CONSTANTS
  p1 = p1
  p2 = p2
  tcp = tcp
  path = path
  abstract = abstract
  Processes = {p1, p2}
  Addresses = {tcp, path, abstract}
  Family <- ThreeFamilies
  Python3 = TRUE
  MaxSockets = 3
INVARIANTS
  TypeOK
  DefaultInstance
  PathIsServed
  OnlyTheDeadLeavePaths
SYMMETRY Anyone
