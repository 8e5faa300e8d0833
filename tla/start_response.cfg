SPECIFICATION Spec
CONSTANTS
  Args <- SomeArgs
  Kept = TRUE
  MaxExchanges = 2
  MaxCalls = 3
INVARIANTS
  TypeOK
  References
PROPERTIES
  ResponseOfLastCall
  LateCallsRaise
CHECK_DEADLOCK FALSE
