CONSTANTS
  Request <- MCRequest
  Script <- MCScript
  MaxToken = 3
  Window = 8
SPECIFICATION Spec
INVARIANT StreamsFinalObject
CHECK_DEADLOCK FALSE
