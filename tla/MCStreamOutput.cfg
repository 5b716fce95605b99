CONSTANTS
  Request <- MCRequest
  Script <- MCScript
  MaxToken = 3
  Window = 8
SPECIFICATION Spec
INVARIANTS
  StreamedMatchesFinal
  NoToolSyntaxShown
  NoSplitCharacters
  StopNotShown
  BlocksClosed
CHECK_DEADLOCK FALSE
