CONSTANTS
  r = r
  a = a
  h = h
  None = None
  ApiOf <- ApiOfMC
  Conv = {r, a, h}
  ToolConvs = {r, a}
  Ctx = 8
  MaxVisible = 8
  MaxReasoning = 1
  Chunk = 3
  MinTokens = 2
  ColdMax = 4
  StoreStep = 3
  MaxFiles = 1
  DiskEnabled = FALSE
  ExactReplay = TRUE
  MayFail = FALSE
  MayRestart = FALSE
SPECIFICATION Spec
INVARIANTS
  AnsweredFromOwnTranscript
  LateContextErrorIsLive
PROPERTIES
  ReasoningKept
CHECK_DEADLOCK FALSE
