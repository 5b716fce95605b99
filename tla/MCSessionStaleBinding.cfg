CONSTANTS
  r = r
  a = a
  h = h
  None = None
  ApiOf <- ApiOfMC
  Conv = {r, h}
  ToolConvs = {r}
  Ctx = 7
  MaxVisible = 6
  MaxReasoning = 1
  Chunk = 3
  MinTokens = 2
  ColdMax = 4
  StoreStep = 3
  MaxFiles = 1
  DiskEnabled = FALSE
  ExactReplay = TRUE
  MayFail = TRUE
  MayRestart = FALSE
SPECIFICATION Spec
INVARIANTS
  ReadOwnTranscript
CHECK_DEADLOCK FALSE
