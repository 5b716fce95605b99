CONSTANTS
  r = r
  a = a
  h = h
  None = None
  ApiOf <- ApiOfMC
  Conv = {a, h}
  ToolConvs = {a}
  Ctx = 5
  MaxVisible = 4
  MaxReasoning = 2
  Chunk = 3
  MinTokens = 2
  ColdMax = 4
  StoreStep = 4
  MaxFiles = 1
  DiskEnabled = TRUE
  ExactReplay = FALSE
  MayFail = TRUE
  MayRestart = TRUE
SPECIFICATION Spec
INVARIANTS
  BindingsDescribeSession
  KeyDescribesPayload
  ScheduleNotAhead
CHECK_DEADLOCK FALSE
