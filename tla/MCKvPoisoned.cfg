CONSTANTS
  u = u
  a = a
  h = h
  None = None
  Piece = {u, a, h}
  HiddenPiece = h
  History <- MCHistory
  Prompt <- MCPrompt
  Setup <- MCSetup
  RejectQuant = FALSE
  MinTokens = 2
  ColdMax = 2
  Trim = 1
  Align = 2
  Interval = 2
  Budget = 6
  MaxHits = 1
  MaxFaults = 2
SPECIFICATION Spec
PROPERTY KeptFilesLoad
CHECK_DEADLOCK FALSE
