CONSTANTS
  a = a
  b = b
  c = c
  Worker = w
  None = None
  Parser = {p1}
  Dsml = {d1, d2}
  Turns <- OneThenTwo
  Chain <- Line
  Histories <- Replays
  MaxEntries = 2
  MaxBytes = 5
  EntryBytes = 1
  BlockBytes = 2
  DiskEnabled = TRUE
  MaxRestarts = 1
SPECIFICATION Spec
SYMMETRY DsmlSymmetry
INVARIANTS
  TypeOK
  BlocksCounted
  ReplayVerbatim
  MapsFitTheirText
  BoundsKept
PROPERTIES
  ForgetsOldest
CHECK_DEADLOCK FALSE
