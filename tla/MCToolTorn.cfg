CONSTANTS
  a = a
  b = b
  c = c
  Worker = w
  None = None
  Parser = {p1, p2}
  Dsml = {d1, d2}
  Turns <- ThreeTurns
  Chain <- Fork
  Histories <- ReplaysOfTwo
  MaxEntries = 4
  MaxBytes = 100
  EntryBytes = 1
  BlockBytes = 2
  DiskEnabled = TRUE
  MaxRestarts = 0
SPECIFICATION Spec

SYMMETRY Symmetry
INVARIANT SampledVerbatim
CHECK_DEADLOCK FALSE
