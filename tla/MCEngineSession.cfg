CONSTANTS
  Token = {1, 2}
  Eos = 2
  Prompts <- MCPrompts
  CtxSize = 9
  Window = 2
  PrefillCap = 4
  Ratio = 3
  RawAlign = 2
  RawMax = 6
  ResumeMin = 3
  DraftMax = 3
  SaveAt = {4, 7}
  RewindTo = {8}
  Greedy <- MCGreedy
  Close <- MCClose
SPECIFICATION Spec
INVARIANTS TypeOK ValidMeansExact FilesExact
PROPERTIES DraftsAreGreedy ReportsWhatItCommits
