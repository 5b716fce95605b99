CONSTANTS
  NThreads = 4
  GenerationMod = 2
  RowCounts <- MCRowCounts
  MinRows <- MCMinRows
SPECIFICATION FairSpec
INVARIANTS TypeOK JobOutlivesWorkers
PROPERTIES ImplementsRowJob CallsReturn
