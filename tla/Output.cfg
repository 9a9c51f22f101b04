SPECIFICATION Spec
CHECK_DEADLOCK FALSE
CONSTANTS
  MaxCalls = 3
  MaxChunks = 3
  Spool = 1
INVARIANTS
  TypeOK
  NothingReordered
  FramesDoNotMix
  FinishedIsWhole
  MemoryIsWhole
  FileIsWhole
