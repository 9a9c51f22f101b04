SPECIFICATION Spec
CONSTANTS
  Kinds = {nl, txt}
  nl = nl
  txt = txt
  Newline = nl
  MaxBytes = 5
  Streams <- MCStreams
  BatchSize = 2
  WriteAhead = 1
  Limited = FALSE
  EndRows = 0
INVARIANTS
  TypeOK
  NoByteLost
  WholeLines
  ParsesEverything
PROPERTIES
  Settles
  KeepsPromise
