SPECIFICATION Spec
CONSTANTS
  Kinds = {nl, txt}
  nl = nl
  txt = txt
  Newline = nl
  MaxBytes = 5
  Streams <- MCStreams
  BatchSize = 1
  WriteAhead = 1
  Limited = TRUE
  EndRows = 1
INVARIANTS
  ParsesWholeRecords
  KeepsFirstBatches
PROPERTIES
  Settles
