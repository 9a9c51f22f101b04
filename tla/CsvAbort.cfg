SPECIFICATION Spec
CONSTANTS
  Kinds = {nl, txt}
  nl = nl
  txt = txt
  Newline = nl
  MaxBytes = 3
  Streams <- MCStreams
  BatchSize = 1
  WriteAhead = 1
  Limited = TRUE
  EndRows = 0
PROPERTIES
  EarlyAbortSettles
