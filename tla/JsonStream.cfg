SPECIFICATION Spec
CONSTANTS
  Kinds = {nl, recA, recB, junk}
  nl = nl
  recA = recA
  recB = recB
  junk = junk
  Newline = nl
  Junk = junk
  MaxBytes = 5
  Streams <- MCStreams
  BatchSize = 2
  InferLength = 1
  WriteAhead = 1
INVARIANTS
  TypeOK
  ResolvesWithEveryBatch
  CleanStreamsResolve
PROPERTIES
  Settles
  KeepsPromise
