------------------------- MODULE JsonStreamPromise -------------------------
(***************************************************************************)
(* readJSONStream implements StreamRead.                                   *)
(***************************************************************************)
EXTENDS JsonStream, ByteRuns

Promise == INSTANCE StreamRead WITH
  StopsEarly <- FALSE,
  arrived    <- sent,
  closed     <- source # "flowing",
  outcome    <- promise,
  value      <- Bytes(frame)

\* readJSONStream keeps what StreamRead promises: its promise settles at most
\* once, and resolves with all the bytes of an ended stream, in order.
KeepsPromise == Promise!Spec
=============================================================================
