-------------------------- MODULE CsvStreamPromise --------------------------
(***************************************************************************)
(* readCSVStream implements StreamRead.                                    *)
(***************************************************************************)
EXTENDS CsvStream, ByteRuns

Promise == INSTANCE StreamRead WITH
  StopsEarly <- Limited,
  arrived    <- sent,
  closed     <- source # "flowing",
  outcome    <- promise,
  value      <- IF promise = "resolved" THEN Bytes(parsed) ELSE <<>>

\* readCSVStream keeps what StreamRead promises: its promise settles at most
\* once, with a prefix of the stream's own bytes in order, and without endRows
\* only after the stream has ended and with all of it.
KeepsPromise == Promise!Spec
=============================================================================
