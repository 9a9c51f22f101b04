---------------------------- MODULE MCCsvStream ----------------------------
(* Bounded streams for the CsvStream runs. *)
EXTENDS CsvStreamPromise

CONSTANT MaxBytes   \* longest stream

MCStreams == UNION {[1 .. n -> Kinds] : n \in 0 .. MaxBytes}
=============================================================================
