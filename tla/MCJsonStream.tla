---------------------------- MODULE MCJsonStream ----------------------------
(* Bounded streams for the JsonStream runs. *)
EXTENDS JsonStreamPromise

CONSTANT MaxBytes   \* longest stream

MCStreams == UNION {[1 .. n -> Kinds] : n \in 0 .. MaxBytes}
=============================================================================
