------------------------------ MODULE ByteRuns ------------------------------
(***************************************************************************)
(* Buffer.concat: the bytes, by position in the source stream, of a list   *)
(* of batches made of slices [from, to).                                   *)
(***************************************************************************)
EXTENDS Integers, SequencesExt

Positions(slice) == [k \in 1 .. slice.to - slice.from |-> slice.from + k]

Bytes(batches) ==
  LET slices == FlattenSeq(batches)
  IN  FlattenSeq([k \in DOMAIN slices |-> Positions(slices[k])])
=============================================================================
