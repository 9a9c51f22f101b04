----------------------------- MODULE StreamRead -----------------------------
(***************************************************************************)
(* What readCSVStream and readJSONStream promise their caller: a promise   *)
(* over a byte stream that settles at most once, and whose value was read  *)
(* from the stream's own bytes, in order, from the first one on.  A reader *)
(* that may stop early resolves with a prefix; one that may not resolves   *)
(* only after the stream has ended, with all of it.                        *)
(***************************************************************************)
EXTENDS Integers, Sequences

CONSTANT StopsEarly   \* the reader was given a limit

VARIABLES
  arrived,   (* bytes the source has produced                              *)
  closed,    (* the source has ended or failed                             *)
  outcome,   (* "pending", "resolved" or "rejected"                        *)
  value      (* the bytes, by position, the promise resolved with          *)

vars == <<arrived, closed, outcome, value>>

Init ==
  /\ arrived = 0
  /\ closed = FALSE
  /\ outcome = "pending"
  /\ value = <<>>

Arrive ==
  /\ ~closed
  /\ arrived' \in Nat /\ arrived' > arrived
  /\ UNCHANGED <<closed, outcome, value>>

Close ==
  /\ closed' = TRUE
  /\ UNCHANGED <<arrived, outcome, value>>

Resolve ==
  /\ outcome = "pending"
  /\ outcome' = "resolved"
  /\ \/ StopsEarly
     \/ closed /\ Len(value') = arrived
  /\ Len(value') <= arrived
  /\ value' = [p \in 1 .. Len(value') |-> p]
  /\ UNCHANGED <<arrived, closed>>

Reject ==
  /\ outcome = "pending"
  /\ outcome' = "rejected"
  /\ UNCHANGED <<arrived, closed, value>>

Next == Arrive \/ Close \/ Resolve \/ Reject

Spec == Init /\ [][Next]_vars
=============================================================================
