----------------------------- MODULE CsvStream -----------------------------
(***************************************************************************)
(* polars/io.ts, readCSVStream: the consumer that collects the batches of  *)
(* a LineBatcher, stops early when endRows is given, and parses what it    *)
(* collected when the stream ends.                                         *)
(*                                                                         *)
(* The CSV parser is native code: it may accept or refuse any buffer.      *)
(***************************************************************************)
EXTENDS LineBatcher

CONSTANTS
  Limited,  (* options.endRows is given; else `end` is infinity            *)
  EndRows   (* its value                                                   *)

ASSUME LimitedAssumption == Limited \in BOOLEAN
ASSUME EndRowsAssumption == EndRows \in Nat

VARIABLES
  count,    (* lines announced so far, by batchSize                        *)
  chunks,   (* the batches kept                                            *)
  ended,    (* 'end' was emitted                                           *)
  promise,  (* "pending", "resolved" or "rejected"                         *)
  parsed    (* the buffer handed to readCSVBuffer                          *)

consumerVars == <<count, chunks, ended, promise, parsed>>
vars == <<batcherVars, consumerVars>>

\* Fault: the limit itself is excluded.
WithinLimitStrictly == Limited => count < EndRows

\* count <= end
WithinLimit == Limited => count <= EndRows

Init ==
  /\ BatcherInit
  /\ count = 0
  /\ chunks = <<>>
  /\ ended = FALSE
  /\ promise = "pending"
  /\ parsed = <<>>

\* Fault: chunks.unshift(chunk).
OnDataReversed ==
  /\ Data(~WithinLimit)
  /\ chunks' = IF WithinLimit THEN <<pushed[delivered + 1]>> \o chunks ELSE chunks
  /\ count' = count + BatchSize
  /\ UNCHANGED <<ended, promise, parsed>>

\* s.on("data", ...): keep the batch, or ask the transform to end.
OnData ==
  /\ Data(~WithinLimit)
  /\ chunks' = IF WithinLimit THEN Append(chunks, pushed[delivered + 1]) ELSE chunks
  /\ count' = count + BatchSize
  /\ UNCHANGED <<ended, promise, parsed>>

\* .on("end", ...): parse everything kept and settle the promise.
OnEnd ==
  /\ Exhausted /\ ~Transforming /\ ~ended
  /\ ended' = TRUE
  /\ parsed' = chunks
  /\ promise' \in {"resolved", "rejected"}
  /\ UNCHANGED <<batcherVars, count, chunks>>

Batch == BatcherStep /\ UNCHANGED consumerVars

\* The stream is over for good: nothing is left to happen.
Quiet ==
  /\ ended \/ errored \/ source = "failed"
  /\ UNCHANGED vars

Next == Batch \/ OnData \/ OnEnd \/ Quiet

\* Node runs every callback that is ready; a source owes nothing.
Fairness == WF_vars(((Transform \/ Flush \/ Finish) /\ UNCHANGED consumerVars)
                    \/ OnData \/ OnEnd)

Spec == Init /\ [][Next]_vars /\ Fairness

----------------------------------------------------------------------------

TypeOK ==
  /\ BatcherTypeOK
  /\ count \in Nat
  /\ chunks \in Seq(Seq(Slice))
  /\ ended \in BOOLEAN
  /\ promise \in {"pending", "resolved", "rejected"}
  /\ parsed \in Seq(Seq(Slice))

\* The offset up to which a list of adjacent batches covers the stream.
Covers(batches) == IF batches = <<>> THEN 0 ELSE Stop(batches[Len(batches)])

\* What the promise resolves with was parsed from a prefix of the stream that
\* ends with a complete record: early abort drops whole batches from the end,
\* and the remainder that _flush pushes after an early end() is never parsed.
ParsesWholeRecords ==
  promise = "resolved" =>
    /\ parsed = SubSeq(pushed, 1, Len(parsed))
    /\ \/ Covers(parsed) \in {0, Len(bytes)}
       \/ bytes[Covers(parsed)] = Newline

\* Without endRows the promise resolves with the whole stream or not at all.
ParsesEverything ==
  promise = "resolved" /\ ~Limited => Covers(parsed) = Len(bytes)

\* With endRows, exactly the first EndRows \div BatchSize + 1 batches are kept:
\* the overshoot is never more than one batch.
KeepsFirstBatches ==
  promise = "resolved" /\ Limited /\ BatchSize > 0 =>
    LET quota == EndRows \div BatchSize + 1
    IN  Len(parsed) = IF Len(pushed) < quota THEN Len(pushed) ELSE quota

\* Once end() was called on the transform, by pipe() at the end of the source or
\* by the handler on early abort, the promise settles; the one way out is a write
\* after an early end(), which destroys the stream.
Settles == ending ~> (promise # "pending" \/ (Limited /\ errored))

\* The handler's comment: "early abort if 'end rows' is specified".  Once the
\* handler has asked the transform to end, the promise settles.
EarlyAbortSettles == ending ~> (promise # "pending")
=============================================================================
