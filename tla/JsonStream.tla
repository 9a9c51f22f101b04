---------------------------- MODULE JsonStream ----------------------------
(***************************************************************************)
(* polars/io.ts, readJSONStream: the consumer that parses every batch of a *)
(* LineBatcher on its own and concatenates the frames when the stream ends.*)
(*                                                                         *)
(* A line is read through the kinds of its bytes: Junk makes it            *)
(* unparseable, any other kind but the newline stands for a set of fields. *)
(* The parser infers a batch's schema from its own first records only.     *)
(***************************************************************************)
EXTENDS LineBatcher

CONSTANTS
  Junk,         \* a byte that no JSON line contains
  InferLength   \* options.inferSchemaLength: records to infer a schema from

ASSUME JunkAssumption == Junk \in Kinds \ {Newline}
ASSUME InferLengthAssumption == InferLength \in Nat \ {0}

VARIABLES
  chunks,   (* the frames parsed so far: the batch of each                 *)
  ended,    (* 'end' was emitted                                           *)
  promise,  (* "pending", "resolved" or "rejected"                         *)
  frame     (* the batches of the frame the promise resolved with          *)

consumerVars == <<chunks, ended, promise, frame>>
vars == <<batcherVars, consumerVars>>

Init ==
  /\ BatcherInit
  /\ chunks = <<>>
  /\ ended = FALSE
  /\ promise = "pending"
  /\ frame = <<>>

KindsOf(batch) ==
  {bytes[p] : p \in Start(batch) + 1 .. Stop(batch)}

\* The records of a batch that end before a position; a blank line is none.
RecordsBefore(batch, position) ==
  Cardinality({p \in Start(batch) + 2 .. position - 1 :
                 bytes[p] = Newline /\ bytes[p - 1] # Newline})

\* The fields of a batch's frame: the union over its first InferLength records.
Schema(batch) ==
  {bytes[p] : p \in {q \in Start(batch) + 1 .. Stop(batch) :
                       RecordsBefore(batch, q) < InferLength}} \ {Newline}

\* A batch starts and stops between two records.
AtLineBreak(offset) ==
  offset \in {0, Len(bytes)} \/ bytes[offset] = Newline

\* pli.readJson(batch): what it may do with a batch.  A batch of blank lines
\* has no record to infer from, and either answer is allowed.
ParseOutcomes(batch) ==
  IF Junk \in KindsOf(batch) THEN {FALSE}
  ELSE IF ~AtLineBreak(Start(batch)) \/ ~AtLineBreak(Stop(batch)) THEN {FALSE}
  ELSE IF Schema(batch) = {} THEN BOOLEAN
  ELSE {TRUE}

\* Fault: the last of resolve and reject wins.
SettleAgain(outcome) == promise' = outcome

\* resolve and reject do nothing once the promise is settled.
Settle(outcome) ==
  promise' = IF promise = "pending" THEN outcome ELSE promise

\* .on("data", ...): parse the batch; an error rejects, and reading goes on.
OnData ==
  /\ Data(FALSE)
  /\ LET batch == pushed[delivered + 1]
     IN  \E parses \in ParseOutcomes(batch) :
           IF parses
           THEN chunks' = Append(chunks, batch) /\ UNCHANGED promise
           ELSE Settle("rejected") /\ UNCHANGED chunks
  /\ UNCHANGED <<ended, frame>>

\* functions.concat: refuses an empty list; vstack refuses another schema.
Concatenates(frames) ==
  /\ frames # <<>>
  /\ \A k \in DOMAIN frames : Schema(frames[k]) = Schema(frames[1])

\* .on("end", ...)
OnEnd ==
  /\ Exhausted /\ ~Transforming /\ ~ended
  /\ ended' = TRUE
  /\ IF Concatenates(chunks)
     THEN /\ Settle("resolved")
          /\ frame' = IF promise = "pending" THEN chunks ELSE frame
     ELSE Settle("rejected") /\ UNCHANGED frame
  /\ UNCHANGED <<batcherVars, chunks>>

Batch == BatcherStep /\ UNCHANGED consumerVars

\* The stream is over for good: nothing is left to happen.
Quiet ==
  /\ ended \/ source = "failed"
  /\ UNCHANGED vars

Next == Batch \/ OnData \/ OnEnd \/ Quiet

\* Node runs every callback that is ready; a source owes nothing.
Fairness == WF_vars(((Transform \/ Flush \/ Finish) /\ UNCHANGED consumerVars)
                    \/ OnData \/ OnEnd)

Spec == Init /\ [][Next]_vars /\ Fairness

----------------------------------------------------------------------------

TypeOK ==
  /\ BatcherTypeOK
  /\ chunks \in Seq(Seq(Slice))
  /\ ended \in BOOLEAN
  /\ promise \in {"pending", "resolved", "rejected"}
  /\ frame \in Seq(Seq(Slice))

\* An error in one batch is never forgotten: a promise that resolved did so
\* with every batch of the stream, none of them unparseable, and the frames
\* of all of them share the first one's fields.
ResolvesWithEveryBatch ==
  promise = "resolved" =>
    /\ frame = pushed
    /\ \A k \in DOMAIN frame : Schema(frame[k]) = Schema(frame[1])
    /\ Junk \notin {bytes[p] : p \in DOMAIN bytes}

\* A stream without junk whose records all have the same fields is never
\* rejected, however the source cut it into chunks.
CleanStreamsResolve ==
  LET kinds == {bytes[p] : p \in DOMAIN bytes}
      clean == /\ Junk \notin kinds
               /\ Cardinality(kinds \ {Newline}) = 1
               /\ \A p \in DOMAIN bytes : bytes[p] = Newline => p > 1 /\ bytes[p - 1] # Newline
  IN  clean => promise # "rejected"

\* The promise settles once the source has ended.
Settles == source = "ended" ~> promise # "pending"
=============================================================================
