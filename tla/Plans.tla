-------------------------------- MODULE Plans --------------------------------
(***************************************************************************)
(* Query plans as values: a LazyFrame is a frame, the steps to be run on it*)
(* and the optimisations that are switched off.  Optimisations are the     *)
(* native library's and leave the outcome of a plan alone.  Of the steps, a*)
(* few stand for the rest: some rearrange rows, one groups, one fails.     *)
(***************************************************************************)
EXTENDS FrameValues

CONSTANTS
  MaxSteps   \* bound: longest plan

ASSUME MaxStepsAssumption == MaxSteps \in Nat

\* reverse(), select of a missing column
FrameStep == {"reverse", "missing"}
GroupStep == "agg"    \* groupBy(name).agg()
Steps     == FrameStep \cup {GroupStep}

\* What optimization_toggle takes.
Switch == {"typeCoercion", "predicatePushdown", "projectionPushdown",
           "simplifyExpr", "slicePushdown"}

\* The fields of LazyOptions.  An options object is the set of those it sets:
\* noOptimization to true, another to false.
OptionName == {"typeCoercion", "predicatePushdown", "projectionPushdown",
               "simplifyExpression", "noOptimization"}

Plan == [steps : UNION {[1 .. n -> Steps] : n \in 0 .. MaxSteps}, off : SUBSET Switch]

WithRows(frame, RowsOf(_)) ==
  [k \in DOMAIN frame |-> [frame[k] EXCEPT !.vals = RowsOf(@)]]

FirstRows(frame, n) ==
  WithRows(frame, LAMBDA rows : SubSeq(rows, 1, IF n < Len(rows) THEN n ELSE Len(rows)))

\* The keys of a group-by on the first column, in order of appearance.
Distinct(rows) ==
  LET upTo[k \in 0 .. Len(rows)] ==
        IF k = 0 THEN <<>>
        ELSE IF rows[k] \in ToSet(upTo[k - 1]) THEN upTo[k - 1]
        ELSE Append(upTo[k - 1], rows[k])
  IN  upTo[Len(rows)]

Keys(frame) == <<[frame[1] EXCEPT !.vals = Distinct(@)]>>

Failure     == [ok |-> FALSE, frame |-> <<>>]
Done(frame) == [ok |-> TRUE, frame |-> frame]

RunStep(outcome, step) ==
  IF ~outcome.ok THEN outcome
  ELSE CASE step = "reverse" -> Done(WithRows(outcome.frame, Reverse))
         [] step = GroupStep -> Done(Keys(outcome.frame))
         [] step = "missing" -> Failure

\* What a query finds: the steps run on the first rows of the frame.
Outcome(frame, steps, rows) ==
  LET after[k \in 0 .. Len(steps)] ==
        IF k = 0 THEN Done(FirstRows(frame, rows)) ELSE RunStep(after[k - 1], steps[k])
  IN  after[Len(steps)]
=============================================================================
