----------------------------- MODULE LazyValues -----------------------------
(***************************************************************************)
(* What LazyFrame promises: a plan is a value - the frame as it was when   *)
(* lazy() was called, and the steps since - and a query's outcome is the   *)
(* value of its plan at the call.  The promise only tells it later.        *)
(***************************************************************************)
EXTENDS ValueStore, Plans

CONSTANTS
  LazyVar,    \* variables that may hold a LazyFrame
  GroupVar,   \* variables that may hold a LazyGroupBy
  Call        \* promises that may be pending at one time

VARIABLES
  planOf,     \* the frame and the plan of each LazyFrame
  groupOf,    \* the same of each LazyGroupBy that was not yet used
  outcomeOf   \* the outcome each pending promise will tell

lazyValues == <<values, planOf, groupOf, outcomeOf>>

LazyInit ==
  /\ Init
  /\ planOf = <<>>
  /\ groupOf = <<>>
  /\ outcomeOf = <<>>

SetPlan(l, frame, plan) ==
  /\ planOf' = Holding(planOf, l, [frame |-> frame, plan |-> plan])
  /\ UNCHANGED <<values, outcomeOf>>

\* A DataFrame is assigned, or changed in place; nothing else sees it.
EagerCall ==
  /\ UNCHANGED <<planOf, groupOf, outcomeOf>>
  /\ \/ \E x \in FrameVar : FrameGiven(x, LAMBDA frame : Len(frame) = 1)
     \/ FrameCallInPlace
     \/ Extend

PlanCall ==
  \E m \in LazyVar :
    \/ \E f \in DOMAIN frameOf :
         SetPlan(m, frameOf[f], [steps |-> <<>>, off |-> {}]) /\ UNCHANGED groupOf
    \/ \E l \in DOMAIN planOf :
         /\ \/ \E step \in FrameStep :
                 SetPlan(m, planOf[l].frame,
                         [planOf[l].plan EXCEPT !.steps = Append(@, step)])
            \/ SetPlan(m, planOf[l].frame, [planOf[l].plan EXCEPT !.off = {}])
         /\ UNCHANGED groupOf
    \/ \E g \in DOMAIN groupOf :
         /\ SetPlan(m, groupOf[g].frame,
                    [groupOf[g].plan EXCEPT !.steps = Append(@, GroupStep)])
         /\ groupOf' = Forgetting(groupOf, g)

GroupBy ==
  \E l \in DOMAIN planOf, g \in GroupVar :
    /\ groupOf' = Holding(groupOf, g, planOf[l])
    /\ UNCHANGED <<values, planOf, outcomeOf>>

\* Only a fetch may touch its LazyFrame, and no more than its switches.
Switches(l) ==
  \E off \in SUBSET Switch : planOf' = [planOf EXCEPT ![l].plan.off = off]

Ask ==
  \E l \in DOMAIN planOf, c \in Call \ DOMAIN outcomeOf, rows \in 1 .. MaxRows :
    /\ outcomeOf' =
         Holding(outcomeOf, c, Outcome(planOf[l].frame, planOf[l].plan.steps, rows))
    /\ Switches(l)
    /\ UNCHANGED <<values, groupOf>>

\* collectSync and fetchSync.
AskNow ==
  \E l \in DOMAIN planOf, x \in FrameVar, rows \in 1 .. MaxRows :
    LET outcome == Outcome(planOf[l].frame, planOf[l].plan.steps, rows)
    IN  /\ frameOf' = IF outcome.ok THEN Holding(frameOf, x, outcome.frame) ELSE frameOf
        /\ Switches(l)
        /\ UNCHANGED <<seriesOf, groupOf, outcomeOf>>

\* The promise tells the outcome.
Tell ==
  \E c \in DOMAIN outcomeOf :
    /\ IF outcomeOf[c].ok
       THEN \E x \in FrameVar : FrameGiven(x, LAMBDA frame : frame = outcomeOf[c].frame)
       ELSE UNCHANGED values
    /\ outcomeOf' = Forgetting(outcomeOf, c)
    /\ UNCHANGED <<planOf, groupOf>>

LazyNext == EagerCall \/ PlanCall \/ GroupBy \/ Ask \/ AskNow \/ Tell

LazySpec == LazyInit /\ [][LazyNext]_lazyValues
=============================================================================
