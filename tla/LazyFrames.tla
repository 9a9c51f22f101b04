----------------------------- MODULE LazyFrames -----------------------------
(***************************************************************************)
(* LazyFrames over the column store: polars/lazy/dataframe.ts, with        *)
(* polars/lazy/groupby.ts and src/lazy/dataframe.rs.                       *)
(*                                                                         *)
(* df.lazy() clones the native frame into a plan, which so shares the      *)
(* columns of df while the program goes on changing df in place.  A        *)
(* LazyFrame's methods return new LazyFrames over a clone of the plan.     *)
(* collect() and fetch() clone it once more, into a task that a worker     *)
(* thread computes and the main thread then settles.  The LazyFrames, lazy *)
(* group-bys and tasks are the Holders of the store.                       *)
(*                                                                         *)
(* Of the calls on DataFrames, those that write a column in place or       *)
(* assign a frame are taken from ColumnStore.                              *)
(***************************************************************************)
EXTENDS ColumnStore, Plans

CONSTANTS
  LazyVar,      \* variables that may hold a LazyFrame
  GroupVar,     \* variables that may hold a LazyGroupBy
  Call,         \* promises that may be pending at one time
  OptionsVar,   \* variables that hold an options object
  Options,      \* the options objects the program makes
  Given,        \* the columns the program makes frames of
  NoOptions     \* no options argument

ASSUME LazyHolderAssumption ==
  /\ Holder = LazyVar \cup GroupVar \cup Call
  /\ LazyVar \cap GroupVar = {} /\ LazyVar \cap Call = {} /\ GroupVar \cap Call = {}
  /\ NoOptions \notin OptionsVar
  /\ Options \subseteq SUBSET OptionName
  /\ Given \subseteq [name : GivenName, vals : Rows]

VARIABLES
  plans,     \* the plan of each LazyFrame, less its frame
  groups,    \* the plan each LazyGroupBy was made from, less its frame
  options,   \* the options objects of the program
  calls,     \* the pending collects and fetches
  panicked   \* a panic in native code has ended the process

lazyVars  == <<plans, groups, options, calls, panicked>>
storeVars == <<heap, series, frames, hollow, unchecked>>
allVars   == <<storeVars, lazyVars>>

AllRows == MaxRows   \* no limit: no frame has more rows

CallStatus == {"queued", "computed", "failed"}

LazyInit ==
  /\ Init
  /\ plans = <<>>
  /\ groups = <<>>
  /\ options = [o \in OptionsVar |-> {}]
  /\ calls = <<>>
  /\ panicked = FALSE

----------------------------------------------------------------------------
(* Plans.                                                                  *)

\* What a holder's frame becomes when another takes it over.
TakeOver(from, to, addresses, values) ==
  /\ Store(Contents(addresses, values), series,
           Hold(Restrict(frames, DOMAIN frames \ {from}), to, addresses))
  /\ hollow' = hollow \ {to}
  /\ unchecked' = unchecked \ {to}

\* l = f.lazy()
Lazy(f, l) ==
  /\ AssignFrame(l, frames[f], FrameValue(f))
  /\ plans' = Hold(plans, l, [steps |-> <<>>, off |-> {}])
  /\ UNCHANGED <<groups, options, calls, panicked>>

\* m = l.reverse(), l.head(1), l.select(...): the plan is cloned.
AddStep(l, m, step) ==
  /\ Len(plans[l].steps) < MaxSteps
  /\ AssignFrame(m, frames[l], FrameValue(l))
  /\ plans' = Hold(plans, m, [plans[l] EXCEPT !.steps = Append(@, step)])
  /\ UNCHANGED <<groups, options, calls, panicked>>

\* m = LazyDataFrame.deserialize(l.serialize(format), format): the plan and its
\* data, without the switches.
Reload(l, m) ==
  /\ AssignFrame(m, [k \in DOMAIN frames[l] |-> New(k)], FrameValue(l))
  /\ plans' = Hold(plans, m, [plans[l] EXCEPT !.off = {}])
  /\ UNCHANGED <<groups, options, calls, panicked>>

\* g = l.groupBy(name)
GroupBy(l, g) ==
  /\ AssignFrame(g, frames[l], FrameValue(l))
  /\ groups' = Hold(groups, g, plans[l])
  /\ UNCHANGED <<plans, options, calls, panicked>>

\* Fault: lgb.clone() in place of lgb.take().
AggLeavesGroup(g, m) ==
  /\ g \in DOMAIN frames
  /\ Len(groups[g].steps) < MaxSteps
  /\ AssignFrame(m, frames[g], FrameValue(g))
  /\ plans' = Hold(plans, m, [groups[g] EXCEPT !.steps = Append(@, GroupStep)])
  /\ UNCHANGED <<groups, options, calls, panicked>>

\* m = g.agg(): lgb.take().unwrap(), the plan moves out of the group-by.
Agg(g, m) ==
  /\ g \in DOMAIN frames
  /\ Len(groups[g].steps) < MaxSteps
  /\ TakeOver(g, m, frames[g], FrameValue(g))
  /\ plans' = Hold(plans, m, [groups[g] EXCEPT !.steps = Append(@, GroupStep)])
  /\ UNCHANGED <<groups, options, calls, panicked>>

\* A second agg on it: unwrap() panics.
AggAgain(g) ==
  /\ g \notin DOMAIN frames
  /\ panicked' = TRUE
  /\ UNCHANGED <<storeVars, plans, groups, options, calls>>

----------------------------------------------------------------------------
(* Queries.                                                                *)

\* options[o] = {...}
SetOptions(o, names) ==
  /\ options' = [options EXCEPT ![o] = names]
  /\ UNCHANGED <<storeVars, plans, groups, calls, panicked>>

\* fetch writes to the object it was given.
Written(names) ==
  IF "noOptimization" \in names
  THEN names \cup {"predicatePushdown", "projectionPushdown"} ELSE names

\* The plan of l on return from fetch(rows, options): optimization_toggle sets
\* every switch, those not mentioned to true.
Toggled(l, o) ==
  IF o = NoOptions THEN plans[l]
  ELSE [plans[l] EXCEPT !.off = Written(options[o]) \cap Switch]

\* The columns of the frame a query returns.
ResultColumns(holder, steps, rows, frame) ==
  IF steps = <<>> /\ rows = AllRows THEN frames[holder]
  ELSE [k \in DOMAIN frame |-> New(k)]

\* A task over a clone of the plan of l.
Enqueue(l, c, call) ==
  /\ c \notin DOMAIN calls
  /\ AssignFrame(c, frames[l], FrameValue(l))
  /\ calls' = Hold(calls, c, call)

\* l.collect(options): the options are ignored.
Collect(l, c) ==
  /\ Enqueue(l, c, [query |-> "collect", plan |-> plans[l],
                    rows |-> AllRows, status |-> "queued"])
  /\ UNCHANGED <<plans, groups, options, panicked>>

\* l.fetch(rows, options): l itself gets the plan with other switches.
Fetch(l, o, rows, c) ==
  /\ Enqueue(l, c, [query |-> "fetch", plan |-> Toggled(l, o),
                    rows |-> rows, status |-> "queued"])
  /\ plans' = [plans EXCEPT ![l] = Toggled(l, o)]
  /\ options' = IF o = NoOptions THEN options
                ELSE [options EXCEPT ![o] = Written(@)]
  /\ UNCHANGED <<groups, panicked>>

\* x = l.collectSync(); nothing happens if it throws.
CollectSync(l, x) ==
  LET outcome == Outcome(FrameValue(l), plans[l].steps, AllRows)
  IN  /\ outcome.ok
      /\ AssignFrame(x, ResultColumns(l, plans[l].steps, AllRows, outcome.frame),
                     outcome.frame)
      /\ UNCHANGED lazyVars

\* x = l.fetchSync(rows, options): if it throws, l and the options have changed.
FetchSync(l, o, rows, x) ==
  LET outcome == Outcome(FrameValue(l), plans[l].steps, rows)
  IN  /\ IF outcome.ok
         THEN AssignFrame(x, ResultColumns(l, plans[l].steps, rows, outcome.frame),
                          outcome.frame)
         ELSE UNCHANGED storeVars
      /\ plans' = [plans EXCEPT ![l] = Toggled(l, o)]
      /\ options' = IF o = NoOptions THEN options
                    ELSE [options EXCEPT ![o] = Written(@)]
      /\ UNCHANGED <<groups, calls, panicked>>

\* A worker thread computes the task.  The frame it found takes the place of
\* the one it started from.
Compute(c) ==
  /\ calls[c].status = "queued"
  /\ LET outcome == Outcome(FrameValue(c), calls[c].plan.steps, calls[c].rows)
         columns == ResultColumns(c, calls[c].plan.steps, calls[c].rows, outcome.frame)
     IN  IF outcome.ok
         THEN /\ calls' = [calls EXCEPT ![c].status = "computed"]
              /\ TakeOver(c, c, columns, outcome.frame)
         ELSE /\ calls' = [calls EXCEPT ![c].status = "failed"]
              /\ UNCHANGED storeVars
  /\ UNCHANGED <<plans, groups, options, panicked>>

\* Fault: the task is not dropped with its promise.
ResolveLeaks(c, x) ==
  /\ calls[c].status = "computed"
  /\ AssignFrame(x, frames[c], FrameValue(c))
  /\ calls' = Restrict(calls, DOMAIN calls \ {c})
  /\ UNCHANGED <<plans, groups, options, panicked>>

\* The main thread resolves the promise: x = await ...
Resolve(c, x) ==
  /\ calls[c].status = "computed"
  /\ TakeOver(c, x, frames[c], FrameValue(c))
  /\ calls' = Restrict(calls, DOMAIN calls \ {c})
  /\ UNCHANGED <<plans, groups, options, panicked>>

\* Fault: a task that failed is queued again.
RejectRetries(c) ==
  /\ calls[c].status = "failed"
  /\ calls' = [calls EXCEPT ![c].status = "queued"]
  /\ UNCHANGED <<storeVars, plans, groups, options, panicked>>

\* The main thread rejects the promise.
Reject(c) ==
  /\ calls[c].status = "failed"
  /\ Store(<<>>, series, Restrict(frames, DOMAIN frames \ {c}))
  /\ calls' = Restrict(calls, DOMAIN calls \ {c})
  /\ UNCHANGED <<hollow, unchecked, plans, groups, options, panicked>>

----------------------------------------------------------------------------

\* x = DataFrame({name: rows})
NewFrame(x, column) == AssignFrame(x, <<New(1)>>, <<column>>)

FrameCall ==
  /\ \E x \in FrameVar :
       \/ \E column \in Given : NewFrame(x, column)
       \/ \E f, other \in Usable : Extend(f, other, x)
       \/ \E f \in Usable, names \in NonEmpty(GivenName) :
            Len(names) = Len(frames[f]) /\ SetColumns(f, names)
  /\ UNCHANGED lazyVars

PlanCall ==
  \/ \E f \in Usable, l \in LazyVar : Lazy(f, l)
  \/ \E l \in DOMAIN plans :
       \/ \E m \in LazyVar : Reload(l, m) \/ \E step \in FrameStep : AddStep(l, m, step)
       \/ \E g \in GroupVar : GroupBy(l, g)
  \/ \E g \in DOMAIN groups : AggAgain(g) \/ \E m \in LazyVar : Agg(g, m)

Query ==
  \/ \E o \in OptionsVar, names \in Options : SetOptions(o, names)
  \/ \E l \in DOMAIN plans :
       \/ \E x \in FrameVar : CollectSync(l, x)
       \/ \E c \in Call : Collect(l, c)
       \/ \E o \in OptionsVar \cup {NoOptions}, rows \in 1 .. MaxRows :
            \/ \E c \in Call : Fetch(l, o, rows, c)
            \/ \E x \in FrameVar : FetchSync(l, o, rows, x)

Settle == \E c \in DOMAIN calls : Reject(c) \/ \E x \in FrameVar : Resolve(c, x)

LazyNext ==
  /\ ~panicked
  /\ Unused # {}
  /\ \/ FrameCall
     \/ PlanCall
     \/ Query
     \/ \E c \in DOMAIN calls : Compute(c)
     \/ Settle

\* The thread pool computes every task, the event loop settles every promise.
LazyFairness ==
  \A c \in Call :
    /\ WF_allVars(c \in DOMAIN calls /\ ~panicked /\ Compute(c))
    /\ WF_allVars(/\ c \in DOMAIN calls /\ ~panicked
                  /\ Reject(c) \/ \E x \in FrameVar : Resolve(c, x))

LazySpec == LazyInit /\ [][LazyNext]_allVars /\ LazyFairness

----------------------------------------------------------------------------

\* Plans, group-bys and tasks own the frame they run on, a group-by until its
\* agg, a task until it has failed; the store keeps its own types.
LazyTypeOK ==
  /\ TypeOK
  /\ DOMAIN plans \subseteq LazyVar /\ Range(plans) \subseteq Plan
  /\ DOMAIN groups \subseteq GroupVar /\ Range(groups) \subseteq Plan
  /\ options \in [OptionsVar -> SUBSET OptionName]
  /\ DOMAIN calls \subseteq Call
  /\ \A c \in DOMAIN calls :
       calls[c] \in [query : {"collect", "fetch"}, plan : Plan,
                     rows : 1 .. MaxRows, status : CallStatus]
  /\ panicked \in BOOLEAN
  /\ DOMAIN plans = DOMAIN frames \cap LazyVar
  /\ DOMAIN frames \cap GroupVar \subseteq DOMAIN groups
  /\ DOMAIN calls = DOMAIN frames \cap Call

\* Every collect and fetch settles, in success or failure.
QueriesSettle ==
  \A c \in Call : c \in DOMAIN calls ~> (c \notin DOMAIN calls \/ panicked)

\* A LazyFrame is a value, and the outcome of collect() and fetch() is settled by
\* the call, whatever is written to the frames in place and whatever the worker
\* threads do before the promise settles: the store with its plans and tasks
\* implements LazyValues.
Outcomes ==
  [c \in DOMAIN calls |->
     CASE calls[c].status = "queued" ->
            Outcome(FrameValue(c), calls[c].plan.steps, calls[c].rows)
       [] calls[c].status = "computed" -> Done(FrameValue(c))
       [] calls[c].status = "failed"   -> Failure]

Lazies == INSTANCE LazyValues WITH
  seriesOf  <- [s \in DOMAIN series |-> SeriesValue(s)],
  frameOf   <- [f \in DOMAIN frames \cap FrameVar |-> FrameValue(f)],
  planOf    <- [l \in DOMAIN plans |-> [frame |-> FrameValue(l), plan |-> plans[l]]],
  groupOf   <- [g \in DOMAIN groups \cap DOMAIN frames |->
                  [frame |-> FrameValue(g), plan |-> groups[g]]],
  outcomeOf <- Outcomes

KeepsPlans == Lazies!LazySpec
=============================================================================
