------------------------------- MODULE Methods -------------------------------
(***************************************************************************)
(* The notation of the tables of methods.  An interface declares the calls *)
(* a method may be given: plain arguments, or one options object.  An      *)
(* implementation chooses among alternatives by the form of the call and   *)
(* the arguments given, and makes calls in turn: on the native object it   *)
(* wraps, on itself, on what the last call returned.                       *)
(***************************************************************************)
EXTENDS Sequences, TLC
LOCAL INSTANCE SequencesExt

Undefined == "undefined"
Nothing   == "nothing"      \* what a native function without a result returns

-----------------------------------------------------------------------------
\* Declarations: the forms of a call, its required and its optional arguments.

Plainly(required, optional) ==
  {[form |-> "plain", required |-> required, optional |-> optional]}
ByOptions(required, optional) ==
  {[form |-> "options", required |-> required, optional |-> optional]}
EitherWay(required, optional) == Plainly(required, optional) \cup ByOptions(required, optional)

Bare(names) == [m \in names |-> Plainly({}, {})]

-----------------------------------------------------------------------------
\* Arguments: the caller's own, or a default in its place, and what is made of it.

Arg(p, default, as) == [of |-> p, or |-> default, as |-> as]

Value(p)    == Arg(p, Undefined, "value")
Or(p, d)    == Arg(p, d, "value")
Const(v)    == Arg("", v, "value")
Whole       == Arg("", "options", "object")      \* the options object itself
OrElse(p, other) == Arg(p, other, "fallback")    \* the second stands in for the first
Record(fields) == Arg(fields, Undefined, "record")

Column(p)   == Arg(p, Undefined, "column")    \* exprToLitOrExpr(p, false)
Literal(p)  == Arg(p, "null", "literal")     \* exprToLitOrExpr(p): null if it is not given
Native(p)   == Arg(p, Undefined, "native")    \* p.inner(), p._s, p._df, p._ldf
Exprs(p)    == Arg(p, Undefined, "exprs")     \* selectionToExprList(p)
List(p)     == Arg(p, Undefined, "list")      \* an array: flat(), [p], columnOrColumns(p)
ListOr(p, d) == Arg(p, d, "list")

\* The caller's own parameters, handed on under their names.
Forward(names) == [p \in names |-> Value(p)]

-----------------------------------------------------------------------------
\* Steps of a method.

Step(on, call, form, args) == [on |-> on, call |-> call, form |-> form, args |-> args]

Own(native, args)       == Step("own", native, "plain", args)   \* _s.native(...)
Do(native, args)        == Step("do", native, "plain", args)    \* ... .native(...), result unused
On(call, args)          == Step("it", call, "plain", args)      \* ... .call(...)
OnWith(call, options)   == Step("it", call, "options", options) \* ... .call({...})
Spread(call)            == Step("it", call, "same", <<>>)       \* ... .call(...args)
This(call, args)        == Step("this", call, "plain", args)    \* this.call(...)
Pli(native, args)       == Step("pli", native, "plain", args)   \* pli.native(...)
Typed(native, args)     == Step("typed", native, "plain", args) \* pli[native + dtype](_s, ...)
Fn(function, args)      == Step("pl", function, "plain", args)  \* function(...)
Given(class, p)         == Step("given", class, "plain", p)     \* the argument itself, an object
New(class)              == Step("new", class, "plain", <<>>)    \* _Class(what was returned)
Over(class)             == Step("over", class, "plain", <<>>)   \* _Class(its own native object)
Only(dtypes)            == Step("only", "", "plain", dtypes)    \* or an InvalidOperationError
Demands(names)          == Step("demands", "", "plain", names)  \* throws: one of them is missing
Writes(names)           == Step("writes", "", "plain", names)   \* into the caller's object
Fails                   == Step("fails", "", "plain", <<>>)     \* a TypeError
NotYet                  == Step("not yet", "", "plain", <<>>)   \* throws: not implemented

-----------------------------------------------------------------------------
\* Alternatives, tried in order: the form of the call, the arguments that must
\* have been given, and the dtype of the series where it matters.

Alternative(form, needs, of, does) ==
  <<[form |-> form, needs |-> needs, of |-> of, does |-> does]>>
Plain(does)            == Alternative("plain", {}, {}, does)
PlainIf(needs, does)   == Alternative("plain", needs, {}, does)
PlainIfAny(names, does) == FlattenSeq(SetToSeq({PlainIf({n}, does) : n \in names}))
PlainOf(dtypes, does)  == Alternative("plain", {}, dtypes, does)
Options(does)          == Alternative("options", {}, {}, does)
OptionsIf(needs, does) == Alternative("options", needs, {}, does)
Both(does)             == Plain(does) \o Options(does)
BothIf(needs, does)    == PlainIf(needs, does) \o OptionsIf(needs, does)

\* Methods without parameters: those that wrap what the native method of their
\* name returns, and those that return it as it is.
Wrapping(names, class) == [m \in names |-> Plain(<<Own(m, <<>>), New(class)>>)]
Reading(names)         == [m \in names |-> Plain(<<Own(m, <<>>)>>)]
=============================================================================
