-------------------------------- MODULE Calls --------------------------------
(***************************************************************************)
(* A call of the interfaces, carried out: the method is looked up in the   *)
(* table of its class, its steps call native functions and other methods   *)
(* in turn, until the outermost one returns or something throws.  Where    *)
(* the same call is declared in several ways, with plain arguments and     *)
(* with an options object, or under two names, it is made in each of them. *)
(***************************************************************************)
EXTENDS FiniteSets, Integers, SequencesExt, Interfaces, Natives

CONSTANTS
  Classes,      \* the classes whose methods are called
  Dtypes,       \* the dtypes a series may have
  MaxDepth      \* a call nested deeper has no end

ASSUME DepthAssumption == MaxDepth \in Nat \ {0}

VARIABLES
  request,  \* what is called: class, method, arguments given
  dtype,    \* of the series it is called on
  ways,     \* the ways to make the call, as a name and a form: the first is being taken
  stack,    \* the methods begun, the innermost first
  it,       \* the class of what the last call returned
  seen,     \* the arguments a native function received, or that decided something
  written,  \* the fields written into the caller's object
  natives,  \* the native calls made, with their arguments
  outcome,  \* how the call ended
  earlier   \* how the ways taken before ended: the outcome and the native calls

vars == <<request, dtype, ways, stack, it, seen, written, natives, outcome, earlier>>
-----------------------------------------------------------------------------
\* Of the optional arguments, at most three are given.
UpToThree(names) == {{}} \cup {{p, q, r} : p, q, r \in names}

CallsOf(c) ==
  UNION {UNION {{[class |-> c, method |-> m, given |-> d.required \cup given] :
                   given \in UpToThree(d.optional)} : d \in Declared[c][m]} : m \in DOMAIN Declared[c]}

\* A method by another name.
SameAs ==
  [plus |-> "add", minus |-> "sub", divideBy |-> "div", multiplyBy |-> "mul", modulo |-> "rem",
   equals |-> "eq", notEquals |-> "neq", greaterThan |-> "gt", greaterThanEquals |-> "gtEq",
   lessThan |-> "lt", lessThanEquals |-> "ltEq", as |-> "alias", extend |-> "extendConstant",
   flatten |-> "explode", where |-> "filter", distinct |-> "unique", limit |-> "head",
   avg |-> "mean"]

NamesOf(c) ==
  {c.method} \cup
    {n \in DOMAIN Declared[c.class] : c.method \in DOMAIN SameAs /\ SameAs[c.method] = n}

WaysOf(c) ==
  UNION {{[name |-> n, form |-> d.form] :
            d \in {e \in Declared[c.class][n] : e.required \subseteq c.given
                                           /\ c.given \subseteq e.required \cup e.optional}} :
         n \in NamesOf(c)}
-----------------------------------------------------------------------------
\* Values: the caller's arguments they come from, or a literal; what was made of
\* them; the fields of an object.

MakeValue(from, lit, as, fields) == [from |-> from, lit |-> lit, as |-> as, fields |-> fields]
Missing == MakeValue({}, Undefined, "value", <<>>)

Argument(p) == MakeValue({p}, "", "value", <<>>)

RECURSIVE Eval(_, _)
Eval(a, env) ==
  LET made(v) == [v EXCEPT !.as = IF a.as = "value" THEN @ ELSE a.as]
      default == IF a.or = Undefined THEN Missing ELSE made(MakeValue({}, a.or, "value", <<>>))
  IN  CASE a.as = "record" ->
             LET fields == [f \in DOMAIN a.of |-> Eval(a.of[f], env)]
             IN  MakeValue(UNION {fields[f].from : f \in DOMAIN fields}, "", "record", fields)
        [] a.as = "fallback" ->
             IF a.of \in DOMAIN env THEN env[a.of]
             ELSE IF a.or \in DOMAIN env THEN env[a.or] ELSE Missing
        [] a.of \in DOMAIN env -> made(env[a.of])
        [] OTHER -> IF a = Whole THEN MakeValue(UNION {env[p].from : p \in DOMAIN env}, "", "object", <<>>)
                    ELSE default

\* The arguments of a call by name; one that is undefined is not there.
Bind(args, env) ==
  LET values == [p \in DOMAIN args |-> Eval(args[p], env)]
  IN  [p \in {q \in DOMAIN values : values[q] # Missing} |-> values[p]]

Accepts(kind, v) ==
  CASE kind \in {"value?", "list?"} -> v = Missing \/ v.as \in {"value", "list"}
    [] kind = "any"     -> TRUE
    [] v = Missing      -> FALSE
    [] kind = "value"   -> v.as = "value"
    [] kind = "list"    -> v.as \in {"value", "list"}
    [] kind = "native"  -> v.as \in {"native", "column", "literal"}
    [] kind = "natives" -> v.as \in {"exprs", "natives"}
    [] kind = "expr"    -> v.as = "expr"
    [] OTHER            -> v.as = "record"
                           /\ \A f \in Structs[kind].required :
                                f \in DOMAIN v.fields /\ v.fields[f] # Missing

\* What a native function makes of an argument of this kind.
Received(kind, v) ==
  IF kind \notin DOMAIN Structs THEN v.from
  ELSE UNION {v.fields[f].from : f \in DOMAIN v.fields \cap Structs[kind].used}
-----------------------------------------------------------------------------
Top  == Head(stack)
Does == Head(Top.does)
Rest == [Top EXCEPT !.does = Tail(@)]

Running  == outcome = "running"
Doing(on) == Running /\ stack # <<>> /\ Top.does # <<>> /\ Does.on \in on

Continue == stack' = <<Rest>> \o Tail(stack)
Throw(how) == outcome' = how /\ UNCHANGED <<stack, it, seen, written, natives>>

\* The alternative a method chooses, for these arguments in this form.
Chosen(c, m, form, env) ==
  SelectInSeq(Implemented[c][m],
              LAMBDA a : a.form = form /\ a.needs \subseteq DOMAIN env
                         /\ (a.of = {} \/ dtype \in a.of))

\* Fault: one frame too many.
BeginDeeper(c, m, form, env, frames) ==
  IF Len(frames) > MaxDepth THEN Throw("overflow")
  ELSE IF c \notin DOMAIN Implemented \/ m \notin DOMAIN Implemented[c] THEN Throw("missing")
  ELSE LET i == Chosen(c, m, form, env) IN
       IF i = 0 THEN Throw("unhandled")
       ELSE /\ stack' = <<[class |-> c, form |-> form, env |-> env,
                           does |-> Implemented[c][m][i].does]>> \o frames
            /\ seen' = seen \cup UNION {env[p].from : p \in Implemented[c][m][i].needs}
            /\ it' = Nothing
            /\ UNCHANGED <<written, natives, outcome>>

Begin(c, m, form, env, frames) ==
  IF Len(frames) >= MaxDepth THEN Throw("overflow")
  ELSE IF c \notin DOMAIN Implemented \/ m \notin DOMAIN Implemented[c] THEN Throw("missing")
  ELSE LET i == Chosen(c, m, form, env) IN
       IF i = 0 THEN Throw("unhandled")
       ELSE /\ stack' = <<[class |-> c, form |-> form, env |-> env,
                           does |-> Implemented[c][m][i].does]>> \o frames
            /\ seen' = seen \cup UNION {env[p].from : p \in Implemented[c][m][i].needs}
            /\ it' = Nothing
            /\ UNCHANGED <<written, natives, outcome>>

Init ==
  /\ \E c \in Classes : request \in CallsOf(c)
  /\ dtype \in IF request.class = "Series" THEN Dtypes ELSE {"Float64"}
  /\ ways = SetToSeq(WaysOf(request))
  /\ stack = <<>>
  /\ it = Nothing
  /\ seen = {}
  /\ written = {}
  /\ natives = <<>>
  /\ outcome = "running"
  /\ earlier = <<>>

Start ==
  /\ Running
  /\ stack = <<>>
  /\ Begin(request.class, Head(ways).name, Head(ways).form, [p \in request.given |-> Argument(p)], <<>>)

\* The native call of a step, on an object of class c.
NativeCall(c, keeps) ==
  LET name == Does.call
      args == [i \in DOMAIN Does.args |-> Eval(Does.args[i], Top.env)]
  IN
  IF c \notin DOMAIN NativesOf \/ name \notin DOMAIN NativesOf[c] THEN Throw("missing")
  ELSE LET native == NativesOf[c][name]
           arg(i) == IF i <= Len(args) THEN args[i] ELSE Missing
       IN  IF \E i \in DOMAIN native.args : ~Accepts(native.args[i], arg(i)) THEN Throw("refused")
           ELSE /\ natives' = Append(natives, <<name, [i \in DOMAIN native.args |-> arg(i)]>>)
                /\ seen' = seen \cup UNION {Received(native.args[i], arg(i)) : i \in DOMAIN native.args}
                /\ it' = IF keeps THEN it ELSE native.returns
                /\ Continue
                /\ UNCHANGED <<written, outcome>>

IsNative(c) == c \notin DOMAIN Implemented
Inner(c) == IF c \in DOMAIN Wrapped THEN Wrapped[c] ELSE c

CallNative ==
  \/ Doing({"own"}) /\ NativeCall(Wrapped[Top.class], FALSE)
  \/ Doing({"pli"}) /\ NativeCall("pli", FALSE)
  \/ Doing({"do"}) /\ NativeCall(Inner(it), TRUE)
  \/ Doing({"it"}) /\ IsNative(it) /\ NativeCall(it, FALSE)

CallTyped ==
  /\ Doing({"typed"})
  /\ IF dtype \notin TypedNatives[Does.call] THEN Throw("missing")
     ELSE LET args == [i \in DOMAIN Does.args |-> Eval(Does.args[i], Top.env)] IN
          /\ natives' = Append(natives, <<Does.call, args>>)
          /\ seen' = seen \cup UNION {args[i].from : i \in DOMAIN args}
          /\ it' = IF Does.call = "seriesGet" THEN "value" ELSE "JsSeries"
          /\ Continue
          /\ UNCHANGED <<written, outcome>>

\* A method of this, of what was returned last, or a function.
CallMethod ==
  /\ \/ Doing({"this", "pl"})
     \/ Doing({"it"}) /\ ~IsNative(it)
  /\ LET class == CASE Does.on = "this" -> Top.class [] Does.on = "pl" -> "pl" [] OTHER -> it
     IN  IF Does.form = "same"
         THEN Begin(class, Does.call, Top.form, Top.env, <<Rest>> \o Tail(stack))
         ELSE Begin(class, Does.call, Does.form, Bind(Does.args, Top.env), <<Rest>> \o Tail(stack))

Wrap ==
  /\ Doing({"new"})
  /\ IF it # Wrapped[Does.call] THEN Throw("hollow")
     ELSE /\ it' = Does.call
          /\ Continue
          /\ UNCHANGED <<seen, written, natives, outcome>>

Take ==
  /\ Doing({"over", "given"})
  /\ it' = Does.call
  /\ seen' = IF Does.on = "given" /\ Does.args \in DOMAIN Top.env
             THEN seen \cup Top.env[Does.args].from ELSE seen
  /\ Continue
  /\ UNCHANGED <<written, natives, outcome>>

Check ==
  \/ /\ Doing({"only"})
     /\ IF dtype \in Does.args
        THEN Continue /\ UNCHANGED <<it, seen, written, natives, outcome>>
        ELSE Throw("unsupported")
  \/ Doing({"demands"}) /\ Throw("demands")
  \/ Doing({"fails"}) /\ Throw("throws")
  \/ Doing({"not yet"}) /\ Throw("unimplemented")

WriteOptions ==
  /\ Doing({"writes"})
  /\ written' = written \cup Does.args
  /\ Continue
  /\ UNCHANGED <<it, seen, natives, outcome>>

Return ==
  /\ Running
  /\ stack # <<>>
  /\ Top.does = <<>>
  /\ stack' = Tail(stack)
  /\ outcome' = IF Len(stack) = 1 THEN "returned" ELSE outcome
  /\ UNCHANGED <<it, seen, written, natives>>

Working ==
  /\ Start \/ CallNative \/ CallTyped \/ CallMethod \/ Wrap \/ Take \/ Check \/ WriteOptions
     \/ Return
  /\ UNCHANGED <<request, dtype, ways, earlier>>

\* The same call once more, in another way.
Again ==
  /\ ~Running
  /\ Len(ways) > 1
  /\ ways' = Tail(ways)
  /\ earlier' = Append(earlier, <<outcome, natives>>)
  /\ outcome' = "running"
  /\ stack' = <<>>
  /\ it' = Nothing
  /\ natives' = <<>>
  /\ seen' = {}
  /\ written' = {}
  /\ UNCHANGED <<request, dtype>>

Next == Working \/ Again
Spec == Init /\ [][Next]_vars
=============================================================================
