------------------------------ MODULE RibMeaning ------------------------------
(***************************************************************************)
(* What a Rib program means, by the language guide: a reference evaluator  *)
(* with no bytecode and no stack.  Operands are evaluated last first, as   *)
(* the compiler orders them; the guide leaves the order open.  A match     *)
(* looks at its value once.                                                *)
(***************************************************************************)
EXTENDS RibTerms

CONSTANTS
  Value(_, _),   \* external: Value(c, k), what c, call number k, returns
  Name(_)        \* external: Name(k), the k-th name for an instance without one

(***************************************************************************)
(* A state of the evaluation: the value of the last expression, the        *)
(* variables, the calls and the names generated so far, and <<>> or        *)
(* <<why it failed>>.                                                      *)
(***************************************************************************)
Given(vars) == [v |-> Unit, env |-> vars, calls |-> <<>>, names |-> 0, err |-> <<>>]

Fails(s, why) == [s EXCEPT !.err = <<why>>]

Gives(s, v) == [s EXCEPT !.v = v]

Binds(vars, x, v) == [y \in DOMAIN vars \cup {x} |-> IF y = x THEN v ELSE vars[y]]

-----------------------------------------------------------------------------
(***************************************************************************)
(* The guide's patterns: what a pattern binds when it fits a value, as a   *)
(* set with at most one element.                                           *)
(***************************************************************************)
NoVars == [x \in {} |-> 0]

Both(f, g) == [x \in DOMAIN f \cup DOMAIN g |-> IF x \in DOMAIN g THEN g[x] ELSE f[x]]

RECURSIVE Fits(_, _), FitsAll(_, _)

Constant(e) == IF e.form = "variant" THEN Variant(e.tag, <<>>) ELSE e.tag

FitsAll(patterns, values) ==
  IF Len(patterns) # Len(values) THEN {}
  ELSE IF patterns = <<>> THEN {NoVars}
  ELSE {Both(f, g) : f \in Fits(Head(patterns), Head(values)),
                     g \in FitsAll(Tail(patterns), Tail(values))}

Fits(p, v) ==
  CASE p.form = "any"     -> {NoVars}
    [] p.form = "bind"    -> {p.tag :> v}
    [] p.form = "as"      -> {Both(p.tag :> v, f) : f \in Fits(p.parts[1], v)}
    [] p.form = "literal" -> IF v = Constant(p.tag) THEN {NoVars} ELSE {}
    [] p.form = "enum"    -> IF v = Enum(p.tag) THEN {NoVars} ELSE {}
    [] p.form = "record"  -> FitsAll(p.parts, [k \in 1..Len(p.tag) |-> Payload(v)[p.tag[k]]])
    [] Kind(v) \in {"list", "tuple"} -> FitsAll(p.parts, Payload(v))
    [] Kind(v) = "option" -> IF p.tag = "some" THEN FitsAll(p.parts, Payload(v))
                             ELSE IF v = None THEN {NoVars} ELSE {}
    [] Kind(v) = "result" -> IF p.tag = Payload(v)[1] THEN Fits(p.parts[1], Payload(v)[2]) ELSE {}
    [] Kind(v) = "variant"-> IF p.tag = Payload(v)[1] THEN FitsAll(p.parts, Payload(v)[2]) ELSE {}

-----------------------------------------------------------------------------
(***************************************************************************)
(* Operators on values: <<result>>, or <<>> where there is none.           *)
(***************************************************************************)
At(q, n) == IF n < Len(q) THEN <<q[n + 1]>> ELSE <<>>

Computes(f, a, b) ==
  CASE f = "+" -> <<Num(a + b)>>
    [] f = "*" -> <<Num(a * b)>>
    [] f = "-" -> IF a < b THEN <<>> ELSE <<Num(a - b)>>
    [] f = "/" -> IF b = 0 THEN <<>> ELSE <<Num(a \div b)>>

Relates(r, a, b) ==
  CASE r = "==" -> a = b
    [] r = "<"  -> Payload(a) < Payload(b)
    [] r = ">=" -> Payload(a) >= Payload(b)

RECURSIVE Joined(_)
Joined(vs) == IF vs = <<>> THEN "" ELSE TextOf(Head(vs)) \o Joined(Tail(vs))

\* The call of f with these arguments, on the worker or the resource of x.
Sent(f, on, vs, vars) ==
  IF on = Static THEN [function |-> f, instance |-> "___STATIC_WIT_RESOURCE", args |-> vs]
  ELSE LET held == vars[on[2]] IN
       IF on[1] = "worker" THEN [function |-> f, instance |-> Payload(held), args |-> vs]
       ELSE [function |-> f, instance |-> Payload(held)[1], args |-> <<held>> \o vs]

Apply(e, vs) ==
  CASE e.form = "math"         -> Computes(e.tag, Payload(vs[1]), Payload(vs[2]))
    [] e.form = "compare"      -> <<Boolean(Relates(e.tag, vs[1], vs[2]))>>
    [] e.form = "not"          -> <<Boolean(~ Payload(vs[1]))>>
    [] e.form = "sequence"     -> <<List(vs)>>
    [] e.form = "tuple"        -> <<Tuple(vs)>>
    [] e.form = "record"       ->
         <<Rec([f \in {e.tag[k] : k \in DOMAIN e.tag} |-> vs[CHOOSE k \in DOMAIN e.tag : e.tag[k] = f]])>>
    [] e.form = "select-field" -> <<Payload(vs[1])[e.tag]>>
    [] e.form = "select-index" -> At(Payload(vs[1]), Payload(vs[2]))
    [] e.form = "some"         -> <<Some(vs[1])>>
    [] e.form = "ok"           -> <<Ok(vs[1])>>
    [] e.form = "err"          -> <<Err(vs[1])>>
    [] e.form = "variant"      -> <<Variant(e.tag, vs)>>
    [] e.form = "enum"         -> <<Enum(e.tag)>>
    [] e.form = "flags"        -> <<Flags([k \in DOMAIN e.tag[1] |-> e.tag[1][k] \in e.tag[2]])>>
    [] e.form = "concat"       -> <<Str(Joined(vs))>>
    [] e.form = "instance"     -> vs

RangeValue(from, to, inclusive) ==
  Rec([from |-> from, to |-> to, inclusive |-> Boolean(inclusive)])

Elements(v) ==
  IF Kind(v) = "list" THEN Payload(v)
  ELSE Span(Payload(Payload(v).from), Payload(Payload(v).to), Payload(Payload(v).inclusive))

-----------------------------------------------------------------------------
RECURSIVE Eval(_, _), InTurn(_, _), Arguments(_, _), Loop(_, _, _, _), Accumulate(_, _, _, _, _)

(***************************************************************************)
(* One after the other; what comes after a failure is not evaluated.       *)
(***************************************************************************)
Then(s, e) == IF s.err = <<>> THEN Eval(e, s) ELSE s

InTurn(es, s) == IF es = <<>> THEN s ELSE InTurn(Tail(es), Then(s, Head(es)))

(***************************************************************************)
(* The operands of e, last first: the state after, with the values.        *)
(***************************************************************************)
Arguments(es, s) ==
  IF es = <<>> THEN [s |-> s, vs |-> <<>>]
  ELSE LET r == Arguments(Tail(es), s)
           t == Then(r.s, Head(es))
       IN  [s |-> t, vs |-> <<t.v>> \o r.vs]

(***************************************************************************)
(* The body once for each element of q, x bound to it; what it gives is    *)
(* collected.                                                              *)
(***************************************************************************)
Loop(x, q, body, s) ==
  IF q = <<>> THEN [s |-> s, vs |-> <<>>]
  ELSE LET t == Then([s EXCEPT !.env = Binds(@, x, Head(q))], body)
           r == Loop(x, Tail(q), body, t)
       IN  [s |-> r.s, vs |-> <<t.v>> \o r.vs]

(***************************************************************************)
(* The accumulator after the body for each element of q.                   *)
(***************************************************************************)
Accumulate(acc, x, q, body, s) ==
  IF q = <<>> THEN s
  ELSE Accumulate(acc, x, Tail(q), body,
                  Then([s EXCEPT !.env = Binds(Binds(@, acc, s.v), x, Head(q))], body))

(***************************************************************************)
(* The first arm whose pattern fits; fits[k] is what pattern k binds.      *)
(***************************************************************************)
Take(fits, arms, s) ==
  LET fitting == {k \in DOMAIN fits : fits[k] # {}}
      first   == CHOOSE k \in fitting : \A j \in fitting : k <= j
  IN  IF fitting = {} THEN Fails(s, "throw")
      ELSE Eval(arms[first], [s EXCEPT !.env = Both(@, CHOOSE f \in fits[first] : TRUE)])

Chosen(e, s) ==
  Take([k \in DOMAIN e.tag[2] |-> Fits(e.tag[2][k], s.v)], Tail(e.args), s)

(***************************************************************************)
(* Elements from..to of a list; an open slice stops before the last one.   *)
(***************************************************************************)
Slicing(e, s) ==
  LET q     == Payload(Eval(e.args[1], s).v)
      t     == Eval(e.args[2], s)
      open  == e.args[2].form = "range-from"
      range == IF open THEN RangeValue(Payload(t.v).from, Num(Len(q) - 1), FALSE) ELSE t.v
  IN  IF open /\ q = <<>> THEN Fails(s, "math")
      ELSE IF t.err # <<>> THEN t
      ELSE IF \E k \in DOMAIN Elements(range) : Payload(Elements(range)[k]) >= Len(q)
      THEN Fails(t, "select-index")
      ELSE Gives(t, List([k \in DOMAIN Elements(range) |-> q[Payload(Elements(range)[k]) + 1]]))

Eval(e, s) ==
  CASE e.form = "literal"    -> Gives(s, e.tag)
    [] e.form = "identifier" -> Gives(s, s.env[e.tag])
    [] e.form = "block"      -> InTurn(e.args, s)
    [] e.form = "select-range" -> Slicing(e, s)
    [] e.form = "let" ->
         LET t == Eval(e.args[1], s) IN
         IF t.err # <<>> THEN t ELSE [t EXCEPT !.v = Unit, !.env = Binds(@, e.tag, t.v)]
    [] e.form = "cond" ->
         LET t == Eval(e.args[1], s) IN
         IF t.err # <<>> THEN t ELSE Eval(e.args[IF Payload(t.v) THEN 2 ELSE 3], t)
    [] e.form \in {"and", "or"} ->
         LET t == Eval(e.args[1], s) IN
         IF t.err # <<>> \/ t.v = Boolean(e.form = "or") THEN t ELSE Eval(e.args[2], t)
    [] e.form = "match" ->
         LET t == Eval(e.args[1], s) IN IF t.err # <<>> THEN t ELSE Chosen(e, t)
    [] e.form \in {"range", "range-from"} ->
         LET t == InTurn(<<e.args[1]>>, s)
             u == InTurn(Tail(e.args), t)
         IN  Gives(u, IF e.form = "range" THEN RangeValue(t.v, u.v, e.tag)
                      ELSE Rec([from |-> t.v, inclusive |-> Boolean(e.tag)]))
    [] e.form = "for" ->
         LET t == Eval(e.args[1], s)
             r == Loop(e.tag, Elements(t.v), e.args[2], t)
         IN  IF t.err # <<>> THEN t
             ELSE Gives(r.s, List(r.vs))
    [] e.form = "reduce" ->
         LET t == Eval(e.args[1], s)
             u == Then(t, e.args[2])
         IN  IF u.err # <<>> THEN u
             ELSE Accumulate(e.tag[1], e.tag[2], Elements(t.v), e.args[3], u)
    [] e.form = "call" ->
         LET r == Arguments(e.args, s) IN
         IF r.s.err # <<>> THEN r.s
         ELSE LET call == Sent(e.tag[1], e.tag[2], r.vs, r.s.env)
              IN  [r.s EXCEPT !.v = Value(call, Len(r.s.calls)), !.calls = Append(@, call)]
    [] e.form = "worker-name" -> [s EXCEPT !.v = Str(Name(s.names + 1)), !.names = @ + 1]
    [] OTHER ->
         LET r == Arguments(e.args, s) IN
         IF r.s.err # <<>> THEN r.s
         ELSE IF Apply(e, r.vs) = <<>> THEN Fails(r.s, e.form)
         ELSE Gives(r.s, Apply(e, r.vs)[1])

===============================================================================
