------------------------------- MODULE RibTerms -------------------------------
(***************************************************************************)
(* The terms the compiler and the interpreter of Rib exchange: expressions *)
(* (Expr, as type inference leaves them), patterns, instructions (RibIR)   *)
(* and values.  Types are left out except where the code branches on them: *)
(* the type of a matched value and the kind of an index.                   *)
(***************************************************************************)
EXTENDS Integers, Sequences, TLC

(***************************************************************************)
(* Values: <<kind, payload>>.  Unit, iterators and sinks live on the stack *)
(* of the interpreter only.                                                *)
(***************************************************************************)
Num(n)      == <<"num", n>>
Boolean(b)  == <<"bool", b>>
Str(s)      == <<"str", s>>
List(q)     == <<"list", q>>
Tuple(q)    == <<"tuple", q>>
Rec(f)      == <<"record", f>>
Some(v)     == <<"option", <<v>>>>
None        == <<"option", <<>>>>
Ok(v)       == <<"result", <<"ok", v>>>>
Err(v)      == <<"result", <<"err", v>>>>
Variant(c, arg) == <<"variant", <<c, arg>>>>  \* arg: <<>> or <<payload>>
Enum(c)     == <<"enum", c>>
Flags(bits) == <<"flags", bits>>              \* one Boolean for each flag of the type
Handle(instance, k) == <<"handle", <<instance, k>>>>  \* of a resource of an instance
Unit        == <<"unit", 0>>
Iterator(q) == <<"iterator", q>>
Sink(q)     == <<"sink", q>>

Kind(v) == v[1]
Payload(v) == v[2]

ValueKinds == {"num", "bool", "str", "list", "tuple", "record", "option",
               "result", "variant", "enum", "flags", "handle"}

(***************************************************************************)
(* The text of a literal: a string is its own, with no quotes.             *)
(***************************************************************************)
TextOf(v) ==
  CASE Kind(v) = "str"  -> Payload(v)
    [] Kind(v) = "num"  -> ToString(Payload(v))
    [] Kind(v) = "bool" -> IF Payload(v) THEN "true" ELSE "false"

(***************************************************************************)
(* The values a range from..to or from..=to is iterated over.              *)
(***************************************************************************)
Span(from, to, inclusive) ==
  LET n == to - from + (IF inclusive THEN 1 ELSE 0)
  IN  [k \in 1..(IF n > 0 THEN n ELSE 0) |-> Num(from + k - 1)]

(***************************************************************************)
(* Instructions: an operation and its immediate operand.                   *)
(***************************************************************************)
Ir(op, imm) == [op |-> op, imm |-> imm]

PushLit(v)      == Ir("lit", v)
AssignVar(x)    == Ir("assign", x)
LoadVar(x)      == Ir("load", x)
Jump(l)         == Ir("jump", l)
JumpIfFalse(l)  == Ir("jump-if-false", l)
Label(l)        == Ir("label", l)
Plain(op)       == Ir(op, 0)

(***************************************************************************)
(* Expressions: a form, what distinguishes it, and its subexpressions in   *)
(* the order of the source.                                                *)
(***************************************************************************)
Node(form, tag, args) == [form |-> form, tag |-> tag, args |-> args]

Lit(v)          == Node("literal", v, <<>>)
Var(x)          == Node("identifier", x, <<>>)
Let(x, e)       == Node("let", x, <<e>>)
Block(es)       == Node("block", 0, es)
If(c, t, f)     == Node("cond", 0, <<c, t, f>>)
And(a, b)       == Node("and", 0, <<a, b>>)
Or(a, b)        == Node("or", 0, <<a, b>>)
Compare(r, a, b)== Node("compare", r, <<a, b>>)
Equal(a, b)     == Compare("==", a, b)
Math(f, a, b)   == Node("math", f, <<a, b>>)
Not(e)          == Node("not", 0, <<e>>)
ListOf(es)      == Node("sequence", 0, es)
TupleOf(es)     == Node("tuple", 0, es)
RecordOf(fs, es)== Node("record", fs, es)          \* fs: the field names
Select(e, f)    == Node("select-field", f, <<e>>)
Index(e, i)     == Node("select-index", 0, <<e, i>>)
Slice(e, r)     == Node("select-range", 0, <<e, r>>)
SomeOf(e)       == Node("some", 0, <<e>>)
OkOf(e)         == Node("ok", 0, <<e>>)
ErrOf(e)        == Node("err", 0, <<e>>)
VariantOf(c, es)== Node("variant", c, es)          \* es: <<>> or <<payload>>
EnumOf(c)       == Node("enum", c, <<>>)
FlagsOf(all, some) == Node("flags", <<all, some>>, <<>>)
Concat(es)      == Node("concat", 0, es)
Length(e)       == Node("length", 0, <<e>>)
Unwrap(e)       == Node("unwrap", 0, <<e>>)
TagOf(e)        == Node("get-tag", 0, <<e>>)
Throw           == Node("throw", 0, <<>>)

(***************************************************************************)
(* A call is sent to the worker or the resource a variable holds; the      *)
(* worker of instance("a").f() is held by none.  instance(e) is its name,  *)
(* instance() that of a name to be generated.  A resource is the result of *)
(* a call of its constructor.                                              *)
(***************************************************************************)
Worker(x)       == <<"worker", x>>
Resource(x)     == <<"resource", x>>
Static          == <<"resource">>
Unnamed         == <<"worker">>
Call(f, on, es) == Node("call", <<f, on>>, es)
Instance(e)     == Node("instance", 0, <<e>>)
GeneratedName   == Node("worker-name", 0, <<>>)

RangeOf(a, b, inclusive) == Node("range", inclusive, <<a, b>>)
RangeFrom(a)    == Node("range-from", FALSE, <<a>>)
For(x, it, e)   == Node("for", x, <<it, e>>)
Reduce(acc, x, it, init, e) == Node("reduce", <<acc, x>>, <<it, init, e>>)

(***************************************************************************)
(* match e { patterns[i] => arms[i] }, with the type of e.                 *)
(***************************************************************************)
Match(e, type, patterns, arms) ==
  Node("match", <<type, patterns>>, <<e>> \o arms)

(***************************************************************************)
(* Patterns and the types they take apart.                                 *)
(***************************************************************************)
Pattern(form, tag, parts) == [form |-> form, tag |-> tag, parts |-> parts]

AnyPat          == Pattern("any", 0, <<>>)
Bind(x)         == Pattern("bind", x, <<>>)
LitPat(e)       == Pattern("literal", e, <<>>)
EnumPat(c)      == Pattern("enum", c, <<>>)
As(x, p)        == Pattern("as", x, <<p>>)
CasePat(c, ps)  == Pattern("constructor", c, ps)
RecordPat(fs, ps) == Pattern("record", fs, ps)

NumType         == <<"num", 0>>
OptionType(t)   == <<"option", t>>
ResultType(t, u)== <<"result", [ok |-> t, err |-> u]>>
TupleType(ts)   == <<"tuple", ts>>
ListType(t)     == <<"list", t>>
RecordType(ts)  == <<"record", ts>>      \* field -> type
VariantType(cs) == <<"variant", cs>>     \* case -> <<>> or <<type of payload>>
EnumType        == <<"enum", 0>>

===============================================================================
