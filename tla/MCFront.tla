-------------------------------- MODULE MCFront --------------------------------
(***************************************************************************)
(* Programs for inference: every way two binders of the same or of two     *)
(* names nest, values of every form bound to a name and used in every way, *)
(* calls with arguments right and wrong, and matches with every choice of  *)
(* arms.                                                                   *)
(***************************************************************************)
EXTENDS RibJudge

\* Terms, as the parser makes them: every variable is global, every call unbound.
Num    == Term("number", "", <<>>)
Str    == Term("literal", "", <<>>)
True   == Term("boolean", "", <<>>)
Id(x)  == Identifier(Global(x))
Let(x, e) == Term("let", Global(x), <<e>>)
Block(es) == Term("block", "", es)
Cond(c, l, r) == Term("cond", "", <<c, l, r>>)
Op(o, l, r)   == Term(o, "", <<l, r>>)
List(es)  == Term("list", "", es)
Tuple(es) == Term("tuple", "", es)
Record(names, es) == Term("record", names, es)
Some(e) == Term("option", "", <<e>>)
None    == Term("option", "", <<>>)
Ok(e)   == Term("ok", "", <<e>>)
Err(e)  == Term("err", "", <<e>>)
For(x, i, y) == Term("for", Global(x), <<i, y>>)
Reduce(acc, x, i, from, y) == Term("reduce", <<Global(acc), Global(x)>>, <<i, from, y>>)
Match(e, pats, results) == [Term("match", "", <<e>> \o results) EXCEPT !.pats = pats]
Field(e, x) == Term("select-field", x, <<e>>)
Index(e, i) == Term("select-index", "", <<e, i>>)
Range(i, j) == Term("range", "to", <<i, j>>)
Call(f, args) == Term("call", Function(f), args)
Invoke(e, m, args) == Term("invoke", m, <<e>> \o args)

Named(x)       == LiteralPattern(Id(x))
Case(name, ps) == Pattern("constructor", name, ps)
Alias(x, p)    == Pattern("as", x, <<p>>)

-----------------------------------------------------------------------------
\* The component.
U8    == Number("u8")
U64   == Number("u64")
Pay   == VariantT(<<Is("card", Text), Bare("cash")>>)
Color == EnumT(<<Bare("red"), Bare("green")>>)
Order == RecordT(<<Is("p", U8), Is("q", OptionT(Text))>>)
Cart  == HandleT("cart", "api")

MCExports ==
  <<Entry(Key("function", "", "", "f"), <<U8>>, <<U64>>),
    Entry(Key("function", "", "", "pay"), <<Pay>>, <<Color>>),
    Entry(Key("function", "", "", "order"), <<Order, ListT(U8)>>, <<ResultT(<<U8>>, <<Text>>)>>),
    Entry(Key("constructor", "api", "cart", "new"), <<Text>>, <<Cart>>),
    Entry(Key("method", "api", "cart", "add"), <<Cart, U8>>, <<>>),
    Entry(Key("method", "api", "cart", "size"), <<Cart>>, <<U64>>),
    Entry(Key("static", "api", "cart", "merge"), <<Cart, Cart>>, <<Cart>>),
    Entry(Key("static", "api", "cart", "free"), <<>>, <<U64>>),
    Entry(Key("function", "", "", "stock"), <<>>, <<RecordT(<<Is("c", Cart), Is("p", U8)>>)>>)>>

MCSpecs == <<Stated("req", <<"p">>, Text)>>

-----------------------------------------------------------------------------
\* Names: binders around binders.
Nums == List(<<Num, Num>>)
Bound(x, b) ==
  {Block(<<Let(x, Num), b>>), For(x, Nums, b), Reduce("acc", x, Nums, Num, b),
   Match(Some(Num), <<Case("some", <<Named(x)>>), Case("none", <<>>)>>, <<b, Num>>),
   Match(Num, <<Alias(x, Wildcard)>>, <<b>>)}
Uses  == {Id("x"), Op("+", Id("x"), Id("y"))}
Once  == UNION {Bound("x", b) : b \in Uses}
Twice == UNION {UNION {Bound(x, b) : b \in Once} : x \in {"x", "y"}}
After == {Block(<<Let(x, Num), b, Op("+", Id("x"), Num)>>) : x \in {"x", "y"}, b \in Once}
         \cup {Block(<<Let("x", Num), Let("x", Op("+", Id("x"), e)), Id("x")>>) : e \in {Num, Id("y")}}

\* Data: a value of each form, bound to a name, and used in each way.
Atoms  == {Num, Str, True, Id("in")}
Built == Atoms \cup {Op("+", a, b) : a \in {Num, Id("in")}, b \in Atoms}
  \cup {List(<<a, b>>) : a \in {Num, Id("in")}, b \in Atoms}
  \cup {Cond(Op("==", a, Num), Num, b) : a \in {Num, Id("in")}, b \in Atoms}
  \cup UNION {{Some(a), Ok(a), Err(a), Tuple(<<a, Num>>), Record(<<"p">>, <<a>>), Term("not", "", <<a>>)} : a \in Atoms}
  \cup {None, List(<<>>), Range(Num, Num), Field(Id("req"), "p"), Annotated(Num, U8), Op("and", True, True)}
Used(x) ==
  {Op("+", x, Num), Op(">", x, Id("in")), Field(x, "p"), Index(x, Num), Index(x, Range(Num, Num)),
   List(<<Num, x>>), Cond(x, Num, Str), Cond(True, x, Num),
   For("y", x, Op("+", Id("y"), Num)), Reduce("acc", "y", x, Num, Op("+", Id("acc"), Id("y"))),
   Match(x, <<Case("ok", <<Named("y")>>), Case("err", <<Wildcard>>)>>, <<Id("y"), Num>>),
   Match(x, <<Pattern("tuple", "", <<Named("y"), Named("z")>>)>>, <<Op("+", Id("y"), Id("z"))>>),
   Match(x, <<Pattern("record", <<"p">>, <<Named("y")>>), Wildcard>>, <<Id("y"), Num>>),
   Match(x, <<Pattern("list", "", <<Named("y")>>), Wildcard>>, <<Id("y"), Num>>)}
Bind1(e) == IF e.note = <<>> THEN Let("x", e) ELSE Annotated(Let("x", Num), e.note[1])

\* A list that mixes types: inference looks at its first element only.
FirstOnly == {List(<<a, True>>) : a \in {Num, Id("in")}} \cup {Annotated(Num, U8)}
Listing(x) == {List(<<Num, x>>), Index(x, Num)}

Data == {Block(<<Bind1(e), u>>) : e \in Built \ FirstOnly, u \in Used(Id("x"))}
  \cup {Block(<<Bind1(Annotated(Num, U8)), u>>) : u \in Used(Id("x")) \ Listing(Id("x"))}
MCLists == {Block(<<Bind1(e), u>>) : e \in FirstOnly, u \in Listing(Id("x"))}

\* Calls: arguments right and wrong, and results used in every way.
Worker == Let("w", Call("instance", <<>>))
On(m, args) == Invoke(Id("w"), m, args)
With(e) == Block(<<Worker, e>>)

Wrong == {<<Str>>, <<True>>, <<Num, Num>>, <<>>}
Arguments ==
  ("f" :> Wrong \cup {<<Num>>, <<Id("in")>>, <<Op("+", Num, Num)>>, <<Field(Id("req"), "p")>>, <<Id("cash")>>}) @@
  ("pay" :> Wrong \cup {<<Call("card", <<Str>>)>>, <<Call("card", <<Num>>)>>, <<Id("cash")>>, <<Id("in")>>}) @@
  ("order" :> {<<Record(<<"p", "q">>, <<Num, e>>), List(<<Num>>)>> : e \in {None, Some(Str), Some(Num)}} \cup
              {<<Record(<<"p">>, <<Num>>), List(<<Num>>)>>, <<Id("in"), Id("ns")>>, <<Id("in"), Id("in")>>}) @@
  ("stock" :> {<<>>, <<Num>>})

Contexts(c) ==
  {c, Op("+", c, Num), List(<<c, c>>), Cond(Op("==", Id("in"), Num), c, Num), For("y", List(<<c>>), Op("+", Id("y"), c)),
   Match(c, <<Named("red"), Named("green")>>, <<Num, Num>>), Field(c, "p"), Op(">", Field(c, "c"), Num),
   Match(c, <<Case("ok", <<Named("y")>>), Case("err", <<Named("z")>>)>>, <<Id("y"), Num>>)}
CallsMade == {With(e) : e \in UNION {UNION {Contexts(On(m, args)) : args \in Arguments[m]} : m \in DOMAIN Arguments}}

\* A variable that calls are made with, before and after other uses of it.
Passed ==
  {Block(<<Worker, Let("x", e), Let("r", On(m, <<Id("x")>>)), u>>) :
     e \in {Num, Str, Id("in"), Id("cash"), Some(Num)}, m \in {"f", "pay"}, u \in {Id("r"), Id("x")} \cup (Used(Id("x")) \ Listing(Id("x")))}
  \cup {With(Match(On("order", <<Id("in"), List(<<Num>>)>>),
                   <<Case("ok", <<Named("y")>>), Case("err", <<Named("z")>>)>>, <<On("f", <<Id("y")>>), e>>)) :
          e \in {Num, Id("z"), On("f", <<Id("z")>>), On("f", <<Num>>)}}

\* Resources and their instances.
Steps == {Invoke(Id("c"), "add", <<Num>>), Invoke(Id("c"), "add", <<Str>>), Invoke(Id("c"), "size", <<>>),
          On("size", <<>>), Invoke(Id("c"), "f", <<Num>>), Call("f", <<Num>>), Invoke(Id("in"), "f", <<Num>>),
          On("merge", <<Id("c")>>), On("free", <<>>), Field(Id("w"), "cart"), Id("instance")}
Carts ==
  {Block(<<Worker, Let("c", On("cart", <<e>>)), s, t>>) :
     e \in {Str, Num}, s \in Steps, t \in {Num, Op("+", Invoke(Id("c"), "size", <<>>), Num)}}
  \cup {With(Invoke(Field(On("stock", <<>>), "c"), m, args)) : m \in {"add", "size", "nothing"}, args \in {<<>>, <<Num>>}}
  \cup {Block(<<Let("w", Call("instance", <<e>>)), On("f", <<Num>>)>>) : e \in Atoms}

\* Matches on a value of a given type.
Given(t, e, pats) ==
  Block(<<Annotated(Let("o", e), t), Match(Id("o"), pats, [k \in DOMAIN pats |-> Num])>>)
Paid(pats) == Block(<<Worker, Match(Invoke(Id("w"), "pay", <<Id("cash")>>), pats, [k \in DOMAIN pats |-> Num])>>)

Sequences(S, n) == UNION {[1..k -> S] : k \in 1..n}

OptionArms == {Case("some", <<Case("some", <<Named("x")>>)>>), Case("some", <<Case("none", <<>>)>>),
               Case("none", <<>>), Case("some", <<Named("x")>>), Alias("x", Wildcard)}
ResultArms == {Case("ok", <<Wildcard>>), Case("err", <<Case("card", <<Named("x")>>)>>),
               Case("err", <<Named("cash")>>), Case("err", <<Wildcard>>), Named("x")}
ColorArms  == {Named("red"), Named("green"), Named("x"), Wildcard}
PayArms    == {Case("card", <<Wildcard>>), Named("cash"), Named("x"), Alias("y", Case("card", <<Named("x")>>))}

Matches4 ==
  {Given(OptionT(OptionT(U8)), Some(None), ps) : ps \in Sequences(OptionArms, 3)}
    \cup {Given(ResultT(<<U8>>, <<Pay>>), Ok(Num), ps) : ps \in Sequences(ResultArms, 3)}
    \cup {Given(Pay, Id("cash"), ps) : ps \in Sequences(PayArms, 3)}
    \cup {Paid(ps) : ps \in Sequences(ColorArms, 3)}

\* A call that is the argument of a call.
MCNested == {With(On("f", <<On("f", args)>>)) : args \in Arguments["f"]}

\* An enum's case with a letter missing.
MCMisspelt == {Paid(ps) : ps \in Sequences({Named("red"), Named("green"), Named("gren")}, 2)}

MCPrograms == Once \cup Twice \cup After \cup Data \cup CallsMade \cup Passed \cup Carts \cup Matches4

===============================================================================
