-------------------------------- MODULE MCRib --------------------------------
(***************************************************************************)
(* Rib programs for TLC: number expressions, plugged into every form of    *)
(* the language, once or twice.  n, xs and o are inputs; f, g and add are  *)
(* functions of the host: call number k answers k + 1, and the constructor *)
(* cart a handle with that number.  log has no result.                     *)
(***************************************************************************)
EXTENDS RibAgreement, RibDesugar

MCAnswer(c, k) ==
  CASE c.function = "cart" -> Handle(c.instance, k + 1)
    [] c.function = "log"  -> Unit
    [] OTHER               -> Num(k + 1)

MCNewName(k) == "worker-" \o ToString(k)

\* A variable is a name and what tells it from others of that name.
Id(x, d) == <<x, d>>
n  == Id("n", 0)
xs == Id("xs", 0)
o  == Id("o", 0)
w  == Id("w", 0)

MCInputs ==
  {n :> Num(1) @@ xs :> List(<<Num(1), Num(2)>>) @@ o :> Some(Num(1)),
   n :> Num(2) @@ xs :> List(<<>>) @@ o :> None}

-----------------------------------------------------------------------------
(***************************************************************************)
(* Where an expression leaves its value and nothing under it on the stack  *)
(* (Clean), and where leaving more does no harm: the operand evaluated     *)
(* first, the statements of a block at the end of the program, the body of *)
(* a for.  The programs left out are the subject of the runs that disagree *)
(* with the guide.                                                         *)
(***************************************************************************)
RECURSIVE HasParts(_)
HasParts(p) ==
  \/ p.form = "record"
  \/ p.form = "constructor" /\ p.tag \in {"tuple", "list"}
  \/ \E q \in Seqs!ToSet(p.parts) : HasParts(q)

RECURSIVE HasCall(_)
HasCall(e) == e.form = "call" \/ \E a \in Seqs!ToSet(e.args) : HasCall(a)

TakesApart(e) == \E k \in DOMAIN e.tag[2] : HasParts(e.tag[2][k])

RECURSIVE Clean(_)
Clean(e) ==
  LET m == Len(e.args) IN
  CASE e.form \in {"for", "reduce", "select-range", "let"} -> FALSE
    [] e.form = "block" ->
         /\ Clean(e.args[m])
         /\ \A k \in 1..(m - 1) : e.args[k].form = "let" /\ Clean(e.args[k].args[1])
    [] OTHER ->
         /\ \A a \in Seqs!ToSet(e.args) : Clean(a)
         /\ e.form = "match" => ~ HasCall(e.args[1]) /\ ~ TakesApart(e)

RECURSIVE Safe(_)
Safe(e) ==
  LET m == Len(e.args)
      AllSafe(es)  == \A a \in Seqs!ToSet(es) : Safe(a)
      AllClean(es) == \A a \in Seqs!ToSet(es) : Clean(a)
  IN  CASE e.form \in {"block", "cond", "for"} -> AllSafe(e.args)
        [] e.form = "match" ->
             Clean(e.args[1]) /\ ~ HasCall(e.args[1]) /\ AllSafe(Tail(e.args))
        [] e.form = "select-range" -> AllClean(e.args) /\ ~ HasCall(e)
        [] e.form \in {"and", "or"} -> AllClean(e.args)
        [] e.form \in {"reduce", "range", "range-from"} -> AllSafe(SubSeq(e.args, 1, 1)) /\ AllClean(Tail(e.args))
        [] OTHER -> m = 0 \/ (AllSafe(SubSeq(e.args, m, m)) /\ AllClean(SubSeq(e.args, 1, m - 1)))

-----------------------------------------------------------------------------
(***************************************************************************)
(* Number expressions with e, a number expression, in them; d tells the    *)
(* variables they bind apart.                                              *)
(***************************************************************************)
C(k) == Lit(Num(k))
F == Call("f", Worker(w), <<>>)
Plus(a, b) == Math("+", a, b)

Atoms == {C(0), C(2), Var(n), F}

Operations(e) ==
  {Plus(e, F), Plus(F, e), Math("*", e, e), Math("-", e, C(1)), Math("/", C(2), e),
   Call("g", Worker(w), <<e, F>>),
   Index(ListOf(<<e, F>>), C(0)), Index(TupleOf(<<F, e>>), C(1)), Index(Var(xs), e),
   Select(RecordOf(<<"a", "b">>, <<e, F>>), "a")}

Choices(e) ==
  {If(Compare("<", e, C(2)), e, F),
   If(Equal(F, e), C(1), C(2)),
   If(And(Compare("<", C(0), e), Compare(">=", C(2), F)), C(1), C(2)),
   If(Or(Equal(e, C(1)), Equal(F, C(2))), e, C(2)),
   If(Not(Equal(e, C(2))), C(1), e)}

Statements(e, d) ==
  LET y == Id("y", d) IN
  {Block(<<Let(y, e), Plus(Var(y), Var(y))>>), Block(<<e, F>>), Block(<<F, e>>)}

Reductions(e, d) ==
  LET acc == Id("acc", d)
      x   == Id("x", d)
      sum == Plus(Var(acc), Var(x))
  IN  {Reduce(acc, x, ListOf(<<C(1), e>>), C(0), sum),
       Reduce(acc, x, For(Id("i", d), RangeOf(C(0), e, TRUE), F), e, sum),
       Reduce(acc, x, Var(xs), C(0), Plus(Var(acc), e))}

Payment == VariantType([card |-> <<NumType>>, wallet |-> <<>>])
Point   == RecordType([a |-> NumType, b |-> NumType])

Matches(e, d) ==
  LET y == Id("y", d)
      z == Id("z", d)
  IN  {Match(e, NumType, <<LitPat(C(1)), Bind(y)>>, <<F, Var(y)>>),
       Match(e, NumType, <<LitPat(C(2)), LitPat(C(0))>>, <<F, e>>),
       Match(Var(o), OptionType(NumType), <<CasePat("none", <<>>), CasePat("some", <<Bind(y)>>)>>,
             <<e, Var(y)>>),
       Match(If(Equal(e, C(2)), OkOf(e), ErrOf(C(1))), ResultType(NumType, NumType),
             <<CasePat("ok", <<AnyPat>>), CasePat("err", <<Bind(y)>>)>>, <<F, Var(y)>>),
       Match(VariantOf("card", <<SomeOf(e)>>), VariantType([card |-> <<OptionType(NumType)>>, wallet |-> <<>>]),
             <<CasePat("card", <<CasePat("none", <<>>)>>), CasePat("card", <<CasePat("some", <<Bind(y)>>)>>),
               LitPat(VariantOf("wallet", <<>>))>>, <<F, Var(y), F>>),
       Match(VariantOf("wallet", <<>>), Payment,
             <<CasePat("card", <<AnyPat>>), LitPat(VariantOf("wallet", <<>>))>>, <<F, e>>),
       Match(Lit(Enum("placed")), EnumType, <<EnumPat("draft"), EnumPat("placed")>>, <<F, e>>),
       Match(RecordOf(<<"a", "b">>, <<e, C(2)>>), Point,
             <<RecordPat(<<"a", "b">>, <<LitPat(C(2)), Bind(y)>>), As(z, RecordPat(<<"a">>, <<Bind(y)>>))>>,
             <<Var(y), Plus(Var(y), Select(Var(z), "b"))>>),
       Match(TupleOf(<<Var(o), e>>), TupleType(<<OptionType(NumType), NumType>>),
             <<CasePat("tuple", <<CasePat("some", <<Bind(y)>>), Bind(z)>>), AnyPat>>,
             <<Plus(Var(y), Var(z)), F>>),
       Match(ListOf(<<e, C(2)>>), ListType(NumType),
             <<CasePat("list", <<LitPat(C(0)), Bind(y)>>), CasePat("list", <<Bind(y), AnyPat>>)>>,
             <<F, Var(y)>>)}

Forms(e, d) ==
  Operations(e) \cup Choices(e) \cup Statements(e, d) \cup Reductions(e, d) \cup Matches(e, d)

\* Programs whose value is no number.
Whole(e, d) ==
  LET i == Id("i", d) IN
  {For(i, RangeOf(C(0), e, FALSE), Plus(Var(i), F)), For(i, Var(xs), e),
   For(i, ListOf(<<e, e>>), For(Id("j", d), Var(xs), Plus(Var(i), Var(Id("j", d))))),
   Slice(Var(xs), RangeOf(C(0), e, FALSE)), Slice(Var(xs), RangeFrom(e)),
   Let(i, e), SomeOf(e), ErrOf(e), VariantOf("card", <<e>>),
   Match(Var(xs), ListType(NumType), <<CasePat("list", <<>>)>>, <<e>>)}

Once  == UNION {Forms(e, 1) \cup Whole(e, 1) : e \in Atoms}
Twice == UNION {Forms(e, 2) \cup Whole(e, 2) : e \in UNION {Forms(a, 1) : a \in {C(2), F}}}

(***************************************************************************)
(* Calls are of functions of w; the instance it holds is called "a".       *)
(***************************************************************************)
Text(s) == Lit(Str(s))

WithInstance(e) == IF HasCall(e) THEN Block(<<Let(w, Instance(Text("a"))), e>>) ELSE e

\* Programs with more than one instance, with resources and with text.
Instances(e) ==
  LET v == Id("v", 0)
      c == Id("c", 0)
      d == Id("d", 0)
      i == Id("i", 0)
      New(x, es)  == Call("cart", Worker(x), es)
      Adding(x, es) == Call("add", Resource(x), es)
      G(x, es)    == Call("g", Worker(x), es)
      Anonymous   == Instance(GeneratedName)
  IN  {Block(<<Let(v, Instance(Text("b"))), G(v, <<e, G(w, <<e>>)>>)>>),
       Block(<<Let(v, Instance(Text("a"))), Plus(G(v, <<e>>), F)>>),
       Block(<<Let(v, Anonymous), Let(w, Anonymous), G(w, <<G(v, <<e>>), e>>)>>),
       Block(<<Let(v, If(Equal(e, C(2)), Anonymous, Instance(Text("b")))), G(v, <<e>>)>>),
       For(i, RangeOf(C(0), e, FALSE), Block(<<Let(v, Anonymous), G(v, <<Var(i)>>)>>)),
       Block(<<Let(v, Instance(Concat(<<Text("b"), e, Lit(Boolean(TRUE))>>))), G(v, <<>>)>>),
       Block(<<Let(c, New(w, <<e>>)), Adding(c, <<F, e>>)>>),
       Block(<<Let(v, Instance(Text("b"))), Let(c, New(w, <<>>)), Let(d, New(v, <<e>>)),
               Let(w, Var(v)), Plus(Adding(c, <<e>>), Adding(d, <<C(1)>>))>>),
       For(i, Var(xs), Block(<<Let(c, New(w, <<Var(i)>>)), Adding(c, <<e>>)>>)),
       Block(<<Let(c, If(Equal(e, C(2)), New(w, <<C(1)>>), New(w, <<C(2)>>))), Adding(c, <<>>)>>),
       Block(<<Call("log", Worker(w), <<e>>), F>>), Block(<<F, Call("log", Worker(w), <<e>>)>>),
       Call("g", Static, <<e, F>>), Call("g", Unnamed, <<e>>)}

Texts(e) ==
  LET Access(some) == FlagsOf(<<"read", "write">>, some)
  IN  {Concat(<<Text("x"), e, F, Text("y")>>), ListOf(<<EnumOf("draft"), EnumOf("placed")>>),
       Access({"write"}),
       If(Equal(Access({"write"}), Access({"write"})), F, e),
       If(Equal(Access({"read"}), Access({"write"})), F, e)}

MCAll ==
  {WithInstance(e) : e \in {p \in Once \cup Twice \cup UNION {Instances(a) \cup Texts(a) : a \in Atoms} : Safe(p)}}

-----------------------------------------------------------------------------
(***************************************************************************)
(* All the expressions that compiling the programs comes upon, and those   *)
(* that leave a value.                                                     *)
(***************************************************************************)
Parts(e) ==
  {e.args[k] : k \in DOMAIN e.args} \cup (IF e.form \in StandingForms THEN {Standing(e)} \ {NoExpr} ELSE {})

RECURSIVE MetAt(_)
MetAt(d) == IF d = 0 THEN Programs ELSE UNION {Parts(e) : e \in MetAt(d - 1)}

\* All of them: ExprsAssumption would fail if there were more.
MCExprs == UNION {MetAt(d) : d \in 0..7}

RECURSIVE Leaves(_)
Leaves(e) == e.form # "let" /\ \A a \in LeftBy(e) : Leaves(a)

MCYielding == {e \in MCExprs : Leaves(e)}

-----------------------------------------------------------------------------
(***************************************************************************)
(* Programs whose value is not the one the guide gives them.               *)
(***************************************************************************)
y  == Id("y", 0)
is == <<C(1), C(2)>>

Sum(acc, x, init, e) ==
  Reduce(Id(acc, 0), Id(x, 0), ListOf(is), init, Plus(Var(Id(acc, 0)), e))

\* reduce a, x in [1, 2] from 0 { yield a + (the sum of [1, 2]); }
MCNestedReduce ==
  {Reduce(Id("a", 0), Id("x", 0), ListOf(is), C(0),
          Block(<<Let(y, Sum("b", "z", C(0), Var(Id("z", 0)))), Plus(Var(Id("a", 0)), Var(y))>>))}

\* [{ 1; 2 }, 0]
MCDiscarded == {ListOf(<<Block(is), C(0)>>)}

\* [match { a: 1, b: 2 } { { a: y, b: _ } => y }, 0]
MCRecordElement ==
  {ListOf(<<Match(RecordOf(<<"a", "b">>, is), Point,
                  <<RecordPat(<<"a", "b">>, <<Bind(y), AnyPat>>)>>, <<Var(y)>>),
            C(0)>>)}

\* match xs { [only] => only, _ => 0 }
MCListLength ==
  {Match(Var(xs), ListType(NumType), <<CasePat("list", <<Bind(y)>>), AnyPat>>, <<Var(y), C(0)>>)}

\* match err(1) { ok(1) => 0, ok(_) => 1, err(_) => 2 }
MCLiteralInside ==
  {Match(ErrOf(C(1)), ResultType(NumType, NumType),
         <<CasePat("ok", <<LitPat(C(1))>>), CasePat("ok", <<AnyPat>>), CasePat("err", <<AnyPat>>)>>,
         <<C(0), C(1), C(2)>>)}

\* match f() { 2 => 0, y => y }
MCCalledAgain ==
  {WithInstance(Match(F, NumType, <<LitPat(C(2)), Bind(y)>>, <<C(0), Var(y)>>))}

===============================================================================
