------------------------------- MODULE MCPrompt -------------------------------
(***************************************************************************)
(* The prompt for TLC: lines that make workers and resources, hide one by  *)
(* the other under one name, call functions rightly and wrongly, and a     *)
(* host that answers with values of the declared types and of others.      *)
(***************************************************************************)
EXTENDS ReplPrompt, MCFront

MCNoInputs == <<>>

Made(x, kind) == Let(x, IF kind = "worker" THEN Call("instance", <<>>) ELSE On("cart", <<Str>>))

MCLines ==
  {Made("w", "worker"), Made("c", "resource"), Made("w", "resource"), Made("c", "worker"),
   Let("a", On("f", <<Num>>)), On("f", <<Str>>), On("pay", <<Id("cash")>>), On("size", <<>>),
   Invoke(Id("c"), "size", <<>>), Invoke(Id("c"), "f", <<Num>>), On("give", <<Id("a")>>)}

\* What the host says: by names, and not always names of the type.
Payload8 == <<Scalar("u8")>>
MCHostValues ==
  {Scalar("u64"), Scalar("str"), Val("enum", <<"red">>, <<>>), Val("enum", <<"blue">>, <<>>),
   Val("variant", <<"card">>, <<Scalar("str")>>), Val("variant", <<"card">>, <<>>), Scalar("resource"),
   Val("result", <<"ok">>, Payload8), Val("result", <<"ok">>, <<>>), Val("result", <<"err">>, Payload8),
   Val("record", <<"c", "p">>, <<Scalar("resource"), Scalar("u8")>>),
   Val("record", <<"p", "c">>, <<Scalar("resource"), Scalar("u8")>>)}

MCPromptExports ==
  MCExports \o <<Entry(Key("function", "", "", "mark"), <<FlagsT(<<Bare("a"), Bare("b")>>), TupleT(<<Bool, Text>>)>>, <<Pay>>),
                 Entry(Key("function", "", "", "give"), <<Cart>>, <<>>)>>

MCFunctions == dict

\* The conversions themselves: the bodies ask these again for what is within.
MCGenerated(t) == LET v == GenerateValue(t) IN v
MCToHost(v, t) == LET w == ValueToRibVal(v, t) IN w
MCFromHost(w, t) == LET v == RibValToValue(w, t) IN v
MCIsOf(v, t) == LET b == IsOfType(v, t) IN b

-----------------------------------------------------------------------------
(***************************************************************************)
(* The types of the signatures and those within them, and how deep they    *)
(* are; of each, the values of lists of none or three.                     *)
(***************************************************************************)
RECURSIVE WithinType(_)
WithinType(t) == {t} \cup UNION {WithinType(p.t[1]) : p \in {q \in Seqs!ToSet(t.parts) : q.t # <<>>}}

MCTypes ==
  UNION {WithinType(t) : t \in UNION {Seqs!ToSet(e.params) \cup Seqs!ToSet(e.result) : e \in Seqs!ToSet(MCFunctions)}}

RECURSIVE MCSize(_)
MCSize(t) == 1 + Seqs!FoldLeft(LAMBDA n, p : IF p.t = <<>> THEN n ELSE n + MCSize(p.t[1]), 0, t.parts)

\* The sequences whose elements are of sets, one after the other.
RECURSIVE OneOfEach3(_)
OneOfEach3(sets) ==
  IF sets = <<>> THEN {<<>>}
  ELSE {<<x>> \o q : x \in Head(sets), q \in OneOfEach3(Tail(sets))}

RECURSIVE ValuesOf(_)
ValuesOf(t) ==
  LET of(ts) == OneOfEach3([j \in DOMAIN ts |-> ValuesOf(ts[j])])
  IN  CASE t.k = "variant" -> UNION {{Val("variant", <<j>>, q) : q \in of(t.parts[j].t)} : j \in DOMAIN t.parts}
        [] t.k = "result"  ->
             UNION {{Val("result", <<s[1]>>, q) : q \in {<<>>} \cup of(t.parts[s[2]].t)} : s \in {<<"ok", 1>>, <<"err", 2>>}}
        [] t.k = "enum"    -> {Val("enum", <<j>>, <<>>) : j \in DOMAIN t.parts}
        [] t.k = "flags"   -> {Val("flags", on, <<>>) : on \in [DOMAIN t.parts -> BOOLEAN]}
        [] t.k = "list"    -> {Val("list", <<>>, q) : q \in {<<>>} \cup of(TypesWithin(t, 3))}
        [] t.k = "option"  -> {Val("option", <<>>, q) : q \in {<<>>} \cup of(TypesOf(t))}
        [] t.k \in {"record", "tuple"} -> {Val(t.k, <<>>, q) : q \in of(TypesOf(t))}
        [] OTHER -> {Scalar(t.k)}

RECURSIVE WithinValue(_)
WithinValue(w) == {w} \cup UNION {WithinValue(w.vs[j]) : j \in DOMAIN w.vs}

MCOutside ==
  UNION {WithinValue(w) : w \in
    MCHostValues \cup UNION {{ToHost(v, t)[1] : v \in {u \in ValuesOf(t) : ToHost(u, t) # <<>>}} : t \in MCTypes}}

MCInside(t) == ValuesOf(t) \cup {FromHost(w, t)[1] : w \in {u \in MCOutside : FromHost(u, t) # <<>>}}

===============================================================================
