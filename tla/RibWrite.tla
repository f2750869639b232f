------------------------------- MODULE RibWrite -------------------------------
(***************************************************************************)
(* The printer: an expression as the tokens its text is made of.  Nothing  *)
(* is put around an operand or a nested block, and only some forms print   *)
(* their annotation.                                                       *)
(***************************************************************************)
EXTENDS RibRead

Listed(ws, sep) ==
  IF ws = <<>> THEN <<>>
  ELSE ws[1] \o Seqs!FlattenSeq([k \in 1..Len(ws) - 1 |-> <<sep>> \o ws[k + 1]])

\* Display of TypeName, for the types the parser reads.
RECURSIVE WrittenType(_)
WrittenType(type) ==
  LET ts == [k \in DOMAIN type.parts |->
               IF type.parts[k].t = <<>> THEN <<"_">> ELSE WrittenType(type.parts[k].t[1])]
      Angled(ws) == <<type.k, "<">> \o Listed(ws, ",") \o <<">">>
  IN  CASE type.k = "str" -> <<"string">>
        [] type.k \in {"list", "option", "tuple"} -> Angled(ts)
        [] type.k = "result" ->
             IF ts[2] # <<"_">> THEN Angled(ts) ELSE IF ts[1] # <<"_">> THEN Angled(<<ts[1]>>) ELSE <<"result">>
        [] OTHER -> <<type.k>>

Noted == {"identifier", "let", "select-field", "select-index", "list", "number", "option"}
WrittenNote(e) == IF e.note = <<>> \/ e.form \notin Noted THEN <<>> ELSE <<":">> \o WrittenType(e.note[1])

OperatorOf(form) == CASE form = "and" -> "&&" [] form = "or" -> "||" [] OTHER -> form

RECURSIVE Written(_), WrittenPattern(_)

WrittenEach(es) == [k \in DOMAIN es |-> Written(es[k])]
Keyed(names, ws) == [k \in DOMAIN names |-> <<names[k], ":">> \o ws[k]]
Applied(name, es) == <<name, "(">> \o Listed(WrittenEach(es), ",") \o <<")">>

\* write_yield_block: nothing between its lines.
YieldBlock(body) ==
  LET lines == WrittenEach(body.args)
  IN  Seqs!FlattenSeq(SubSeq(lines, 1, Len(lines) - 1)) \o <<"yield">> \o lines[Len(lines)]

\* write_concatenated_exprs: a literal stands for itself.
WrittenPart(e) ==
  IF e.form = "literal" THEN e.tag
  ELSE <<"${">> \o Written(e) \o <<"}">>

WrittenLeaf(e) ==
  CASE e.form = "number"     -> IF e.tag = "fraction" THEN <<Digit, ".", Digit>> ELSE <<Digit>>
    [] e.form = "boolean"    -> <<IF e.tag THEN "true" ELSE "false">>
    [] e.form = "identifier" -> <<e.tag.name>>
    [] e.form = "literal"    -> <<"quote">> \o e.tag \o <<"quote">>
    [] e.form = "flags"      -> <<"{">> \o Listed([k \in DOMAIN e.tag |-> <<e.tag[k]>>], ",") \o <<"}">>

RangeWrittenAlike(e) ==
  IF e.tag = "from" THEN <<"..">> \o Written(e.args[1]) ELSE Written(e.args[1]) \o <<"..">> \o Written(e.args[2])

WrittenRange(e) ==
  CASE e.tag = "from"    -> <<"..">> \o Written(e.args[1])
    [] e.tag = "to"      -> Written(e.args[1]) \o <<"..">> \o Written(e.args[2])
    [] e.tag = "through" -> Written(e.args[1]) \o <<"..=">> \o Written(e.args[2])

WrittenComposite(e) ==
  CASE e.form = "list"   -> <<"[">> \o Listed(WrittenEach(e.args), ",") \o <<"]">>
    [] e.form = "tuple"  -> <<"(">> \o Listed(WrittenEach(e.args), ",") \o <<")">>
    [] e.form = "record" -> <<"{">> \o Listed(Keyed(e.tag, WrittenEach(e.args)), ",") \o <<"}">>
    [] e.form = "option" -> IF e.args = <<>> THEN <<"none">> ELSE Applied("some", e.args)
    [] e.form \in {"ok", "err"} -> Applied(e.form, e.args)
    [] e.form = "range"  -> WrittenRange(e)

WrittenArms(e) ==
  Listed([k \in DOMAIN e.pats |-> WrittenPattern(e.pats[k]) \o <<"=>">> \o Written(e.args[k + 1])], ",")

WrittenControl(e) ==
  CASE e.form = "let"    -> <<"let", e.tag.name>> \o WrittenNote(e) \o <<"=">> \o Written(e.args[1])
    [] e.form = "block"  -> Listed(WrittenEach(e.args), ";")
    [] e.form = "cond"   -> <<"if">> \o Written(e.args[1]) \o <<"then">> \o Written(e.args[2])
                              \o <<"else">> \o Written(e.args[3])
    [] e.form = "match"  -> <<"match">> \o Written(e.args[1]) \o <<"{">> \o WrittenArms(e) \o <<"}">>
    [] e.form = "for"    -> <<"for", e.tag.name, "in">> \o Written(e.args[1]) \o <<"{">>
                              \o YieldBlock(e.args[2]) \o <<";", "}">>
    [] e.form = "reduce" -> <<"reduce", e.tag[1].name, ",", e.tag[2].name, "in">> \o Written(e.args[1])
                              \o <<"from">> \o Written(e.args[2]) \o <<"{">> \o YieldBlock(e.args[3]) \o <<"}">>
    [] e.form = "call"   -> Applied(e.tag.key.name, e.args)
    [] e.form = "invoke" -> Written(e.args[1]) \o <<".">> \o Applied(e.tag, Tail(e.args))

WrittenOther(e) ==
  CASE e.form = "select-field" -> Written(e.args[1]) \o <<".", e.tag>>
    [] e.form = "select-index" -> Written(e.args[1]) \o <<"[">> \o Written(e.args[2]) \o <<"]">>
    [] e.form = "not"          -> <<"!">> \o Written(e.args[1])
    [] e.form = "concat"       -> <<"quote">> \o Seqs!FlattenSeq([k \in DOMAIN e.args |-> WrittenPart(e.args[k])])
                                    \o <<"quote">>
    [] OTHER -> Written(e.args[1]) \o <<OperatorOf(e.form)>> \o Written(e.args[2])

Written(e) ==
  CASE e.form \in Leaves     -> WrittenLeaf(e) \o WrittenNote(e)
    [] e.form \in Composites -> WrittenComposite(e) \o WrittenNote(e)
    [] e.form \in Controls   -> WrittenControl(e)
    [] OTHER                 -> WrittenOther(e) \o WrittenNote(e)

\* An identifier in a pattern is printed without its annotation.
WrittenPattern(p) ==
  LET ws == [k \in DOMAIN p.parts |-> WrittenPattern(p.parts[k])]
  IN  CASE p.form = "any"     -> <<"_">>
        [] p.form = "as"      -> <<p.tag, "@">> \o ws[1]
        [] p.form = "tuple"   -> <<"(">> \o Listed(ws, ",") \o <<")">>
        [] p.form = "list"    -> <<"[">> \o Listed(ws, ",") \o <<"]">>
        [] p.form = "record"  -> <<"{">> \o Listed(Keyed(p.tag, ws), ",") \o <<"}">>
        [] p.form = "literal" -> IF p.lit[1].form = "identifier" THEN <<p.lit[1].tag.name>> ELSE Written(p.lit[1])
        [] p.form = "constructor" -> IF ws = <<>> THEN <<p.tag>> ELSE <<p.tag, "(">> \o Listed(ws, ",") \o <<")">>
===============================================================================
