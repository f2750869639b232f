------------------------------ MODULE RibRead ------------------------------
(***************************************************************************)
(* The parser.  A text is a sequence of tokens: words, numbers, signs.     *)
(* Characters matter only where a word begins with another one: "~x" is a  *)
(* token that continues the word before it, no space between.              *)
(*                                                                         *)
(* A parser applied to text t at position i ends in one of three ways.     *)
(* Parsers are alternatives of each other in a fixed order, and only a     *)
(* soft failure lets the next one try.                                     *)
(***************************************************************************)
EXTENDS RibArena

CONSTANT Suffix   \* of each "~x" token, the word it is alone

Digit == "1"    \* any sequence of digits

Ok(v, at) == [st |-> "ok", v |-> v, at |-> at]
Soft == [st |-> "soft"]   \* failed at i
Hard == [st |-> "hard"]   \* failed after it had taken a token

Try(r) == IF r.st = "hard" THEN Soft ELSE r
Else(r, s) == IF r.st = "soft" THEN s ELSE r
Maybe(r, v, i) == IF r.st = "soft" THEN Ok(v, i) ELSE r

\* r, begun at i, and what follows it.
Then(i, r, F(_, _)) ==
  IF r.st # "ok" THEN r
  ELSE LET s == F(r.v, r.at) IN IF s.st = "soft" /\ r.at > i THEN Hard ELSE s

-----------------------------------------------------------------------------
(***************************************************************************)
(* Words.                                                                  *)
(***************************************************************************)
BasicTypes == {"u8", "s8", "bool", "string"}
TypeWords  == BasicTypes \cup {"list", "option", "tuple", "result"}
Reserved   == {"if", "then", "else", "match", "ok", "some", "err", "none", "let", "for", "yield", "reduce"}

Operators == {">=", "<=", "==", "<", ">", "&&", "||", "+", "-", "*", "/"}
Signs     == Operators \cup {"!", ".", "..", "..=", ",", ";", ":", "=", "=>", "@", "_", "(", ")", "[", "]",
                             "{", "}", "${", "\\${", "quote", "end"}

At(t, i)   == IF i \in DOMAIN t THEN t[i] ELSE "end"
Tok(t, i, w) == IF At(t, i) = w THEN Ok(w, i + 1) ELSE Soft

\* A word that no letter or digit follows.
Keyword(t, i, w) == IF At(t, i) = w /\ At(t, i + 1) \notin DOMAIN Suffix THEN Ok(w, i + 1) ELSE Soft

RECURSIVE WordFrom(_, _, _)
WordFrom(t, i, w) ==
  IF At(t, i) \in DOMAIN Suffix THEN WordFrom(t, i + 1, w \o Suffix[t[i]]) ELSE Ok(w, i)

Alone(w) == IF w \in DOMAIN Suffix THEN Suffix[w] ELSE w

\* Letters and digits, and what begins with a letter.
CharsAt(t, i) == IF At(t, i) \in Signs THEN Soft ELSE WordFrom(t, i + 1, Alone(t[i]))
WordAt(t, i)  == IF At(t, i) = Digit THEN Soft ELSE CharsAt(t, i)

NameAt(t, i) ==
  LET r == WordAt(t, i) IN IF r.st = "ok" /\ r.v \in Reserved THEN Hard ELSE r

\* boolean_literal: whatever follows the word.
BooleanAt(t, i) ==
  Else(Then(i, Tok(t, i, "true"), LAMBDA w, a : Ok(Term("boolean", TRUE, <<>>), a)),
       Then(i, Tok(t, i, "false"), LAMBDA w, a : Ok(Term("boolean", FALSE, <<>>), a)))

NumberAt(t, i) == IF At(t, i) = Digit THEN Ok(Term("number", "int", <<>>), i + 1) ELSE Soft

-----------------------------------------------------------------------------
\* What the parsers call each other by: one of the kinds of Item, below.
RECURSIVE Item(_, _, _), MoreItems(_, _, _, _, _)

ExprAt(t, i)    == Item(t, i, "expr")
TypeAt(t, i)    == Item(t, i, "type")
PatternAt(t, i) == Item(t, i, "pattern")

(***************************************************************************)
(* sep_by: items, any number of them, and a separator between two; in a    *)
(* match and in the body of a loop also after the last.                    *)
(***************************************************************************)
EndableLines == {"line"}
Endable == {"arm", "line"}

Items(t, i, sep, what) ==
  LET r == Item(t, i, what)
  IN  IF r.st = "ok" THEN MoreItems(t, r.at, sep, what, <<r.v>>) ELSE Maybe(r, <<>>, i)

MoreItems(t, i, sep, what, got) ==
  IF At(t, i) # sep THEN Ok(got, i)
  ELSE LET r == Item(t, i + 1, what)
       IN  CASE r.st = "ok" -> MoreItems(t, r.at, sep, what, Append(got, r.v))
             [] r.st = "soft" /\ what \in Endable -> Ok(got, i + 1)
             [] OTHER -> Hard

\* sep_by1.
NotNone(r) == IF r.st = "ok" /\ r.v = <<>> THEN Soft ELSE r

\* What stands between two signs, as what F makes of it.
Between(t, i, open, sep, what, close) ==
  Then(i, Tok(t, i, open), LAMBDA w, a :
    Then(i, Items(t, a, sep, what), LAMBDA es, b :
      Then(i, Tok(t, b, close), LAMBDA x, c : Ok(es, c))))

-----------------------------------------------------------------------------
(***************************************************************************)
(* Types and annotations.  The colon of an annotation may be left out.     *)
(***************************************************************************)
BasicType(t, i) ==
  IF At(t, i) \in BasicTypes
  THEN Ok(CASE t[i] = "string" -> Text [] t[i] = "bool" -> Bool [] OTHER -> Number(t[i]), i + 1)
  ELSE Soft

Inside(t, i, word) ==
  Then(i, Tok(t, i, word), LAMBDA w, a :
    Then(i, Tok(t, a, "<"), LAMBDA x, b :
      Then(i, TypeAt(t, b), LAMBDA type, c :
        Then(i, Tok(t, c, ">"), LAMBDA y, d : Ok(type, d)))))

ListType(t, i)   == Then(i, Inside(t, i, "list"), LAMBDA type, a : Ok(ListT(type), a))
OptionType(t, i) == Then(i, Inside(t, i, "option"), LAMBDA type, a : Ok(OptionT(type), a))

TupleType(t, i) ==
  Then(i, Tok(t, i, "tuple"), LAMBDA w, a :
    Then(i, Between(t, a, "<", ",", "type", ">"), LAMBDA types, b : Ok(TupleT(types), b)))

ResultParts(t, i) ==
  Then(i, Tok(t, i, "<"), LAMBDA w, a :
    Then(i, Else(Then(a, Tok(t, a, "_"), LAMBDA x, b : Ok(<<>>, b)),
                 Then(a, TypeAt(t, a), LAMBDA type, b : Ok(<<type>>, b))), LAMBDA ok, c :
      Then(i, Maybe(Then(c, Tok(t, c, ","), LAMBDA x, d :
                      Then(c, TypeAt(t, d), LAMBDA type, e : Ok(<<type>>, e))), <<>>, c), LAMBDA err, f :
        Then(i, Tok(t, f, ">"), LAMBDA x, g : Ok(<<ok, err>>, g)))))

ResultType(t, i) ==
  Then(i, Tok(t, i, "result"), LAMBDA w, a :
    Then(i, Maybe(ResultParts(t, a), <<<<>>, <<>>>>, a), LAMBDA p, b : Ok(ResultT(p[1], p[2]), b)))

TypeName(t, i) ==
  Else(BasicType(t, i), Else(Try(ListType(t, i)), Else(Try(TupleType(t, i)),
    Else(Try(OptionType(t, i)), Try(ResultType(t, i))))))

NoteAt(t, i) == Then(i, Maybe(Tok(t, i, ":"), ":", i), LAMBDA w, a : TypeAt(t, a))

\* e with the annotation that may follow it.
MaybeNoted(t, i, e) ==
  Maybe(Then(i, NoteAt(t, i), LAMBDA type, a : Ok(Annotated(e, type), a)), e, i)

-----------------------------------------------------------------------------
(***************************************************************************)
(* Patterns.  The name of a case may be a number, and "none" is read       *)
(* whatever follows it.                                                    *)
(***************************************************************************)
NonePattern(t, i) == Then(i, Tok(t, i, "none"), LAMBDA w, a : Ok(Pattern("constructor", "none", <<>>), a))

CasePattern(t, i) ==
  Then(i, CharsAt(t, i), LAMBDA name, a :
    Then(i, Between(t, a, "(", ",", "pattern", ")"), LAMBDA ps, b :
      Ok(Pattern("constructor", name, ps), b)))

ListedPattern(t, i, open, form, close) ==
  Then(i, Between(t, i, open, ",", "pattern", close), LAMBDA ps, a : Ok(Pattern(form, "", ps), a))

RecordPattern(t, i) ==
  Then(i, Tok(t, i, "{"), LAMBDA w, a :
    Then(i, NotNone(Items(t, a, ",", "key-pattern")), LAMBDA kps, b :
      Then(i, Tok(t, b, "}"), LAMBDA x, c :
        Ok(Pattern("record", [k \in DOMAIN kps |-> kps[k].name], [k \in DOMAIN kps |-> kps[k].of]), c))))

Composed(t, i) ==
  Else(Try(NonePattern(t, i)), Else(Try(CasePattern(t, i)),
    Else(Try(ListedPattern(t, i, "(", "tuple", ")")),
      Else(Try(ListedPattern(t, i, "[", "list", "]")), Try(RecordPattern(t, i))))))

Alias(t, i) ==
  Then(i, CharsAt(t, i), LAMBDA name, a :
    Then(i, Tok(t, a, "@"), LAMBDA w, b :
      Then(i, PatternAt(t, b), LAMBDA p, c : Ok(Pattern("as", name, <<p>>), c))))

ArmPattern(t, i) ==
  Else(Composed(t, i), Else(Then(i, Tok(t, i, "_"), LAMBDA w, a : Ok(Wildcard, a)),
    Else(Try(Alias(t, i)), Try(Then(i, ExprAt(t, i), LAMBDA e, a : Ok(LiteralPattern(e), a))))))

-----------------------------------------------------------------------------
(***************************************************************************)
(* Simple expressions: those that do not begin with an expression.         *)
(***************************************************************************)
\* The end of a loop: lines, and what the loop yields.
BodyAt(t, i) ==
  Then(i, Tok(t, i, "{"), LAMBDA w, a :
    Then(i, Items(t, a, ";", "line"), LAMBDA es, b :
      Then(i, Tok(t, b, "yield"), LAMBDA x, c :
        Then(i, ExprAt(t, c), LAMBDA e, d :
          Then(i, Tok(t, d, ";"), LAMBDA y, f :
            Then(i, Tok(t, f, "}"), LAMBDA z, g : Ok(Term("block", "", Append(es, e)), g)))))))

ForAt(t, i) ==
  Then(i, Keyword(t, i, "for"), LAMBDA w, a :
    Then(i, NameAt(t, a), LAMBDA name, b :
      Then(i, Tok(t, b, "in"), LAMBDA x, c :
        Then(i, ExprAt(t, c), LAMBDA over, d :
          Then(i, BodyAt(t, d), LAMBDA body, e : Ok(Term("for", ItemVar(name), <<over, body>>), e))))))

ReduceAt(t, i) ==
  Then(i, Keyword(t, i, "reduce"), LAMBDA w, a :
    Then(i, NameAt(t, a), LAMBDA acc, b :
      Then(i, Tok(t, b, ","), LAMBDA x, c :
        Then(i, NameAt(t, c), LAMBDA name, d :
          Then(i, Tok(t, d, "in"), LAMBDA y, e :
            Then(i, ExprAt(t, e), LAMBDA over, f :
              Then(i, Tok(t, f, "from"), LAMBDA z, g :
                Then(i, ExprAt(t, g), LAMBDA init, h :
                  Then(i, BodyAt(t, h), LAMBDA body, j :
                    Ok(Term("reduce", <<AccVar(acc), ItemVar(name)>>, <<over, init, body>>), j))))))))))

MatchAt(t, i) ==
  Then(i, Keyword(t, i, "match"), LAMBDA w, a :
    Then(i, ExprAt(t, a), LAMBDA e, b :
      Then(i, Tok(t, b, "{"), LAMBDA x, c :
        Then(i, NotNone(Items(t, c, ",", "arm")), LAMBDA arms, d :
          Then(i, Tok(t, d, "}"), LAMBDA y, f :
            Ok([Term("match", "", <<e>> \o [k \in DOMAIN arms |-> arms[k].of]) EXCEPT
                  !.pats = [k \in DOMAIN arms |-> arms[k].name]], f))))))

LetAt(t, i) ==
  Then(i, Keyword(t, i, "let"), LAMBDA w, a :
    Then(i, NameAt(t, a), LAMBDA name, b :
      Then(i, Maybe(Then(b, Tok(t, b, ":"), LAMBDA x, c : Then(b, TypeAt(t, c), LAMBDA type, d : Ok(<<type>>, d))),
                    <<>>, b), LAMBDA note, e :
        Then(i, Tok(t, e, "="), LAMBDA x, f :
          Then(i, ExprAt(t, f), LAMBDA v, g :
            Ok([Term("let", Global(name), <<v>>) EXCEPT !.note = note], g))))))

CondAt(t, i) ==
  Then(i, Keyword(t, i, "if"), LAMBDA w, a :
    Then(i, ExprAt(t, a), LAMBDA c, b :
      Then(i, Tok(t, b, "then"), LAMBDA x, d :
        Then(i, ExprAt(t, d), LAMBDA yes, e :
          Then(i, Tok(t, e, "else"), LAMBDA y, f :
            Then(i, ExprAt(t, f), LAMBDA no, g : Ok(Term("cond", "", <<c, yes, no>>), g)))))))

\* multi_line_block: at least two lines.
BlockAt(t, i) ==
  Then(i, Between(t, i, "{", ";", "expr", "}"), LAMBDA es, a :
    IF Len(es) >= 2 THEN Ok(Term("block", "", es), a) ELSE Soft)

FlagsAt(t, i) ==
  Then(i, Between(t, i, "{", ",", "flag", "}"), LAMBDA names, a : Ok(Term("flags", names, <<>>), a))

RecordAt(t, i) ==
  Then(i, Tok(t, i, "{"), LAMBDA w, a :
    Then(i, NotNone(Items(t, a, ",", "field")), LAMBDA fs, b :
      Then(i, Tok(t, b, "}"), LAMBDA x, c :
        IF \A j, k \in DOMAIN fs : fs[j].name = fs[k].name => j = k
        THEN Ok(Term("record", [k \in DOMAIN fs |-> fs[k].name], [k \in DOMAIN fs |-> fs[k].of]), c)
        ELSE Soft)))

TupleAt(t, i) == Then(i, Between(t, i, "(", ",", "expr", ")"), LAMBDA es, a : Ok(Term("tuple", "", es), a))
ListAt(t, i)  == Then(i, Between(t, i, "[", ",", "expr", "]"), LAMBDA es, a : Ok(Term("list", "", es), a))

NotAt(t, i) ==
  Then(i, Tok(t, i, "!"), LAMBDA w, a : Then(i, ExprAt(t, a), LAMBDA e, b : Ok(Term("not", "", <<e>>), b)))

Wrapped(t, i, word, form) ==
  Then(i, Try(Then(i, Tok(t, i, word), LAMBDA w, a : Tok(t, a, "("))), LAMBDA w, a :
    Then(i, ExprAt(t, a), LAMBDA e, b :
      Then(i, Tok(t, b, ")"), LAMBDA x, c : Ok(Term(form, "", <<e>>), c))))

OptionAt(t, i) ==
  Else(Wrapped(t, i, "some", "option"),
       Then(i, Keyword(t, i, "none"), LAMBDA w, a : Ok(Term("option", "", <<>>), a)))

ResultAt(t, i) == Else(Wrapped(t, i, "ok", "ok"), Wrapped(t, i, "err", "err"))

\* A function may be called like a keyword, or a number.
CallAt(t, i) ==
  Then(i, CharsAt(t, i), LAMBDA name, a :
    Then(i, Between(t, a, "(", ",", "expr", ")"), LAMBDA es, b : Ok(Term("call", Function(name), es), b)))

IdentifierAt(t, i) == Then(i, NameAt(t, i), LAMBDA name, a : Ok(Identifier(Global(name)), a))

-----------------------------------------------------------------------------
(***************************************************************************)
(* Texts in quotes: static parts, where "\${" is escaped, and parts        *)
(* between "${" and "}", each a program.                                   *)
(***************************************************************************)
Special == {"quote", "${", "{", "}", "end"}
Plainly(w) == IF w = "\\${" THEN "${" ELSE w

RECURSIVE StaticFrom(_, _, _), PartsFrom(_, _, _)
StaticFrom(t, i, got) ==
  IF At(t, i) \notin Special THEN StaticFrom(t, i + 1, Append(got, Plainly(t[i]))) ELSE Ok(Term("literal", got, <<>>), i)

BlockOfLast(es) == IF es = <<>> THEN Term("block", "", es) ELSE es[Len(es)]

\* block: one expression is itself.
Block(es) == IF Len(es) = 1 THEN es[1] ELSE Term("block", "", es)

PartAt(t, i) ==
  IF At(t, i) \notin Special THEN StaticFrom(t, i, <<>>)
  ELSE Then(i, Between(t, i, "${", ";", "expr", "}"), LAMBDA es, a : Ok(Block(es), a))

PartsFrom(t, i, got) ==
  LET r == PartAt(t, i) IN IF r.st = "ok" THEN PartsFrom(t, r.at, Append(got, r.v)) ELSE Maybe(r, got, i)

LiteralAt(t, i) ==
  Then(i, Tok(t, i, "quote"), LAMBDA w, a :
    Then(i, PartsFrom(t, a, <<>>), LAMBDA es, b :
      Then(i, Tok(t, b, "quote"), LAMBDA x, c :
        Ok(CASE es = <<>> -> Term("literal", <<>>, <<>>)
             [] Len(es) = 1 /\ es[1].form = "literal" -> [es[1] EXCEPT !.note = <<>>]
             [] OTHER -> Term("concat", "", es), c))))

-----------------------------------------------------------------------------
Simple(t, i) ==
  Else(ForAt(t, i), Else(ReduceAt(t, i), Else(MatchAt(t, i), Else(LetAt(t, i), Else(CondAt(t, i),
  Else(Try(BlockAt(t, i)), Else(Try(FlagsAt(t, i)), Else(RecordAt(t, i), Else(TupleAt(t, i),
  Else(BooleanAt(t, i), Else(LiteralAt(t, i), Else(NotAt(t, i), Else(OptionAt(t, i), Else(ResultAt(t, i),
  Else(Try(CallAt(t, i)), Else(ListAt(t, i), Else(IdentifierAt(t, i), NumberAt(t, i))))))))))))))))))

SimpleExpr(t, i) == Then(i, Simple(t, i), LAMBDA e, a : MaybeNoted(t, a, e))

-----------------------------------------------------------------------------
(***************************************************************************)
(* What may follow a simple expression, in this order: indices, selections *)
(* (each with indices of its own), a range, and operators.                 *)
(***************************************************************************)
RECURSIVE IndexedFrom(_, _, _), SelectedFrom(_, _, _), OperatedFrom(_, _, _)

IndexedFrom(t, i, e) ==
  IF At(t, i) # "[" THEN Ok(e, i)
  ELSE Then(i, Then(i, ExprAt(t, i + 1), LAMBDA x, a : Then(i, Tok(t, a, "]"), LAMBDA w, b : Ok(x, b))),
            LAMBDA x, a : IndexedFrom(t, a, Term("select-index", "", <<e, x>>)))

\* build_selection, invoke_worker_function, combine_with_integer; <<>>: refused.
Selection(e, x) ==
  CASE x.form = "call"       -> <<Term("invoke", x.tag.key.name, <<e>> \o x.args)>>
    [] x.form = "identifier" -> <<[Term("select-field", x.tag.name, <<e>>) EXCEPT !.note = x.note]>>
    [] OTHER -> <<>>

Fraction(e) == IF e.form = "number" /\ e.tag = "int" THEN <<Term("number", "fraction", <<>>)>> ELSE <<>>

\* What a dot is followed by: <<e with it>>, or <<>>.
SegmentAt(t, i, e) ==
  Else(Then(i, NumberAt(t, i), LAMBDA n, a : Ok(Fraction(e), a)),
       Then(i, SimpleExpr(t, i), LAMBDA x, a : Ok(Selection(e, x), a)))

SelectedFrom(t, i, e) ==
  LET r == Try(Then(i, Tok(t, i, "."), LAMBDA w, a :
                 Then(i, SegmentAt(t, a, e), LAMBDA s, b :
                   IF s = <<>> THEN Ok(<<>>, b)
                   ELSE Then(i, IndexedFrom(t, b, s[1]), LAMBDA x, c :
                          Then(i, MaybeNoted(t, c, x), LAMBDA y, d : Ok(<<y>>, d))))))
  IN  CASE r.st = "soft" -> Ok(e, i)
        [] r.v = <<>>    -> Hard
        [] OTHER         -> SelectedFrom(t, r.at, r.v[1])

\* An annotation of a range is read and forgotten.
RangedFrom(t, i, e) ==
  IF At(t, i) \notin {"..", "..="} THEN Ok(e, i)
  ELSE Then(i, Maybe(Then(i + 1, SimpleExpr(t, i + 1), LAMBDA to, a : Ok(<<to>>, a)), <<>>, i + 1), LAMBDA to, a :
         IF to = <<>> /\ t[i] = "..=" THEN Hard
         ELSE LET form == IF to = <<>> THEN "from" ELSE IF t[i] = ".." THEN "to" ELSE "through"
              IN  Then(i, IndexedFrom(t, a, Term("range", form, <<e>> \o to)), LAMBDA r, b :
                    Then(i, MaybeNoted(t, b, r), LAMBDA noted, c : Ok(r, c))))

FormOf(op) == CASE op = "&&" -> "and" [] op = "||" -> "or" [] OTHER -> op

\* The right operand is all that follows.
OperatedFrom(t, i, e) ==
  IF At(t, i) \notin Operators THEN Ok(e, i)
  ELSE Then(i, Then(i, ExprAt(t, i + 1), LAMBDA x, a : IndexedFrom(t, a, x)), LAMBDA x, a :
         OperatedFrom(t, a, Term(FormOf(t[i]), "", <<e, x>>)))

RibExpr(t, i) ==
  Then(i, SimpleExpr(t, i), LAMBDA e, a :
    Then(i, IndexedFrom(t, a, e), LAMBDA x, b :
      Then(i, SelectedFrom(t, b, x), LAMBDA y, c :
        Then(i, RangedFrom(t, c, y), LAMBDA z, d : OperatedFrom(t, d, z)))))

-----------------------------------------------------------------------------
\* A program, or an item of a list: a name and what stands for it, or one thing.
Pair(t, i, r, sign, F(_)) ==
  Then(i, r, LAMBDA name, a : Then(i, Tok(t, a, sign), LAMBDA w, b :
    Then(i, F(b), LAMBDA v, c : Ok([name |-> name, of |-> v], c))))

Item(t, i, what) ==
  CASE what = "program" -> Items(t, i, ";", "expr")
    [] what = "expr"    -> RibExpr(t, i)
    [] what = "line"    -> Try(ExprAt(t, i))
    [] what = "type"    -> TypeName(t, i)
    [] what = "pattern" -> ArmPattern(t, i)
    [] what = "flag"    -> CharsAt(t, i)
    [] what = "field"   -> Pair(t, i, WordAt(t, i), ":", LAMBDA b : ExprAt(t, b))
    [] what = "arm"     -> Pair(t, i, PatternAt(t, i), "=>", LAMBDA b : ExprAt(t, b))
    [] what = "key-pattern" -> Pair(t, i, WordAt(t, i), ":", LAMBDA b : PatternAt(t, b))

-----------------------------------------------------------------------------
(***************************************************************************)
(* from_string, from_text: <<the program>>, or <<>>.                       *)
(***************************************************************************)
Unwrapped(t) ==
  IF Len(t) >= 2 /\ t[1] = "${" /\ t[Len(t)] = "}" THEN SubSeq(t, 2, Len(t) - 1) ELSE t

FromText(t) ==
  IF t # <<>> /\ t[Len(t)] = ";" THEN <<>>
  ELSE LET r == Item(t, 1, "program")
       IN  IF r.st = "ok" /\ r.at > Len(t) THEN <<Block(r.v)>> ELSE <<>>

FromString(t) == FromText(Unwrapped(t))
===============================================================================
