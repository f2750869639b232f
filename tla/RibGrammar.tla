------------------------------ MODULE RibGrammar ------------------------------
(***************************************************************************)
(* The grammar the language's documentation gives, as rules and not as a   *)
(* parser: which texts derive from it, by any choice of alternatives.      *)
(* Where the documentation says more or less than the language has, the    *)
(* rule is the language's, and marked "!=".                                *)
(***************************************************************************)
EXTENDS RibWrite, TLC

Optional(x) == {<<>>, <<x>>}
OneOf(rules) == {<<r>> : r \in rules}

-----------------------------------------------------------------------------
Rules ==
  ("<type>"     :> OneOf(BasicTypes) \cup
                   {<<"list", "<", "<type>", ">">>, <<"option", "<", "<type>", ">">>,
                    <<"tuple", "<", "<types?>", ">">>,                                  \* != none
                    <<"result">>, <<"result", "<", "<ok-type>", "<err-type>", ">">>}) @@
  ("<ok-type>"  :> {<<"_">>, <<"<type>">>}) @@
  ("<err-type>" :> {<<>>, <<",", "<type>">>}) @@
  ("<note>"     :> {<<>>, <<"<colon?>", "<type>">>}) @@                                 \* != colon
  ("<let-note>" :> {<<>>, <<":", "<type>">>}) @@

  ("<program>"  :> Optional("<block>")) @@                                              \* != none
  ("<exprs?>"   :> Optional("<exprs>")) @@ ("<types?>" :> Optional("<types>")) @@
  ("<flags?>"   :> Optional("<flags>")) @@ ("<patterns?>" :> Optional("<patterns>")) @@
  ("<to?>"      :> Optional("<to>")) @@ ("<colon?>" :> Optional(":")) @@
  ("<comma?>"   :> Optional(",")) @@ ("<semicolon?>" :> Optional(";")) @@

  \* != what follows a simple expression follows once, a fraction only a number.
  ("<expr>"     :> {<<"<simple>", "<note>", "<indices>", "<rest>">>,
                    <<"INT", "<note>", ".", "INT", "<indices>", "<note>", "<rest>">>}) @@
  ("<rest>"     :> {<<"<segments>", "<range>", "<ops>">>}) @@
  ("<indices>"  :> {<<>>, <<"[", "<expr>", "]", "<indices>">>}) @@
  ("<segments>" :> {<<>>, <<".", "<segment>", "<note>", "<indices>", "<note>", "<segments>">>}) @@
  ("<segment>"  :> {<<"NAME">>, <<"<call>">>}) @@                                        \* != only these
  ("<range>"    :> {<<>>, <<"..", "<to?>", "<indices>", "<note>">>,
                    <<"..=", "<to>", "<indices>", "<note>">>}) @@
  ("<to>"       :> {<<"<simple>", "<note>">>}) @@
  ("<ops>"      :> {<<>>} \cup {<<op, "<expr>", "<indices>", "<ops>">> : op \in Operators}) @@

  ("<simple>"   :> OneOf({"<for>", "<reduce>", "<match>", "<if>", "<call>", "<quoted>", "NAME", "INT", "true", "false", "none"})
                   \cup {<<"let", "IDENT", "<let-note>", "=", "<expr>">>, <<"!", "<expr>">>,
                         <<"some", "(", "<expr>", ")">>, <<"ok", "(", "<expr>", ")">>, <<"err", "(", "<expr>", ")">>,
                         <<"(", "<exprs?>", ")">>, <<"[", "<exprs?>", "]">>,
                         <<"{", "<flags?>", "}">>, <<"{", "<fields>", "}">>,
                         <<"{", "<expr>", ";", "<block>", "}">>}) @@                     \* != two lines
  ("<for>"      :> {<<"for", "IDENT", "in", "<expr>", "{", "<body>", "}">>}) @@
  ("<reduce>"   :> {<<"reduce", "IDENT", ",", "IDENT", "in", "<expr>", "from", "<expr>", "{", "<body>", "}">>}) @@
  ("<body>"     :> {<<"<lines?>", "yield", "<expr>", ";">>}) @@
  ("<lines?>"   :> {<<>>, <<"<block>", "<semicolon?>">>}) @@                             \* != last ";"
  ("<match>"    :> {<<"match", "<expr>", "{", "<arms>", "<comma?>", "}">>}) @@           \* != last ","
  ("<arm>"      :> {<<"<pattern>", "=>", "<expr>">>}) @@
  ("<if>"       :> {<<"if", "<expr>", "then", "<expr>", "else", "<expr>">>}) @@
  ("<call>"     :> {<<"CALLED", "(", "<exprs?>", ")">>}) @@                              \* != most words
  ("<field>"    :> {<<"KEY", ":", "<expr>">>}) @@
  ("<quoted>"   :> {<<"quote", "<parts>", "quote">>}) @@
  ("<parts>"    :> {<<>>, <<"STATIC", "<parts>">>, <<"${", "<program>", "}", "<parts>">>}) @@

  ("<pattern>"  :> {<<"_">>, <<"none">>, <<"CASE", "(", "<patterns?>", ")">>,
                    <<"(", "<patterns?>", ")">>, <<"[", "<patterns?>", "]">>,
                    <<"{", "<keys>", "}">>, <<"CASE", "@", "<pattern>">>, <<"<expr>">>}) @@
  ("<key>"      :> {<<"KEY", ":", "<pattern>">>})

\* One or more of the first, with the second between them.
Lists ==
  ("<types>" :> <<"<type>", ",">>) @@ ("<block>" :> <<"<expr>", ";">>) @@ ("<exprs>" :> <<"<expr>", ",">>) @@
  ("<flags>" :> <<"WORD", ",">>) @@ ("<arms>" :> <<"<arm>", ",">>) @@ ("<patterns>" :> <<"<pattern>", ",">>) @@
  ("<fields>" :> <<"<field>", ",">>) @@ ("<keys>" :> <<"<key>", ",">>)                   \* != one suffices

-----------------------------------------------------------------------------
\* Where a word of one of these kinds may end that begins at i.
RECURSIVE WordEnds(_, _)
WordEnds(t, i) == {i} \cup (IF At(t, i) \in DOMAIN Suffix THEN WordEnds(t, i + 1) ELSE {})

CharEnds(t, i) == IF At(t, i) \in Signs THEN {} ELSE WordEnds(t, i + 1)
LetterEnds(t, i) == IF At(t, i) = Digit THEN {} ELSE CharEnds(t, i)

\* != names are no reserved words; an expression that begins like a boolean is one, what
\* begins another expression is not called, and a pattern that begins with "none" is that.
Opening == {"if", "match", "let", "for", "reduce", "some", "none", "ok", "err"}

NameEnds(t, i)   == {j \in LetterEnds(t, i) : j > i + 1 \/ At(t, i) \notin Reserved}
CalledEnds(t, i) == {j \in CharEnds(t, i) : j > i + 1 \/ At(t, i) \notin Opening}
Unless(words, t, i, ends) == IF At(t, i) \in words THEN {} ELSE ends

RECURSIVE EndsOf(_, _, _), EndsAfter(_, _, _), ListEnds(_, _, _)
ListEnds(of, t, i) ==
  LET ends == EndsOf(of[1], t, i)
  IN  ends \cup UNION {ListEnds(of, t, j + 1) : j \in {e \in ends : At(t, e) = of[2]}}

EndsOf(sym, t, i) ==
  CASE sym = "IDENT"  -> NameEnds(t, i)
    [] sym = "KEY"    -> LetterEnds(t, i)
    [] sym = "WORD"   -> CharEnds(t, i)
    [] sym = "NAME"   -> Unless({"true", "false"}, t, i, NameEnds(t, i))
    [] sym = "CALLED" -> Unless({"true", "false"}, t, i, CalledEnds(t, i))
    [] sym = "CASE"   -> Unless({"none"}, t, i, CharEnds(t, i))
    [] sym = "INT"    -> IF At(t, i) = Digit THEN {i + 1} ELSE {}
    [] sym = "STATIC" -> IF At(t, i) \in Special THEN {} ELSE {i + 1}
    [] sym \in DOMAIN Lists -> ListEnds(Lists[sym], t, i)
    [] sym \in DOMAIN Rules -> UNION {EndsAfter(rule, t, {i}) : rule \in Rules[sym]}
    [] OTHER -> IF At(t, i) = sym THEN {i + 1} ELSE {}

EndsAfter(rule, t, ends) ==
  IF rule = <<>> \/ ends = {} THEN ends
  ELSE EndsAfter(Tail(rule), t, UNION {EndsOf(Head(rule), t, i) : i \in ends})

Derives(t) == Len(t) + 1 \in EndsOf("<program>", t, 1)
===============================================================================
