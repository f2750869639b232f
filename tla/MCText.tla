-------------------------------- MODULE MCText --------------------------------
(***************************************************************************)
(* Texts: for every part of the language, a beginning and the phrases that *)
(* may follow it, in every order.                                          *)
(***************************************************************************)
EXTENDS RibText

Twin == "~x" :> "x"

Hand(start, words, length) == [start |-> start, words |-> words, length |-> length]

\* Indices, selections and their annotations.
Selections == Hand(<<>>,
  {<<"x">>, <<"1">>, <<":", "u8">>, <<"u8">>, <<".">>, <<"[", "1", "]">>, <<"[">>, <<"]">>}, 4)
\* The same with methods, operators and ranges.
Suffixes == Hand(<<>>,
  {<<"x", ".", "y">>, <<"x", "(">>, <<")">>, <<":", "u8">>, <<"[", "1", "]">>, <<".", "y">>, <<"!">>, <<"+">>, <<"..">>, <<".", "x", "(", ")">>}, 4)
\* Operators and ranges.
Operations == Hand(<<>>,
  {<<"x">>, <<"1">>, <<"..">>, <<"..=">>, <<"+">>, <<"<">>, <<"!">>, <<":", "u8">>, <<"[", "1", "]">>}, 4)
\* Conditions, bindings, and words that begin with a keyword.
Choices == Hand(<<>>,
  {<<"if", "x", "then">>, <<"if">>, <<"then">>, <<"x">>, <<"~x">>, <<"else">>, <<"let", "x", "=">>, <<"(">>, <<")">>}, 4)
\* Arms, and what they may begin with.
Arms == Hand(<<"match", "x", "{">>,
  {<<"x">>, <<"none">>, <<"x", "@">>, <<"(">>, <<")">>, <<"=>", "x">>, <<",">>, <<"}">>, <<"~x">>}, 4)
\* Patterns inside patterns.
Patterns == Hand(<<"match", "x", "{">>,
  {<<"_">>, <<"none">>, <<"[">>, <<"]">>, <<"{">>, <<"x", ":">>, <<",">>, <<"}">>, <<"=>", "1", "}">>}, 4)
\* The lines of a loop.
Bodies == Hand(<<"for", "x", "in", "x", "{">>,
  {<<"x">>, <<"x", ";">>, <<"yield", "x">>, <<"yield">>, <<";">>, <<"(", "x", ")">>, <<"}">>}, 4)
\* What a loop iterates.
Iterated == Hand(<<"for", "x", "in">>,
  {<<"x">>, <<"..">>, <<"1">>, <<"{">>, <<"(", "x", ")">>, <<"yield", "x", ";", "}">>, <<"{", "1", ";">>}, 4)
\* A loop with an accumulator.
Reduced == Hand(<<"reduce", "x", ",", "y", "in", "x", "from", "1">>,
  {<<"x">>, <<"{">>, <<"yield", "x">>, <<"yield">>, <<";">>, <<"(", "x", ")">>, <<"}">>}, 4)
\* Blocks, flags and records.
Braces == Hand(<<>>, {<<"{">>, <<"}">>, <<"x">>, <<"1">>, <<";">>, <<",">>, <<"x", ":">>}, 5)
\* Texts with expressions inside.
Quotes == Hand(<<>>, {<<"quote">>, <<"${">>, <<"}">>, <<"x">>, <<"\\${">>, <<";", "1">>}, 5)
\* Types of an expression.
TypesOfTerms == Hand(<<"x", ":">>,
  {<<"list">>, <<"<">>, <<">">>, <<"u8">>, <<"result">>, <<"_">>, <<",">>, <<"tuple">>, <<"+", "1">>}, 4)
\* Types of a binding.
Declared == Hand(<<"let", "x", ":">>,
  {<<"list", "<">>, <<"result", "<">>, <<">">>, <<"u8">>, <<"result">>, <<"_">>, <<",">>, <<"tuple", "<">>, <<"=", "1">>}, 4)
\* Calls of all kinds of words.
Calls == Hand(<<>>,
  {<<"x">>, <<"(">>, <<")">>, <<"none">>, <<"some", "(">>, <<"true">>, <<"~x">>, <<".">>, <<",">>}, 4)
\* One form inside another.
Nested == Hand(<<>>,
  {<<"if", "x", "then">>, <<"else">>, <<"match", "x", "{", "1", "=>">>, <<"x">>, <<"}">>, <<"for", "x", "in", "x", "{", "yield">>, <<";", "}">>, <<"let", "y", "=">>}, 4)

MCHands ==
  {Selections, Suffixes, Operations, Choices, Arms, Patterns, Bodies, Iterated,
   Reduced, Braces, Quotes, TypesOfTerms, Declared, Calls, Nested}

\* Two operators after each other.
OperatorHands == {Hand(<<"1">>, {<<op, "1">> : op \in {"+", "-", "*", "==", "&&", "||"}}, 3)}
===============================================================================
