------------------------------- MODULE RibText -------------------------------
(***************************************************************************)
(* Texts as they are typed, token by token, and what the parser makes of   *)
(* each: expressions are stored as texts, printed by one part and read     *)
(* back by the other.                                                      *)
(***************************************************************************)
EXTENDS RibGrammar

CONSTANT Hands    \* [start: the tokens that are there, words: what may follow, length: how much of it]
VARIABLES hand, left, text, read

vars == <<hand, left, text, read>>

Init ==
  /\ hand \in Hands
  /\ left = hand.length
  /\ text = hand.start
  /\ read = FromString(text)

Enter(w) ==
  /\ left > 0
  /\ left' = left - 1
  /\ text' = text \o w
  /\ read' = FromString(text')
  /\ UNCHANGED hand

Next == \E w \in hand.words : Enter(w)

Spec == Init /\ [][Next]_vars

-----------------------------------------------------------------------------
Follows(t, words, next) == \E i \in 1..Len(t) - 1 : t[i] \in words /\ t[i + 1] \in next

KeysRepeat(t) ==
  \E i, j \in 1..Len(t) - 1 : i # j /\ t[i] = t[j] /\ t[i] \notin Signs /\ t[i + 1] = ":" /\ t[j + 1] = ":"

\* Texts the grammar has that the parser, which decides on what comes first, reads otherwise.
TakenOtherwise(t) ==
  \/ Follows(t, {"yield"}, {"("})                     \* looks like a call
  \/ Follows(t, {"result"}, {"<"})                    \* looks like the type of a result
  \/ Follows(t, {".."}, Reserved \cup {"{"})          \* looks like the end of the range
  \/ Follows(t, {"none"}, DOMAIN Suffix \cup Signs)   \* is a pattern whatever follows
  \/ KeysRepeat(t)                                    \* a record has each key once

(***************************************************************************)
(* The parser accepts the texts of the grammar, and no others: no order of *)
(* its alternatives, and no failure after which it does not try the next,  *)
(* hides a text but those above.                                           *)
(***************************************************************************)
GrammarHolds ==
  LET t == Unwrapped(text)
  IN  /\ read # <<>> => Derives(t)
      /\ Derives(t) /\ ~TakenOtherwise(t) => read # <<>>

-----------------------------------------------------------------------------
RECURSIVE PatternsIn(_), TermsIn(_)
PatternsIn(p) == {p} \cup UNION {PatternsIn(q) : q \in Seqs!ToSet(p.parts)}

PatternsOf(e) == UNION {PatternsIn(p) : p \in Seqs!ToSet(e.pats)}
TermsIn(e) ==
  {e} \cup UNION {TermsIn(x) : x \in Seqs!ToSet(e.args) \cup UNION {Seqs!ToSet(p.lit) : p \in PatternsOf(e)}}

\* The printer loses what it puts no sign around, and annotations it does not print.
KeepsNote(e)  == e.note # <<>> => e.form \in Noted
KeepsLines(e) ==
  /\ e.form = "for" => Len(e.args[2].args) <= 2
  /\ \A k \in DOMAIN e.args : e.args[k].form = "block" => e.form = "concat" \/ (e.form = "for" /\ k = 2)
KeepsText(e) ==
  /\ e.form = "literal" => \A k \in DOMAIN e.tag : e.tag[k] # "${"
  /\ e.form = "concat" => \A k \in DOMAIN e.args :
       e.args[k].form = "literal" => e.args[k].tag # <<>> /\ (k > 1 => e.args[k - 1].form # "literal")
KeepsPattern(p) ==
  /\ p.form = "constructor" /\ p.parts = <<>> => p.tag = "none"
  /\ p.form = "literal" => p.lit[1].form # "block" /\ (p.lit[1].form = "identifier" => p.lit[1].note = <<>>)

Printable(tree) == \A e \in TermsIn(tree) :
  /\ e.form # "reduce" /\ (e.form = "range" => e.tag # "from")
  /\ KeepsNote(e) /\ KeepsLines(e) /\ KeepsText(e)
  /\ \A p \in PatternsOf(e) : KeepsPattern(p)

Notes == {":"} \cup TypeWords

\* x.y: u8: u8, which ends what could still be continued.
NotedTwice(t) == Follows(t, TypeWords \cup {">"}, Notes)

(***************************************************************************)
(* A stored expression is read back as it was: no two expressions share a  *)
(* text, although nothing is printed around operands and nested parts.     *)
(***************************************************************************)
ReadsBack ==
  read # <<>> /\ Printable(read[1]) /\ ~NotedTwice(text) => FromString(Written(read[1])) = read

\* Annotations the parser reads and does not keep: of a range, of a number that turns out to
\* have a fraction, of a method's call, and the first of two.
Forgets(t) ==
  \/ NotedTwice(t) \/ Follows(t, {"..", "..="}, Notes)
  \/ \E i, j, k \in DOMAIN t : i < j /\ j < k /\ t[i] \in {"..", "..="} /\ t[j] = "]" /\ t[k] \in TypeWords
  \/ \E i, k \in DOMAIN t : i < k /\ t[i] = "." /\ t[k] = ")" /\ At(t, k + 1) \in Notes
  \/ \E k \in 3..Len(t) : t[k] = Digit /\ t[k - 1] = "." /\ t[k - 2] \in TypeWords \cup {">"}

Spelled(t) ==
  Seqs!FoldLeft(LAMBDA s, w : s \o w, "", [k \in DOMAIN t |-> IF t[k] \in Signs THEN "" ELSE Alone(t[k])])

(***************************************************************************)
(* What is read has every word of its text, in the order of the text: no   *)
(* part of an expression is lost or exchanged on its way into the tree.    *)
(***************************************************************************)
NothingDropped ==
  read # <<>> /\ (\A e \in TermsIn(read[1]) : KeepsNote(e)) /\ ~Forgets(text)
    => Spelled(Written(read[1])) = Spelled(text)

-----------------------------------------------------------------------------
Precedence(form) ==
  CASE form = "or" -> 1 [] form = "and" -> 2 [] form \in Comparisons -> 3
    [] form \in {"+", "-"} -> 4 [] form \in {"*", "/"} -> 5 [] OTHER -> 6

(***************************************************************************)
(* "Binary operators (with usual precedence grouping in Rib)": what stands *)
(* right of an operator binds stronger than it.  No sign of the language   *)
(* groups otherwise: parentheses make tuples.                              *)
(***************************************************************************)
OperatorsGroup ==
  read # <<>> => \A e \in TermsIn(read[1]) :
    Precedence(e.form) < 6 => Precedence(e.args[2].form) > Precedence(e.form)
===============================================================================
