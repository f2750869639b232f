------------------------------ MODULE RibDesugar ------------------------------
(***************************************************************************)
(* desugar_pattern_match and desugar_range_selection: the expressions that *)
(* a match and a slice of a list stand for.                                *)
(***************************************************************************)
EXTENDS RibTerms

Lists == INSTANCE SequencesExt

(***************************************************************************)
(* What a match with no arm left stands for.                               *)
(***************************************************************************)
NothingLeft == Node("nothing", 0, <<>>)

-----------------------------------------------------------------------------
(***************************************************************************)
(* An arm becomes at most one branch: a condition and a body.  The         *)
(* condition on the constructors around a pattern is passed inwards as     *)
(* tag: <<>> or <<condition>>.                                             *)
(***************************************************************************)
Branch(cond, body) == <<[cond |-> cond, body |-> body]>>

NoBranch == <<>>

Under(tag, cond) == IF tag = <<>> THEN cond ELSE And(tag[1], cond)

OrTrue(tag) == IF tag = <<>> THEN Lit(Boolean(TRUE)) ELSE tag[1]

HasTag(pred, name) == Equal(TagOf(pred), Lit(Str(name)))

\* Expr::empty_expr, the body of a part of a pattern: an empty string.
EmptyExpr == Lit(Str(""))

(***************************************************************************)
(* Expr::and_combine.                                                      *)
(***************************************************************************)
AndAll(conds) == Lists!FoldLeft(And, Lit(Boolean(TRUE)), conds)

(***************************************************************************)
(* The part of the value for the k-th part of a pattern, and its type.     *)
(***************************************************************************)
PartOf(pred, p, k) ==
  IF p.form = "record" THEN Select(pred, p.tag[k]) ELSE Index(pred, Lit(Num(k - 1)))

PartType(type, p, k) ==
  CASE p.form = "record"  -> type[2][p.tag[k]]
    [] type[1] = "list"   -> type[2]
    [] OTHER              -> type[2][k]

(***************************************************************************)
(* The type of what the constructor c carries: <<>> when it is no case of  *)
(* the type.                                                               *)
(***************************************************************************)
CarriedType(type, c) ==
  CASE type[1] = "option" /\ c = "some" -> <<type[2]>>
    [] type[1] = "result" /\ c \in {"ok", "err"} -> <<type[2][c]>>
    [] type[1] = "variant" -> type[2][c]
    [] OTHER -> <<>>

IsComposite(p, type) ==
  \/ p.form = "record"
  \/ p.form = "constructor" /\ type[1] \in {"tuple", "list"}

-----------------------------------------------------------------------------
RECURSIVE Arm(_, _, _, _, _)

(***************************************************************************)
(* A record, a tuple or a list: the branches of the parts, with an empty   *)
(* body each, then the body of the arm.  Without a part there is none.     *)
(***************************************************************************)
Composite(p, body, pred, tag, type) ==
  LET parts == Lists!FlattenSeq([k \in 1..Len(p.parts) |->
                 Arm(p.parts[k], EmptyExpr, PartOf(pred, p, k), <<>>, PartType(type, p, k))])
  IN  IF parts = <<>> THEN NoBranch
      ELSE Branch(Under(tag, AndAll([k \in 1..Len(parts) |-> parts[k].cond])),
                  Block([k \in 1..Len(parts) |-> parts[k].body] \o <<body>>))

\* Mutant of Constructed: the tag of the value is not looked at.
ConstructedUntagged(p, body, pred, tag, type) ==
  CASE p.tag = "none" -> Branch(OrTrue(tag), body)
    [] OTHER -> Arm(p.parts[1], body, Unwrap(pred), tag, CarriedType(type, p.tag)[1])

(***************************************************************************)
(* An option, a result or a variant: the tag and then what is inside.      *)
(***************************************************************************)
Constructed(p, body, pred, tag, type) ==
  LET tagged == Under(tag, HasTag(pred, p.tag)) IN
  CASE p.tag = "none" -> Branch(tagged, body)
    [] <<>> \in {p.parts, CarriedType(type, p.tag)} -> NoBranch
    [] OTHER -> Arm(p.parts[1], body, Unwrap(pred), <<tagged>>, CarriedType(type, p.tag)[1])

(***************************************************************************)
(* get_conditions.  A literal forgets the tags around it.                  *)
(***************************************************************************)
Arm(p, body, pred, tag, type) ==
  CASE p.form = "any"     -> Branch(OrTrue(tag), body)
    [] p.form = "bind"    -> Branch(OrTrue(tag), Block(<<Let(p.tag, pred), body>>))
    [] p.form = "enum"    -> Branch(Under(tag, HasTag(pred, p.tag)), body)
    [] p.form = "literal" -> Branch(Equal(pred, p.tag), body)
    [] p.form = "as"      -> Arm(p.parts[1], Block(<<Let(p.tag, pred), body>>), pred, tag, type)
    [] IsComposite(p, type) -> Composite(p, body, pred, tag, type)
    [] OTHER              -> Constructed(p, body, pred, tag, type)

-----------------------------------------------------------------------------
(***************************************************************************)
(* build_expr_from: the first branch whose condition holds, else an error. *)
(***************************************************************************)
Chain(branches) ==
  IF branches = <<>> THEN NothingLeft
  ELSE Lists!FoldRight(LAMBDA b, rest : If(b.cond, b.body, rest), branches, Throw)

(***************************************************************************)
(* e[from..to], and e[from..], which stops before the last element.        *)
(***************************************************************************)
Sliced(e, range) ==
  LET at == Index(e, Var(<<"__i__", 0>>)) IN
  IF range.form = "range" THEN For(<<"__i__", 0>>, range, at)
  ELSE Block(<<Let(<<"__size__", 0>>, Length(e)),
               Let(<<"__index__", 0>>, Math("-", Var(<<"__size__", 0>>), Lit(Num(1)))),
               For(<<"__i__", 0>>, RangeOf(range.args[1], Var(<<"__index__", 0>>), FALSE), at)>>)

Desugared(e) ==
  IF e.form = "select-range" THEN Sliced(e.args[1], e.args[2])
  ELSE LET type     == e.tag[1]
           patterns == e.tag[2]
       IN  Chain(Lists!FlattenSeq([k \in 1..Len(patterns) |->
                   Arm(patterns[k], e.args[k + 1], e.args[1], <<>>, type)]))

===============================================================================
