------------------------------- MODULE RibArms -------------------------------
(***************************************************************************)
(* Whether the arms of a match leave nothing out and none is dead.  Only   *)
(* the constructors of options, results, variants and enums are looked at, *)
(* and for what is inside them the type is not: every list of constructors *)
(* the program could mean is tried in turn.                                *)
(***************************************************************************)
EXTENDS RibFlow

(***************************************************************************)
(* ConstructorDetail: the constructors of a type, with and without payload.*)
(***************************************************************************)
Constructors(with, none) == [with |-> with, none |-> none]

OptionConstructors == Constructors({"some"}, {"none"})
ResultConstructors == Constructors({"ok", "err"}, {})
NamesWhere(ps, Sat(_)) == {ps[k].n : k \in {j \in DOMAIN ps : Sat(ps[j])}}
CaseConstructors(t) ==
  Constructors(NamesWhere(t.parts, LAMBDA p : p.t # <<>>), NamesWhere(t.parts, LAMBDA p : p.t = <<>>))

\* get_all_variants: the variants of the dictionary, in its order.
VariantsIn(dict) == ResultsOf(SelectSeq(dict, LAMBDA e : e.key.kind = "variant"))

AnyConstructors(dict) ==
  <<OptionConstructors>> \o [k \in DOMAIN VariantsIn(dict) |-> CaseConstructors(VariantsIn(dict)[k])]
    \o <<OptionConstructors, ResultConstructors>>

ConstructorsFor(dict, t) ==
  CASE t.k = "option" -> <<OptionConstructors>>
    [] t.k = "result" -> <<ResultConstructors>>
    [] t.k \in {"variant", "enum"} -> <<CaseConstructors(t)>>
    [] OTHER -> AnyConstructors(dict)

-----------------------------------------------------------------------------
(***************************************************************************)
(* process_pattern_view: what one arm adds to what the arms before it are  *)
(* known to match: the constructors seen, the patterns of the payloads of  *)
(* each, and the patterns that match anything.                             *)
(***************************************************************************)
NothingSeen(c) == [seen |-> {}, inner |-> [name \in c.with |-> <<>>], any |-> <<>>]

LiteralIs(nodes, p, form) == p.form = "literal" /\ nodes[p.lit[1]].form = form
MatchesAnything(nodes, p) == p.form = "any" \/ LiteralIs(nodes, p, "identifier")

\* A constructor that is not among those looked for is not seen.
SeeConstructor(c, st, name, parts) ==
  CASE name \in c.with -> [st EXCEPT !.seen = @ \cup {name}, !.inner[name] = @ \o parts]
    [] name \in c.none -> [st EXCEPT !.seen = @ \cup {name}]
    [] OTHER           -> st

Payload(ids) == [k \in DOMAIN ids |-> [LiteralPattern(0) EXCEPT !.lit = <<ids[k]>>]]

NameCalled(key) == CASE key.kind = "worker" -> "instance" [] key.kind = "resource" -> key.of
                     [] OTHER -> key.name

RECURSIVE SeePattern(_, _, _, _)
SeePattern(nodes, c, st, p) ==
  CASE p.form = "as"             -> SeePattern(nodes, c, st, p.parts[1])
    [] p.form = "constructor"    -> SeeConstructor(c, st, p.tag, p.parts)
    [] LiteralIs(nodes, p, "call") ->
         LET call == nodes[p.lit[1]]
         IN  SeeConstructor(c, st, NameCalled(call.tag.key), Payload(call.args))
    [] MatchesAnything(nodes, p) -> [st EXCEPT !.any = Append(@, p)]
    [] OTHER                     -> st

\* An arm after one that matches anything is dead.
RECURSIVE SeeArms(_, _, _, _)
SeeArms(nodes, c, st, pats) ==
  IF pats = <<>> THEN [st |-> st, dead |-> FALSE]
  ELSE IF st.any # <<>> THEN [st |-> st, dead |-> TRUE]
  ELSE SeeArms(nodes, c, SeePattern(nodes, c, st, Head(pats)), Tail(pats))

(***************************************************************************)
(* check_exhaustive: the payload patterns left to check by constructor, or *)
(* why the arms are refused.  What matches anything matches any payload    *)
(* too, unless some pattern of the payload already does.                   *)
(***************************************************************************)
Verdict(why, inner) == [why |-> why, inner |-> inner]

\* For the run that checks ArmsJudged: a wildcard is forgotten inside a constructor.
ReachingNoMore(nodes, any, ps) == ps

Reaching(nodes, any, ps) ==
  IF \E k \in DOMAIN ps : MatchesAnything(nodes, ps[k]) THEN ps ELSE ps \o any

CheckConstructors(nodes, c, pats) ==
  LET r     == SeeArms(nodes, c, NothingSeen(c), pats)
      st    == r.st
      inner == [name \in {x \in c.with : st.inner[x] # <<>>} |-> Reaching(nodes, st.any, st.inner[name])]
  IN  IF r.dead THEN Verdict("dead", <<>>)
      ELSE IF st.seen # {} /\ st.seen # c.with \cup c.none /\ st.any = <<>> THEN Verdict("missing", <<>>)
      ELSE Verdict("", inner)

\* The lists of constructors are tried until one leaves payloads to check, or refuses.
RECURSIVE CheckAny(_, _, _)
CheckAny(nodes, cs, pats) ==
  LET v == CheckConstructors(nodes, Head(cs), pats)
  IN  IF v.why # "" \/ DOMAIN v.inner # {} \/ Tail(cs) = <<>> THEN v
      ELSE CheckAny(nodes, Tail(cs), pats)

(***************************************************************************)
(* check_exhaustive_pattern_match: "" if the arms are accepted.            *)
(***************************************************************************)
RECURSIVE CheckArms(_, _, _, _)
CheckArms(dict, nodes, cs, pats) ==
  LET v    == CheckAny(nodes, cs, pats)
      bad  == {name \in DOMAIN v.inner :
                 CheckArms(dict, nodes, AnyConstructors(dict), v.inner[name]) # ""}
  IN  IF v.why # "" THEN v.why
      ELSE IF bad = {} THEN ""
      ELSE LET name == CHOOSE x \in bad : TRUE
           IN  CheckArms(dict, nodes, AnyConstructors(dict), v.inner[name])

ArmsRefused(dict, a, n) ==
  n.form = "match" /\ CheckArms(dict, a.nodes, ConstructorsFor(dict, a.types[n.args[1]]), n.pats) # ""

===============================================================================
