------------------------------- MODULE RibJudge -------------------------------
(***************************************************************************)
(* What inference promises, said without saying how it gets there: which   *)
(* binder a name means, when a typed tree is well typed, which values the  *)
(* arms of a match take, and that inference ends.                          *)
(***************************************************************************)
EXTENDS RibFront

-----------------------------------------------------------------------------
(***************************************************************************)
(* Names.  A binder is a let, a loop or an arm: <<node, which arm>>, and   *)
(* scope has the binder of every name bound around a node.  The result is  *)
(* a set of <<identifier, its binder>>, and the names left bound: a let    *)
(* binds in what follows it in its block.                                  *)
(***************************************************************************)
Free == <<0, 0>>
Bind(scope, names, binder) == [x \in DOMAIN scope |-> IF x \in names THEN binder ELSE scope[x]]

NamesInPattern(nodes, p) ==
  {NameAt(nodes, id) : id \in BoundBy(nodes, p)} \cup AliasesOf(p)

RECURSIVE Scoped(_, _, _), ScopedSeq(_, _, _), ScopedArms(_, _, _, _)
Scoped(nodes, id, scope) ==
  LET n == nodes[id]
      Around(names) == Bind(scope, names, <<id, 0>>)
  IN  CASE n.form = "identifier" -> {<<id, scope[n.tag.name]>>}
        [] n.form = "for" ->
             Scoped(nodes, n.args[1], scope) \cup Scoped(nodes, n.args[2], Around({n.tag.name}))
        [] n.form = "reduce" ->
             ScopedSeq(nodes, <<n.args[1], n.args[2]>>, scope)
               \cup Scoped(nodes, n.args[3], Around({n.tag[1].name, n.tag[2].name}))
        [] n.form = "match" ->
             Scoped(nodes, n.args[1], scope) \cup ScopedArms(nodes, id, 1, scope)
        [] OTHER -> ScopedSeq(nodes, n.args, scope)

ScopedSeq(nodes, ids, scope) ==
  IF ids = <<>> THEN {}
  ELSE LET n == nodes[Head(ids)]
       IN  Scoped(nodes, Head(ids), scope)
             \cup ScopedSeq(nodes, Tail(ids),
                    IF n.form = "let" THEN Bind(scope, {n.tag.name}, <<Head(ids), 0>>) ELSE scope)

ScopedArms(nodes, id, k, scope) ==
  LET n == nodes[id]
  IN  IF k > Len(n.pats) THEN {}
      ELSE LET inner == Bind(scope, NamesInPattern(nodes, n.pats[k]), <<id, k>>)
           IN  Scoped(nodes, n.args[k + 1], inner)
                 \cup {<<p, inner[NameAt(nodes, p)]>> : p \in BoundBy(nodes, n.pats[k])}
                 \cup ScopedArms(nodes, id, k + 1, scope)

\* The names of the binders of each kind.
Tree == Under(arena.nodes, root)
Having(form) == {id \in Tree : arena.nodes[id].form = form}
LetNames  == {NameAt(arena.nodes, id) : id \in Having("let")}
LoopNames == {NameAt(arena.nodes, id) : id \in Having("for")}
               \cup UNION {{arena.nodes[id].tag[k].name : k \in {1, 2}} : id \in Having("reduce")}
ArmNames  == UNION {UNION {NamesInPattern(arena.nodes, arena.nodes[id].pats[k]) :
                              k \in DOMAIN arena.nodes[id].pats} : id \in Having("match")}

\* A name that is let is let in one block and used nowhere else.
LetOnce(nodes, x) ==
  \E id \in Tree :
    /\ nodes[id].form # "let"
    /\ \A k \in Tree :
         /\ nodes[k].form = "let" /\ nodes[k].tag.name = x => k \in Seqs!ToSet(nodes[id].args)
         /\ IsIdentifier(nodes, k) /\ NameAt(nodes, k) = x => k \in Under(nodes, id)

(***************************************************************************)
(* The passes bind by name over the whole tree, so this is for programs in *)
(* which lets, loops and arms do not compete for a name.                   *)
(***************************************************************************)
NamesApart ==
  /\ LetNames \cap LoopNames = {} /\ LetNames \cap ArmNames = {} /\ LoopNames \cap ArmNames = {}
  /\ \A x \in LetNames : LetOnce(arena.nodes, x)

Loops(nodes, u) == u[2] # Free /\ nodes[u[2][1]].form \in {"for", "reduce"}

\* The loops of a name share their variable.
RightVariables(nodes, u, v) ==
  IF u[2] = v[2] THEN nodes[u[1]].tag = nodes[v[1]].tag
  ELSE nodes[u[1]].tag # nodes[v[1]].tag \/ (Loops(nodes, u) /\ Loops(nodes, v))

\* Once names are bound (the passes of variable_binding.rs), two uses of a name are one
\* variable exactly if the same let or arm binds both, and those no binder is around are inputs.
BinderMeant ==
  pass = "instances" /\ NamesApart =>
    LET names == {NameAt(arena.nodes, id) : id \in Having("identifier")} \cup LetNames \cup LoopNames \cup ArmNames
        uses  == Scoped(arena.nodes, root, [x \in names |-> Free])
    IN  /\ \A u \in uses : u[2] = Free <=> arena.nodes[u[1]].tag.bound = "global"
        /\ \A u, v \in uses : NameAt(arena.nodes, u[1]) = NameAt(arena.nodes, v[1]) =>
                                RightVariables(arena.nodes, u, v)

-----------------------------------------------------------------------------
(***************************************************************************)
(* Types.  e is an expression of the tree that inference returns, t its    *)
(* type and ts the types of its parts.                                     *)
(***************************************************************************)
Types(es) == [k \in DOMAIN es |-> es[k].type]
AllAre(ts, t) == \A k \in DOMAIN ts : Same(ts[k], t)

\* The type of what a loop goes through.
ItemType(t) == IF t.k = "list" THEN PartOr(t, "list") ELSE PartOr(t, "from")

BuiltWell(e, t, ts) ==
  CASE e.form = "list"   -> t.k = "list" /\ AllAre(ts, PartOr(t, "list"))
    [] e.form = "tuple"  -> Same(t, TupleT(ts))
    [] e.form = "record" -> Same(t, RecordT([k \in DOMAIN ts |-> Is(e.tag[k], ts[k])]))
    [] e.form = "option" -> t.k = "option" /\ AllAre(ts, PartOr(t, "some"))
    [] e.form \in {"ok", "err"} -> t.k = "result" /\ AllAre(ts, PartOr(t, e.form))

ChosenWell(e, t, ts) ==
  CASE e.form = "cond"   -> ts[1].k = "bool" /\ AllAre(Tail(ts), t)
    [] e.form = "match"  -> AllAre(Tail(ts), t)
    [] e.form = "block"  -> Same(t, LastOr(ts))
    [] e.form = "for"    -> ts[1].k \in {"list", "range"} /\ Same(t, ListT(ts[2]))
    [] e.form = "reduce" -> ts[1].k \in {"list", "range"} /\ AllAre(<<ts[2], ts[3]>>, t)

SelectedWell(e, t, ts) ==
  CASE e.form = "select-field" -> ts[1].k = "record" /\ Same(t, PartOr(ts[1], e.tag))
    [] e.form = "select-index" ->
         /\ ts[1].k = "list"
         /\ Same(t, IF ts[2].k = "range" THEN ts[1] ELSE PartOr(ts[1], "list"))

\* What is called is in the component and is given what its signature says.
CalledWell(e, t, ts) ==
  LET entry == EntryCalled(dict, e.tag.key)
      given == Expected(entry[1])
  IN  CASE e.tag.key.kind = "worker" -> IsInstance(t) /\ AllAre(ts, Text)
        [] e.tag.key.kind = "enum" -> ts = <<>> /\ t.k = "enum"
        [] OTHER -> /\ entry # <<>>
                    /\ Len(ts) = Len(given) /\ \A k \in DOMAIN ts : Same(ts[k], given[k])
                    /\ \/ Same(t, ResultOf(entry[1]))
                       \/ IsInstance(t) /\ NamesOf(t) = NamesOf(ResultOf(entry[1]))

RightlyTyped(e) ==
  LET t  == e.type
      ts == Types(e.args)
  IN  CASE e.form = "number"  -> IsNumber(t)
        [] e.form = "literal" -> t.k = "str"
        [] e.form \in Arithmetic -> AllAre(ts, t)
        [] e.form \in Comparisons \cup Conjunctions \cup {"not"} -> t.k = "bool"
        [] e.form \in Composites \ {"range"} -> BuiltWell(e, t, ts)
        [] e.form \in {"cond", "match", "block", "for", "reduce"} -> ChosenWell(e, t, ts)
        [] e.form \in {"select-field", "select-index"} -> SelectedWell(e, t, ts)
        [] e.form = "invoke"  -> FALSE
        [] OTHER -> TRUE

\* A pattern fits the type of what it is matched with.
RECURSIVE Fits(_, _)
Fits(p, t) ==
  LET In(names) == [k \in DOMAIN p.parts |-> Fits(p.parts[k], PartOr(t, names[k]))]
      All(f) == \A k \in DOMAIN f : f[k]
  IN  CASE p.form = "literal" -> IsUnknown(t) \/ Same(p.lit[1].type, t)
        [] p.form = "any"     -> TRUE
        [] p.form = "as"      -> Fits(p.parts[1], t)
        [] p.form = "constructor" ->
             /\ p.tag \in Seqs!ToSet(NamesOf(t)) \cup (IF t.k = "option" THEN {"none"} ELSE {})
             /\ All(In(<<p.tag>>))
        [] p.form = "tuple"   -> t.k = "tuple" /\ Len(p.parts) = Len(t.parts) /\ All(In(NamesOf(t)))
        [] p.form = "list"    -> t.k = "list" /\ All(In([k \in DOMAIN p.parts |-> "list"]))
        [] p.form = "record"  -> t.k = "record" /\ All(In(p.tag))

FitsMatched(e) ==
  e.form = "match" => \A k \in DOMAIN e.pats : Fits(e.pats[k], e.args[1].type)

\* Every expression of a tree.
RECURSIVE Parts(_), PartsOfEach(_), Literals(_), LiteralsOfAll(_)
Parts(e) == {e} \cup PartsOfEach(e.args \o LiteralsOfAll(e.pats))
PartsOfEach(es) == IF es = <<>> THEN {} ELSE Parts(Head(es)) \cup PartsOfEach(Tail(es))
Literals(p) == p.lit \o LiteralsOfAll(p.parts)
LiteralsOfAll(ps) == IF ps = <<>> THEN <<>> ELSE Literals(Head(ps)) \o LiteralsOfAll(Tail(ps))

\* What an expression says of the type of a variable: <<variable, type>>.
Says(e) ==
  CASE e.form = "identifier" -> {<<e.tag, e.type>>}
    [] e.form = "let"        -> {<<e.tag, e.args[1].type>>}
    [] e.form = "for"        -> {<<e.tag, ItemType(e.args[1].type)>>}
    [] e.form = "reduce"     -> {<<e.tag[1], e.args[2].type>>, <<e.tag[2], ItemType(e.args[1].type)>>}
    [] OTHER                 -> {}

\* What infer_types accepts is well typed: every part has the type its whole needs, calls are
\* given what signatures say, patterns fit what is matched, and a variable has one type.
WellTyped ==
  IsAccepted =>
    LET es   == Parts(Inferred)
        said == UNION {Says(e) : e \in es}
    IN  /\ \A e \in es : RightlyTyped(e) /\ FitsMatched(e) /\ (e.form = "call" => CalledWell(e, e.type, Types(e.args)))
        /\ \A s, u \in said : s[1] = u[1] => Same(s[2], u[2])

-----------------------------------------------------------------------------
(***************************************************************************)
(* Values a match may meet: a constructor and its payload.  What has no    *)
(* constructors is one value, which only a name or a wildcard takes.       *)
(***************************************************************************)
Value(c, v) == [c |-> c, v |-> v]
Opaque == Value("", <<>>)

RECURSIVE Values(_), PayloadValues(_)
PayloadValues(p) == {Value(p.n, <<v>>) : v \in Values(Only(p))}
Values(t) ==
  CASE t.k = "option" -> {Value("none", <<>>)} \cup PayloadValues(t.parts[1])
    [] t.k \in {"result", "variant", "enum"} ->
         UNION {IF t.parts[k].t = <<>> THEN {Value(t.parts[k].n, <<>>)} ELSE PayloadValues(t.parts[k]) :
                  k \in DOMAIN t.parts}
    [] OTHER -> {Opaque}

RECURSIVE Takes(_, _, _)
Takes(nodes, p, v) ==
  CASE p.form = "as" -> Takes(nodes, p.parts[1], v)
    [] p.form = "constructor" ->
         /\ p.tag = v.c
         /\ Len(p.parts) = Len(v.v) /\ \A k \in DOMAIN v.v : Takes(nodes, p.parts[k], v.v[k])
    [] LiteralIs(nodes, p, "call") -> NameCalled(nodes[p.lit[1]].tag.key) = v.c
    [] OTHER -> MatchesAnything(nodes, p)

\* Patterns made of constructors, names and wildcards.
RECURSIVE Plain(_, _)
Plain(nodes, p) ==
  CASE p.form = "literal" -> nodes[p.lit[1]].form \in {"identifier", "call"}
    [] p.form \in {"as", "constructor", "any"} -> \A k \in DOMAIN p.parts : Plain(nodes, p.parts[k])
    [] OTHER -> FALSE

\* No enum inside anything.
RECURSIVE NoEnums(_)
NoEnums(t) == t.k # "enum" /\ \A k \in DOMAIN t.parts : t.parts[k].t # <<>> => NoEnums(Only(t.parts[k]))
NoEnumInside(t) == t.k = "enum" \/ NoEnums(t)

PlainMatches ==
  {id \in Having("match") : \A k \in DOMAIN arena.nodes[id].pats : Plain(arena.nodes, arena.nodes[id].pats[k])}

Matched(id) == Unify(arena.types[arena.nodes[id].args[1]])

TakenBy(id, k) == {v \in Values(Matched(id)) : Takes(arena.nodes, arena.nodes[id].pats[k], v)}
AllTaken(id) == UNION {TakenBy(id, k) : k \in DOMAIN arena.nodes[id].pats} = Values(Matched(id))
ArmDead(id, k) == TakenBy(id, k) \subseteq UNION {TakenBy(id, j) : j \in 1..(k - 1)}
SomeDead(id) == \E k \in DOMAIN arena.nodes[id].pats : ArmDead(id, k)

\* The arms of an accepted match leave no value out, and arms are refused only when they leave
\* a value out or one of them is dead.
ArmsJudged ==
  /\ IsAccepted => \A id \in PlainMatches : NoEnumInside(Matched(id)) => AllTaken(id)
  /\ arena.fault = "arms" /\ PlainMatches = Having("match") /\ (\A id \in PlainMatches : ~ Fails(Matched(id))) =>
       \E id \in PlainMatches : ~ AllTaken(id) \/ SomeDead(id)

\* The guide's section 9.8: in a match on an enum, a name that is no case of it is an error
\* (in type_check it is a variable that takes every case).
CasesSpelt ==
  IsAccepted => \A id \in Having("match") : Matched(id).k = "enum" =>
    \A k \in DOMAIN arena.nodes[id].pats : ~ LiteralIs(arena.nodes, arena.nodes[id].pats[k], "identifier")

-----------------------------------------------------------------------------
\* What kinds of type are known of an expression; the widths of numbers are one kind.
Known(t) == {IF IsNumber(m) THEN "number" ELSE m.k : m \in Seqs!ToSet(Members(t)) \ {Unknown}}

Scanning ==
  pass \in {"scan types", "forth", "arms", "down", "back again", "forth again", "arms again", "up", "inputs"}

\* A scan of the passes that carry types through the tree forgets nothing an earlier one has
\* learnt of an expression, so that a conflict, once met, is still there when types are unified.
OnlyLearns ==
  [][Scanning /\ ~ Failed(arena') =>
       \A id \in DOMAIN arena.types :
         arena'.nodes[id].form \notin {"call", "range"} => Known(arena.types[id]) \subseteq Known(arena'.types[id])]_vars

\* type_inference_fix_point has no bound of its own: its loops come to rest before they have
\* scanned the tree as often as it has nodes, and once more.
ComesToRest == scans <= Len(arena.nodes) + 1

===============================================================================
