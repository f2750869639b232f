------------------------------ MODULE RibArena ------------------------------
(***************************************************************************)
(* Expressions as inference works on them: the tree of the parser lowered  *)
(* into an arena of nodes that refer to each other by index, and beside    *)
(* the nodes a table with the type of each.                                *)
(***************************************************************************)
EXTENDS RibRegistry

(***************************************************************************)
(* Expr: a form, what it is tagged with (a name, a variable, a callee),    *)
(* its parts, the patterns of its arms, and its annotation, a type.        *)
(***************************************************************************)
Term(form, tag, args) ==
  [form |-> form, tag |-> tag, args |-> args, pats |-> <<>>, note |-> <<>>]

Annotated(e, type) == [e EXCEPT !.note = <<type>>]

\* ArmPattern.  A literal pattern holds an expression, all others patterns.
Pattern(form, tag, parts) == [form |-> form, tag |-> tag, parts |-> parts, lit |-> <<>>]
LiteralPattern(e) == [Pattern("literal", "", <<>>) EXCEPT !.lit = <<e>>]
Wildcard == Pattern("any", "", <<>>)

\* VariableId: how a variable is bound, its name, and which one of that name.
Variable(bound, name, n) == [bound |-> bound, name |-> name, n |-> n]
Global(name) == Variable("global", name, 0)
Local(name, n) == Variable("local", name, n)
MatchVar(name, arm) == Variable("match", name, arm)
ItemVar(name) == Variable("item", name, 0)
AccVar(name)  == Variable("acc", name, 0)

\* CallType: what is called, and whether the call is bound to a component.
\* Creating an instance is a "worker" or a "resource" call; the name of a worker
\* is an argument of the call.
Callee(key, bound) == [key |-> key, bound |-> bound]
Function(name) == Callee(Key("function", "", "", name), FALSE)

Identifier(v) == Term("identifier", v, <<>>)

Arithmetic  == {"+", "-", "*", "/"}
Comparisons == {">", ">=", "<=", "==", "<"}
Conjunctions == {"and", "or"}

-----------------------------------------------------------------------------
(***************************************************************************)
(* The type an expression is built with, ts being those of its parts.      *)
(***************************************************************************)
FirstOr(ts) == IF ts = <<>> THEN Unknown ELSE ts[1]
LastOr(ts)  == IF ts = <<>> THEN Unknown ELSE ts[Len(ts)]

LeafType(e) ==
  CASE e.form = "number" -> AsDefault(Number(IF e.tag = "fraction" THEN "f64" ELSE "s32"))
    [] e.form \in {"literal", "worker-name"} -> Text
    [] e.form = "boolean" -> Bool
    [] e.form = "flags"   -> FlagsT([k \in DOMAIN e.tag |-> Bare(e.tag[k])])
    [] OTHER -> Unknown

OperatorType(e) ==
  CASE e.form \in Comparisons \cup Conjunctions \cup {"not"} -> Bool
    [] e.form = "length" -> Number("u64")
    [] e.form = "concat" -> Text
    [] OTHER -> Unknown

CompositeType(e, ts) ==
  CASE e.form = "list"   -> ListT(FirstOr(ts))
    [] e.form = "tuple"  -> TupleT(ts)
    [] e.form = "record" -> RecordT([k \in DOMAIN ts |-> Is(e.tag[k], ts[k])])
    [] e.form = "option" -> OptionT(FirstOr(ts))
    [] e.form = "ok"     -> ResultT(<<ts[1]>>, <<Unknown>>)
    [] e.form = "err"    -> ResultT(<<Unknown>>, <<ts[1]>>)
    [] e.form = "range"  -> RangeT(ts[1], SubSeq(ts, 2, Len(ts)))

ControlType(e, ts) ==
  CASE e.form = "let"   -> UnitT
    [] e.form = "block" -> LastOr(ts)
    [] e.form = "for"   -> ListT(Unknown)
    [] OTHER            -> Unknown

Leaves     == {"number", "literal", "worker-name", "boolean", "flags", "identifier", "throw"}
Composites == {"list", "tuple", "record", "option", "ok", "err", "range"}
Controls   == {"let", "block", "for", "reduce", "cond", "match", "call", "invoke"}

FirstType(e, ts) ==
  CASE e.form \in Leaves     -> LeafType(e)
    [] e.form \in Composites -> CompositeType(e, ts)
    [] e.form \in Controls   -> ControlType(e, ts)
    [] OTHER                 -> OperatorType(e)

-----------------------------------------------------------------------------
(***************************************************************************)
(* lower: parts get their index before the node they are parts of, an      *)
(* arm's pattern before its result.                                        *)
(***************************************************************************)
Empty == [nodes |-> <<>>, types |-> <<>>, fault |-> ""]

Alloc(a, node, type) == [a EXCEPT !.nodes = Append(@, node), !.types = Append(@, type)]

\* The error a pass returns, by the name of the pass; a later one changes nothing.
Failing(a, pass) == IF a.fault = "" THEN [a EXCEPT !.fault = pass] ELSE a
Failed(a) == a.fault # ""

RECURSIVE Lower(_, _), LowerEach(_, _, _), LowerArms(_, _, _, _), LowerPattern(_, _), LowerParts(_, _, _)

\* The types of the parts of a node about to be allocated.
PartTypes(a, ids) == [k \in DOMAIN ids |-> a.types[ids[k]]]

\* <<arena, index>>
Lower(a, e) ==
  LET r    == IF e.form = "match" THEN LowerArms(a, e, <<>>, <<>>) ELSE LowerEach(a, e.args, <<>>)
      node == IF e.form = "match" THEN [e EXCEPT !.args = r[2], !.pats = r[3]]
              ELSE [e EXCEPT !.args = r[2]]
  IN  <<Alloc(r[1], node, FirstType(e, PartTypes(r[1], r[2]))), Len(r[1].nodes) + 1>>

\* <<arena, indexes>>
LowerEach(a, es, ids) ==
  IF es = <<>> THEN <<a, ids>>
  ELSE LET r == Lower(a, Head(es)) IN LowerEach(r[1], Tail(es), Append(ids, r[2]))

\* The predicate, then pattern and result of each arm: <<arena, indexes, patterns>>
LowerArms(a, e, ids, pats) ==
  IF Len(ids) = Len(e.args) THEN <<a, ids, pats>>
  ELSE IF ids = <<>> THEN LET r == Lower(a, e.args[1]) IN LowerArms(r[1], e, <<r[2]>>, pats)
  ELSE LET p == LowerPattern(a, e.pats[Len(ids)])
           r == Lower(p[1], e.args[Len(ids) + 1])
       IN  LowerArms(r[1], e, Append(ids, r[2]), Append(pats, p[2]))

LowerPattern(a, p) ==
  IF p.form = "literal"
  THEN LET r == Lower(a, p.lit[1]) IN <<r[1], [p EXCEPT !.lit = <<r[2]>>]>>
  ELSE LET r == LowerParts(a, p.parts, <<>>) IN <<r[1], [p EXCEPT !.parts = r[2]]>>

LowerParts(a, ps, done) ==
  IF ps = <<>> THEN <<a, done>>
  ELSE LET r == LowerPattern(a, Head(ps)) IN LowerParts(r[1], Tail(ps), Append(done, r[2]))

-----------------------------------------------------------------------------
(***************************************************************************)
(* children_of and the orders the passes visit the nodes in.               *)
(***************************************************************************)
RECURSIVE LiteralsOf(_), LiteralsOfEach(_)
LiteralsOf(p) == IF p.form = "literal" THEN p.lit ELSE LiteralsOfEach(p.parts)
LiteralsOfEach(ps) == IF ps = <<>> THEN <<>> ELSE LiteralsOf(Head(ps)) \o LiteralsOfEach(Tail(ps))

RECURSIVE ArmChildren(_, _)
ArmChildren(pats, results) ==
  IF pats = <<>> THEN <<>>
  ELSE LiteralsOf(Head(pats)) \o <<Head(results)>> \o ArmChildren(Tail(pats), Tail(results))

ChildrenOf(nodes, id) ==
  LET n == nodes[id]
  IN  IF n.form = "match" THEN <<n.args[1]>> \o ArmChildren(n.pats, Tail(n.args)) ELSE n.args

RECURSIVE PreOrder(_, _), PreOrderEach(_, _), PostOrder(_, _), PostOrderEach(_, _)
PreOrder(nodes, id) == <<id>> \o PreOrderEach(nodes, ChildrenOf(nodes, id))
PreOrderEach(nodes, ids) ==
  IF ids = <<>> THEN <<>> ELSE PreOrder(nodes, Head(ids)) \o PreOrderEach(nodes, Tail(ids))

PostOrder(nodes, id) == Append(PostOrderEach(nodes, ChildrenOf(nodes, id)), id)
PostOrderEach(nodes, ids) ==
  IF ids = <<>> THEN <<>> ELSE PostOrder(nodes, Head(ids)) \o PostOrderEach(nodes, Tail(ids))

Backwards(ids) == Seqs!Reverse(ids)

-----------------------------------------------------------------------------
(***************************************************************************)
(* rebuild_expr: the tree again, each node with the type it has by now.    *)
(***************************************************************************)
RECURSIVE Rebuild(_, _), RebuildEach(_, _), RebuildPattern(_, _), RebuildParts(_, _)
Rebuild(a, id) ==
  LET n == a.nodes[id]
  IN  [form |-> n.form, tag |-> n.tag, type |-> a.types[id],
       args |-> RebuildEach(a, n.args), pats |-> RebuildParts(a, n.pats)]

RebuildEach(a, ids) ==
  IF ids = <<>> THEN <<>> ELSE <<Rebuild(a, Head(ids))>> \o RebuildEach(a, Tail(ids))

RebuildPattern(a, p) ==
  [p EXCEPT !.lit = RebuildEach(a, p.lit), !.parts = RebuildParts(a, p.parts)]

RebuildParts(a, ps) ==
  IF ps = <<>> THEN <<>> ELSE <<RebuildPattern(a, Head(ps))>> \o RebuildParts(a, Tail(ps))

===============================================================================
