------------------------------ MODULE RibScope ------------------------------
(***************************************************************************)
(* The initial phase of inference, up to names: types the host states for  *)
(* global inputs, annotations, and which binder each identifier means.     *)
(* Every pass walks the whole tree once and rewrites the nodes in place.   *)
(***************************************************************************)
EXTENDS RibArena

IsIdentifier(nodes, id) == nodes[id].form = "identifier"
NameAt(nodes, id) == nodes[id].tag.name

\* The identifiers among ids with a name that means something now mean it.
Patched(nodes, ids, means) ==
  [k \in DOMAIN nodes |->
     IF k \in ids /\ IsIdentifier(nodes, k) /\ NameAt(nodes, k) \in DOMAIN means
     THEN [nodes[k] EXCEPT !.tag = means[NameAt(nodes, k)]]
     ELSE nodes[k]]

Under(nodes, id) == Seqs!ToSet(PreOrder(nodes, id))

-----------------------------------------------------------------------------
(***************************************************************************)
(* bind_global_variable_types: spec states the type of what is selected    *)
(* from an input by one field more than its path; with an empty path, of   *)
(* the input itself.  at: the path still to go (the input is its first     *)
(* step), and the last node on it.                                         *)
(***************************************************************************)
Stated(name, path, type) == [name |-> name, path |-> path, type |-> type]

Start(spec) == [left |-> <<spec.name>> \o spec.path, node |-> 0]
Rest(path)  == IF path = <<>> THEN <<>> ELSE Tail(path)

RECURSIVE BindGlobal(_, _, _, _, _)
BindGlobal(spec, nodes, types, order, at) ==
  IF order = <<>> THEN types
  ELSE LET id == Head(order)
           n  == nodes[id]
           Go(place) == BindGlobal(spec, nodes, types, Tail(order), place)
           Found == BindGlobal(spec, nodes, [types EXCEPT ![id] = spec.type], Tail(order),
                               Start(spec))
           OnPath == [left |-> Rest(at.left), node |-> id]
       IN  CASE n.form = "identifier" /\ n.tag = Global(spec.name) ->
                  IF spec.path = <<>> THEN Found ELSE Go(OnPath)
             [] n.form = "select-field" ->
                  IF at.node = 0 THEN Go(at)
                  ELSE IF n.args[1] # at.node THEN Go(Start(spec))
                  ELSE IF at.left = <<>> THEN Found
                  ELSE IF Head(at.left) = n.tag THEN Go(OnPath)
                  ELSE Go(Start(spec))
             [] OTHER -> Go(Start(spec))

RECURSIVE BindGlobals(_, _, _)
BindGlobals(specs, a, root) ==
  IF specs = <<>> THEN a
  ELSE BindGlobals(Tail(specs),
         [a EXCEPT !.types = BindGlobal(Head(specs), a.nodes, @, PostOrder(a.nodes, root),
                                      Start(Head(specs)))],
         root)

(***************************************************************************)
(* bind_type_annotations: the annotation of a let is the type of what it   *)
(* binds.  A parent's annotation is written before its child's.            *)
(***************************************************************************)
RECURSIVE Annotate(_, _, _)
Annotate(nodes, types, order) ==
  IF order = <<>> THEN types
  ELSE LET n  == nodes[Head(order)]
           at == IF n.form = "let" THEN n.args[1] ELSE Head(order)
       IN  Annotate(nodes, IF n.note = <<>> THEN types ELSE [types EXCEPT ![at] = n.note[1]],
                    Tail(order))

BindAnnotations(a, root) == [a EXCEPT !.types = Annotate(a.nodes, @, PreOrder(a.nodes, root))]

-----------------------------------------------------------------------------
(***************************************************************************)
(* bind_variables_of_list_comprehension, bind_variables_of_list_reduce.    *)
(***************************************************************************)
RECURSIVE ComprehensionsIn(_, _), ReductionsIn(_, _)
ComprehensionsIn(nodes, order) ==
  IF order = <<>> THEN nodes
  ELSE LET n == nodes[Head(order)]
       IN  ComprehensionsIn(
             IF n.form # "for" THEN nodes
             ELSE [Patched(nodes, Under(nodes, n.args[2]), [x \in {n.tag.name} |-> ItemVar(x)])
                     EXCEPT ![Head(order)].tag = ItemVar(n.tag.name)],
             Tail(order))

\* The tag of a reduction: the accumulator and the item.
ReductionsIn(nodes, order) ==
  IF order = <<>> THEN nodes
  ELSE LET n     == nodes[Head(order)]
           means == [x \in {n.tag[1].name, n.tag[2].name} |->
                       IF x = n.tag[2].name THEN ItemVar(x) ELSE AccVar(x)]
       IN  ReductionsIn(
             IF n.form # "reduce" THEN nodes
             ELSE [Patched(nodes, Under(nodes, n.args[3]), means) EXCEPT
                     ![Head(order)].tag = <<AccVar(n.tag[1].name), ItemVar(n.tag[2].name)>>],
             Tail(order))

BindItems(a, root)      == [a EXCEPT !.nodes = ComprehensionsIn(@, PreOrder(@, root))]
BindReductions(a, root) == [a EXCEPT !.nodes = ReductionsIn(@, PreOrder(@, root))]

-----------------------------------------------------------------------------
(***************************************************************************)
(* bind_variables_of_pattern_match.  Arms are numbered as they are met; a  *)
(* match within an arm is met once with the arm and again with the tree    *)
(* around it, when the binding of its own arms is the last to be written.  *)
(***************************************************************************)
RECURSIVE AliasesOf(_), AliasesOfEach(_)
AliasesOf(p) == (IF p.form = "as" THEN {p.tag} ELSE {}) \cup AliasesOfEach(p.parts)
AliasesOfEach(ps) == IF ps = <<>> THEN {} ELSE AliasesOf(Head(ps)) \cup AliasesOfEach(Tail(ps))

\* The identifiers within the literals of a pattern.
BoundBy(nodes, p) ==
  {id \in UNION {Under(nodes, l) : l \in Seqs!ToSet(LiteralsOf(p))} : IsIdentifier(nodes, id)}

RECURSIVE MatchesIn(_, _, _, _, _, _), BindArms(_, _, _, _)

\* names: what the arm bound; hidden: what a let has bound since.  <<nodes, index>>
MatchesIn(nodes, order, index, names, arm, hidden) ==
  IF order = <<>> THEN <<nodes, index>>
  ELSE LET id == Head(order)
           n  == nodes[id]
       IN  CASE n.form = "match" ->
                  LET r == BindArms(nodes, n.pats, Tail(n.args), index)
                  IN  MatchesIn(r[1], Tail(order), r[2], names, arm, hidden)
             [] n.form = "let" ->
                  MatchesIn(nodes, Tail(order), index, names, arm, hidden \cup {n.tag.name})
             [] n.form = "identifier" /\ n.tag.name \in names \ hidden ->
                  MatchesIn([nodes EXCEPT ![id].tag = MatchVar(n.tag.name, arm)],
                            Tail(order), index, names, arm, hidden)
             [] OTHER -> MatchesIn(nodes, Tail(order), index, names, arm, hidden)

BindArms(nodes, pats, results, index) ==
  IF pats = <<>> THEN <<nodes, index>>
  ELSE LET arm   == index + 1
           ids   == BoundBy(nodes, Head(pats))
           names == {NameAt(nodes, id) : id \in ids} \cup AliasesOf(Head(pats))
           bound == Patched(nodes, ids, [x \in names |-> MatchVar(x, arm)])
           r     == MatchesIn(bound, PreOrder(bound, Head(results)), arm, names, arm, {})
       IN  BindArms(r[1], Tail(pats), Tail(results), r[2])

BindMatches(a, root) == [a EXCEPT !.nodes = MatchesIn(@, PreOrder(@, root), 0, {}, 0, {})[1]]

-----------------------------------------------------------------------------
(***************************************************************************)
(* bind_variables_of_let_assignment: the lets of one name are numbered in  *)
(* the order they end; an identifier means the last one that has ended,    *)
(* whatever block it is in.  None: -1.                                     *)
(***************************************************************************)
RECURSIVE LetsIn(_, _, _)
LetsIn(nodes, order, latest) ==
  IF order = <<>> THEN nodes
  ELSE LET id == Head(order)
           n  == nodes[id]
           x  == n.tag.name
       IN  CASE n.form = "let" ->
                  LetsIn([nodes EXCEPT ![id].tag = Local(x, latest[x] + 1)], Tail(order),
                         [latest EXCEPT ![x] = @ + 1])
             [] /\ n.form = "identifier"
                /\ n.tag.bound # "match"
                /\ x \in DOMAIN latest
                /\ latest[x] >= 0 ->
                  LetsIn([nodes EXCEPT ![id].tag = Local(x, latest[x])], Tail(order), latest)
             [] OTHER -> LetsIn(nodes, Tail(order), latest)

\* For the run that checks BinderMeant: a let binds in its own value.
BindLetsEarly(a, root) ==
  LET lets == {k \in DOMAIN a.nodes : a.nodes[k].form = "let"}
  IN  [a EXCEPT !.nodes =
         LetsIn(@, PreOrder(@, root), [x \in {NameAt(a.nodes, k) : k \in lets} |-> -1])]

BindLets(a, root) ==
  LET lets == {k \in DOMAIN a.nodes : a.nodes[k].form = "let"}
  IN  [a EXCEPT !.nodes =
         LetsIn(@, PostOrder(@, root), [x \in {NameAt(a.nodes, k) : k \in lets} |-> -1])]

===============================================================================
