------------------------------- MODULE RibFlow -------------------------------
(***************************************************************************)
(* The passes that carry types through the tree, repeated until none       *)
(* changes: between the uses of a variable, down from an expression to its *)
(* parts, up from the parts, and between the uses of an input.             *)
(***************************************************************************)
EXTENDS RibCalls

(***************************************************************************)
(* TypeRefinement: a type is of a kind if all its alternatives are; what   *)
(* is inside it is then all of what is inside them.                        *)
(***************************************************************************)
Members(t) == Flattened(<<t>>)
OfKind(t, kind) == t.k = kind
Refines(t, kind) == \A k \in DOMAIN Members(t) : OfKind(Members(t)[k], kind)

AllOrOne(t, ts) == IF t.k = "all-of" THEN AllOf(ts) ELSE ts[1]

\* A side that a result does not have is unknown.
PartOr(t, name) ==
  IF HasPart(t, name) /\ TheirPart(t, name).t # <<>> THEN Only(TheirPart(t, name)) ELSE Unknown

\* get_inner_type, and inner_type_by_name of a record or a variant.
InnerOfOne(t, name) ==
  IF t.k \in {"record", "variant"} THEN AllOf(<<PartOr(t, name)>>) ELSE PartOr(t, name)
InnerType(t, name) == AllOrOne(t, [k \in DOMAIN Members(t) |-> InnerOfOne(Members(t)[k], name)])

RECURSIVE At(_, _)
At(ms, j) ==
  IF ms = <<>> THEN <<>>
  ELSE (IF j <= Len(Head(ms).parts) THEN <<Only(Head(ms).parts[j])>> ELSE <<>>) \o At(Tail(ms), j)

InnerTypes(t) ==
  IF t.k = "all-of" THEN [j \in DOMAIN Members(t)[1].parts |-> AllOf(At(Members(t), j))]
  ELSE TypesOf(t)

\* What a loop goes through, if it is a list or a range.
Iterable(t) == Refines(t, "list") \/ Refines(t, "range")
ElementType(t) == InnerType(t, IF Refines(t, "list") THEN "list" ELSE "from")

OnlyNumber(t) == \A k \in DOMAIN Members(t) : IsNumber(Members(t)[k])

MergeInto(types, id, t) == [types EXCEPT ![id] = Merge(@, t)]

RECURSIVE MergeIntoEach(_, _, _)
MergeIntoEach(types, ids, t) ==
  IF ids = <<>> THEN types ELSE MergeIntoEach(MergeInto(types, Head(ids), t), Tail(ids), t)

RECURSIVE MergeRespectively(_, _, _)
MergeRespectively(types, ids, ts) ==
  IF ids = <<>> \/ ts = <<>> THEN types
  ELSE MergeRespectively(MergeInto(types, Head(ids), Head(ts)), Tail(ids), Tail(ts))

-----------------------------------------------------------------------------
(***************************************************************************)
(* infer_all_identifiers.  A variable's uses are merged as they are met,   *)
(* from the last to the first and then from the first to the last.         *)
(***************************************************************************)
Seen(known, v, t) == (v :> IF v \in DOMAIN known THEN Merge(known[v], t) ELSE t) @@ known

RECURSIVE ShareTypes(_, _, _, _)
ShareTypes(nodes, types, order, known) ==
  IF order = <<>> THEN types
  ELSE LET n  == nodes[Head(order)]
           at == IF n.form = "let" THEN n.args[1] ELSE Head(order)
           t  == IF n.tag \in DOMAIN known THEN Merge(types[at], known[n.tag]) ELSE types[at]
       IN  IF n.form \notin {"identifier", "let"} THEN ShareTypes(nodes, types, Tail(order), known)
           ELSE ShareTypes(nodes, [types EXCEPT ![at] = t], Tail(order), Seen(known, n.tag, t))

RECURSIVE PostOrders(_, _)
PostOrders(nodes, ids) ==
  IF ids = <<>> THEN <<>> ELSE PostOrder(nodes, Head(ids)) \o PostOrders(nodes, Tail(ids))

\* What is known of the variables in the literals of a pattern.
RECURSIVE KnownIn(_, _, _, _)
KnownIn(nodes, types, order, known) ==
  IF order = <<>> THEN known
  ELSE LET id == Head(order)
       IN  KnownIn(nodes, types, Tail(order),
             IF IsIdentifier(nodes, id) /\ ~ IsUnknown(types[id])
             THEN Seen(known, nodes[id].tag, types[id]) ELSE known)

TellArm(nodes, types, result, known) ==
  [id \in DOMAIN types |->
     IF /\ id \in Under(nodes, result)
        /\ IsIdentifier(nodes, id)
        /\ nodes[id].tag.bound = "match"
        /\ nodes[id].tag \in DOMAIN known
     THEN Merge(types[id], known[nodes[id].tag])
     ELSE types[id]]

RECURSIVE TellArms(_, _, _, _), TellMatches(_, _, _)
TellArms(nodes, types, pats, results) ==
  IF pats = <<>> THEN types
  ELSE LET known == KnownIn(nodes, types, PostOrders(nodes, LiteralsOf(Head(pats))), <<>>)
       IN  TellArms(nodes, TellArm(nodes, types, Head(results), known), Tail(pats), Tail(results))

TellMatches(nodes, types, order) ==
  IF order = <<>> THEN types
  ELSE LET n == nodes[Head(order)]
       IN  TellMatches(nodes,
             IF n.form = "match" THEN TellArms(nodes, types, n.pats, Tail(n.args)) ELSE types,
             Tail(order))

\* The three parts of the pass.
ShareBack(a, root)  == [a EXCEPT !.types = ShareTypes(a.nodes, @, Backwards(PostOrder(a.nodes, root)), <<>>)]
ShareForth(a, root) == [a EXCEPT !.types = ShareTypes(a.nodes, @, PreOrder(a.nodes, root), <<>>)]
ShareArms(a, root)  == [a EXCEPT !.types = TellMatches(a.nodes, @, Backwards(PostOrder(a.nodes, root)))]

-----------------------------------------------------------------------------
(***************************************************************************)
(* push_types_down: what an expression is used as, its parts are used for. *)
(***************************************************************************)
RECURSIVE PushPattern(_, _, _), PushPatterns(_, _, _)

\* The part of the matched type that part k of a pattern is for.
PartFor(p, k) ==
  CASE p.form = "constructor" -> IF p.tag = "none" THEN "some" ELSE p.tag
    [] p.form = "list"        -> "list"
    [] p.form = "record"      -> p.tag[k]

Matches(p, t) ==
  CASE p.form = "constructor" -> /\ p.tag \in {"some", "none"} => Refines(t, "option")
                                 /\ p.tag \in {"ok", "err"} => Refines(t, "result")
    [] p.form = "tuple" -> Refines(t, "tuple") /\ Len(p.parts) = Len(InnerTypes(t))
    [] OTHER            -> Refines(t, p.form)

\* What no refinement is asked of may be of any kind: nothing is known of its parts.
Inners(p, t) ==
  IF p.form = "tuple" THEN InnerTypes(t)
  ELSE IF p.form = "constructor" /\ p.tag \notin {"some", "none", "ok", "err"} /\ ~ Refines(t, "variant")
  THEN [k \in DOMAIN p.parts |-> Unknown]
  ELSE [k \in DOMAIN p.parts |-> InnerType(t, PartFor(p, k))]

PushPattern(a, p, t) ==
  CASE p.form = "literal" -> [a EXCEPT !.types = MergeInto(@, p.lit[1], t)]
    [] p.form = "as"      -> PushPattern(a, p.parts[1], t)
    [] p.form = "any"     -> a
    [] OTHER -> IF Matches(p, t) THEN PushPatterns(a, p.parts, Inners(p, t)) ELSE Failing(a, "push")

PushPatterns(a, ps, ts) ==
  IF ps = <<>> \/ Failed(a) THEN a
  ELSE PushPatterns(PushPattern(a, Head(ps), Head(ts)), Tail(ps), Tail(ts))

\* Each arm after the one before: its pattern, then its result.
RECURSIVE PushArms(_, _, _, _, _)
PushArms(a, pats, results, matched, t) ==
  IF pats = <<>> \/ Failed(a) THEN a
  ELSE LET b == PushPattern(a, Head(pats), matched)
       IN  PushArms([b EXCEPT !.types = MergeInto(@, Head(results), t)], Tail(pats), Tail(results),
                    matched, t)

\* The uses of a loop's variables in its body; types has what is known of each.
PushVariables(a, body, types) ==
  [a EXCEPT !.types = [id \in DOMAIN @ |->
     IF id \in Under(a.nodes, body) /\ IsIdentifier(a.nodes, id) /\ a.nodes[id].tag \in DOMAIN types
     THEN Merge(@[id], types[a.nodes[id].tag]) ELSE @[id]]]

\* What a loop goes through is a list or a range, once anything is known of it.
LoopsOver(t) == IsUnknown(t) \/ Iterable(t)

PushFor(a, n, t) ==
  LET over == a.types[n.args[1]]
      b    == IF IsUnknown(over) THEN a ELSE PushVariables(a, n.args[2], n.tag :> ElementType(over))
  IN  IF ~ Refines(t, "list") \/ ~ LoopsOver(over) THEN Failing(a, "push")
      ELSE [b EXCEPT !.types = MergeInto(@, n.args[2], InnerType(t, "list"))]

\* The accumulator has the type of its first value.
PushReduce(a, n, t) ==
  LET over  == a.types[n.args[1]]
      types == n.tag[1] :> a.types[n.args[2]] @@ n.tag[2] :> ElementType(over)
      b     == IF IsUnknown(over) THEN a ELSE PushVariables(a, n.args[3], types)
  IN  IF ~ LoopsOver(over) THEN Failing(a, "push")
      ELSE [b EXCEPT !.types = MergeIntoEach(@, <<n.args[3], n.args[2]>>, t)]

\* For the run that checks OnlyLearns: an operand is used as the other only.
PushOperandsOver(types, l, r, t) ==
  LET left == [types EXCEPT ![l] = Merge(types[r], t)]
  IN  [left EXCEPT ![r] = Merge(types[l], t)]

\* Both operands are used as each other and as the result.
PushOperands(types, l, r, t) ==
  LET left == [types EXCEPT ![l] = Merge(Merge(@, types[r]), t)]
  IN  [left EXCEPT ![r] = Merge(Merge(@, types[l]), t)]

PushControl(a, n, t) ==
  CASE n.form = "cond"   -> [a EXCEPT !.types = MergeInto(MergeIntoEach(@, Tail(n.args), t), n.args[1], Bool)]
    [] n.form = "match"  -> PushArms(a, n.pats, Tail(n.args), a.types[n.args[1]], t)
    [] n.form = "for"    -> PushFor(a, n, t)
    [] n.form = "reduce" -> PushReduce(a, n, t)
    [] CallOf(n, "variant") /\ t.k = "variant" ->
         [a EXCEPT !.types = MergeIntoEach(@, n.args, PartOr(t, n.tag.key.name))]
    [] OTHER -> a

PushSelection(a, n, t) ==
  LET whole == CASE n.form = "select-field" -> RecordT(<<Is(n.tag, t)>>)
                 [] n.form = "select-index" /\ a.types[n.args[2]].k = "range" -> t
                 [] n.form = "select-index" /\ a.types[n.args[2]].k # "range" -> ListT(t)
  IN  [a EXCEPT !.types = MergeInto(@, n.args[1], whole)]

KindBuilt(n) == IF n.form \in {"ok", "err"} THEN "result" ELSE n.form

PartBuilt(n, k) ==
  CASE n.form = "option" -> "some"
    [] n.form = "record" -> n.tag[k]
    [] OTHER             -> n.form

InnersBuilt(n, t) ==
  IF n.form = "tuple" THEN InnerTypes(t) ELSE [k \in DOMAIN n.args |-> InnerType(t, PartBuilt(n, k))]

\* `none` has no part to push to.
PushComposite(a, n, t) ==
  IF n.form = "option" /\ n.args = <<>> THEN a
  ELSE IF ~ Refines(t, KindBuilt(n)) THEN Failing(a, "push")
  ELSE [a EXCEPT !.types = MergeRespectively(@, n.args, InnersBuilt(n, t))]

PushAt(a, id) ==
  LET n == a.nodes[id]
      t == a.types[id]
  IN  CASE n.form \in {"select-field", "select-index"} -> PushSelection(a, n, t)
        [] n.form \in Composites \ {"range"} -> PushComposite(a, n, t)
        [] n.form \in Arithmetic ->
             [a EXCEPT !.types = PushOperands(@, n.args[1], n.args[2], t)]
        [] n.form = "not" -> [a EXCEPT !.types = MergeInto(@, n.args[1], t)]
        [] OTHER -> PushControl(a, n, t)

RECURSIVE PushEach(_, _)
PushEach(a, order) ==
  IF order = <<>> \/ Failed(a) THEN a ELSE PushEach(PushAt(a, Head(order)), Tail(order))

PushDown(a, root) == PushEach(a, PreOrder(a.nodes, root))

-----------------------------------------------------------------------------
(***************************************************************************)
(* pull_types_up: what the parts are, the expression is made of.           *)
(***************************************************************************)
PullSelection(a, id, n) ==
  LET from   == a.types[n.args[1]]
      needed == IF n.form = "select-field" THEN "record" ELSE "list"
      inner  == InnerType(from, IF n.form = "select-field" THEN n.tag ELSE "list")
      found  == IF n.form = "select-field" \/ OnlyNumber(a.types[n.args[2]]) THEN inner ELSE ListT(inner)
  IN  IF n.form = "select-index" /\ IsUnknown(from) THEN a
      ELSE IF ~ Refines(from, needed) THEN Failing(a, "pull")
      ELSE [a EXCEPT !.types = MergeInto(@, id, found)]

\* A method of a value that is a resource handle, not an instance.
PullInvoke(dict, a, id, n) ==
  LET lhs   == a.types[n.args[1]]
      entry == TypeOfFunction(dict, Key("method", NamesOf(lhs)[2], NamesOf(lhs)[1], n.tag))
  IN  IF lhs.k # "resource" THEN Failing(a, "pull")
      ELSE IF entry = <<>> THEN Failing(a, "panic")
      ELSE Become(a, id, CallNamed(entry[1].key, Tail(n.args)),
                  IF entry[1].result = <<>> THEN UnitT ELSE entry[1].result[1])

\* What a node's parts, of types ts, say of the node.
MadeOf(n, ts) ==
  CASE n.form = "tuple"  -> TupleT(ts)
    [] n.form = "ok"     -> ResultT(ts, <<>>)
    [] n.form = "err"    -> ResultT(<<>>, ts)
    [] n.form = "option" -> OptionT(ts[1])
    [] n.form = "list"   -> ListT(ts[1])
    [] n.form = "record" -> RecordT([k \in DOMAIN ts |-> Is(n.tag[k], ts[k])])
    [] n.form = "cond"   -> Merge(ts[2], ts[3])
    [] n.form = "match"  -> AllOf(Tail(ts))
    [] n.form = "block"  -> LastOr(ts)
    [] n.form = "for"    -> ListT(ts[2])
    [] n.form = "reduce" -> ts[2]

PullAt(dict, a, id) ==
  LET n  == a.nodes[id]
      ts == PartTypes(a, n.args)
  IN  CASE n.form \in {"select-field", "select-index"} -> PullSelection(a, id, n)
        [] n.form = "invoke" -> PullInvoke(dict, a, id, n)
        [] n.form = "range"  -> [a EXCEPT !.types[id] = RangeT(ts[1], Tail(ts))]
        [] n.form \in Arithmetic -> [a EXCEPT !.types[id] = Merge(Merge(@, ts[1]), ts[2])]
        [] /\ n.form \in (Composites \cup Controls) \ {"range", "let", "call", "invoke"}
           /\ n.args # <<>> \/ n.form \in {"tuple", "record"} ->
             [a EXCEPT !.types = MergeInto(@, id, MadeOf(n, ts))]
        [] OTHER -> a

RECURSIVE PullEach(_, _, _)
PullEach(dict, a, order) ==
  IF order = <<>> \/ Failed(a) THEN a
  ELSE PullEach(dict, PullAt(dict, a, Head(order)), Tail(order))

PullUp(dict, a, root) == PullEach(dict, a, PostOrder(a.nodes, root))

-----------------------------------------------------------------------------
(***************************************************************************)
(* infer_global_inputs: every use of an input has the types of all.        *)
(***************************************************************************)
Distinct(ts, t) == IF \E k \in DOMAIN ts : Same(ts[k], t) THEN ts ELSE Append(ts, t)

RECURSIVE TypesOfInput(_, _, _, _)
TypesOfInput(a, v, order, ts) ==
  IF order = <<>> THEN ts
  ELSE TypesOfInput(a, v, Tail(order),
         IF IsIdentifier(a.nodes, Head(order)) /\ a.nodes[Head(order)].tag = v
         THEN Distinct(ts, a.types[Head(order)]) ELSE ts)

InferInputs(a, root) ==
  LET order == PreOrder(a.nodes, root)
      uses  == {id \in Seqs!ToSet(order) :
                  IsIdentifier(a.nodes, id) /\ a.nodes[id].tag.bound = "global"}
      all   == [v \in {a.nodes[id].tag : id \in uses} |-> AllOf(TypesOfInput(a, v, order, <<>>))]
  IN  [a EXCEPT !.types = [id \in DOMAIN @ |-> IF id \in uses THEN all[a.nodes[id].tag] ELSE @[id]]]

-----------------------------------------------------------------------------
(***************************************************************************)
(* type_inference_fix_point ends with the first scan that changes no type. *)
(***************************************************************************)
\* For the run that checks ComesToRest: scans until nothing is unknown.
UnchangedAndKnown(before, types) ==
  DOMAIN before = DOMAIN types
    /\ \A id \in DOMAIN types : Same(before[id], types[id]) /\ ~ IsUnknown(types[id])

Unchanged(before, types) ==
  /\ DOMAIN before = DOMAIN types
  /\ \A id \in DOMAIN types : Same(before[id], types[id])

===============================================================================
