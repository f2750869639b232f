------------------------------ MODULE RibCalls ------------------------------
(***************************************************************************)
(* The passes that decide what is called: instances of workers and         *)
(* resources, constructors of variants and enums, functions bound to the   *)
(* component; and the one that gives the types of a signature to a call.   *)
(***************************************************************************)
EXTENDS RibScope, TLC

CallOf(n, kind) == n.form = "call" /\ n.tag.key.kind = kind
CallNamed(key, args) == Term("call", Callee(key, TRUE), args)

\* The node and the type at id become these.
Become(a, id, node, type) == [a EXCEPT !.nodes[id] = node, !.types[id] = type]

-----------------------------------------------------------------------------
(***************************************************************************)
(* identify_instance_creation: `instance` is a call's name, no variable's. *)
(***************************************************************************)
IsReserved(n) ==
  \/ n.form = "let" /\ n.tag.name = "instance"
  \/ n.form = "identifier" /\ n.tag = Global("instance")

MakesInstance(n) == CallOf(n, "function") /\ n.tag.key.name = "instance"

IdentifyInstances(a, root) ==
  LET ids  == Under(a.nodes, root)
      made == {id \in ids : MakesInstance(a.nodes[id])}
  IN  IF \E id \in ids : IsReserved(a.nodes[id]) THEN Failing(a, "instances")
      ELSE [a EXCEPT
             !.nodes = [id \in DOMAIN @ |->
               IF id \in made THEN [@[id] EXCEPT !.tag.key.kind = "worker"] ELSE @[id]],
             !.types = [id \in DOMAIN @ |-> IF id \in made THEN WorkerT ELSE @[id]]]

(***************************************************************************)
(* ensure_stateful_instance: a worker with no name gets a generated one.   *)
(***************************************************************************)
RECURSIVE NameWorkers(_, _)
NameWorkers(a, order) ==
  IF order = <<>> THEN a
  ELSE LET n == a.nodes[Head(order)]
       IN  NameWorkers(
             IF CallOf(n, "worker") /\ n.args = <<>>
             THEN [Alloc(a, Term("worker-name", "", <<>>), Text)
                     EXCEPT !.nodes[Head(order)].args = <<Len(a.nodes) + 1>>]
             ELSE a,
             Tail(order))

\* For the run that checks TypeOK: the generated names get no type.
EnsureStatefulUntyped(a, root) == [NameWorkers(a, PreOrder(a.nodes, root)) EXCEPT !.types = a.types]

EnsureStateful(a, root) == NameWorkers(a, PreOrder(a.nodes, root))

-----------------------------------------------------------------------------
(***************************************************************************)
(* infer_variants_lowered, infer_enums: a name that is no local variable's *)
(* and is a case's, whatever else it could be, means the case.             *)
(***************************************************************************)
MayBeCase(n) == n.form = "identifier" /\ n.tag.bound # "local"

VariantsMeant(dict, n) ==
  IF MayBeCase(n) THEN VariantInfo(dict, n.tag.name)
  ELSE IF CallOf(n, "function") THEN VariantInfo(dict, n.tag.key.name)
  ELSE <<>>

EnumMeant(dict, n) ==
  IF MayBeCase(n) /\ EnumInfo(dict, n.tag.name) # <<>>
  THEN <<EnumInfo(dict, n.tag.name)[1]>> ELSE <<>>

NamedAs(n) == IF n.form = "call" THEN n.tag.key.name ELSE n.tag.name

\* Every node becomes the call of the case it means, if any.
WithCases(a, kind, meant) ==
  LET cases == {id \in DOMAIN meant : meant[id] # <<>>}
      TypeAt(id) == IF Len(meant[id]) = 1 THEN meant[id][1] ELSE AllOf(meant[id])
  IN  [a EXCEPT
         !.nodes = [id \in DOMAIN @ |->
           IF id \in cases
           THEN [@[id] EXCEPT !.form = "call", !.tag = Callee(Key(kind, "", "", NamedAs(a.nodes[id])), TRUE)]
           ELSE @[id]],
         !.types = [id \in DOMAIN @ |-> IF id \in cases THEN Merge(@[id], TypeAt(id)) ELSE @[id]]]

InferVariants(dict, a, root) ==
  WithCases(a, "variant", [id \in Under(a.nodes, root) |-> VariantsMeant(dict, a.nodes[id])])
InferEnums(dict, a, root) ==
  WithCases(a, "enum", [id \in Under(a.nodes, root) |-> EnumMeant(dict, a.nodes[id])])

-----------------------------------------------------------------------------
(***************************************************************************)
(* bind_instance_types: a variable that is bound to an instance is one.    *)
(***************************************************************************)
RECURSIVE BindInstancesIn(_, _, _, _)
BindInstancesIn(nodes, types, order, bound) ==
  IF order = <<>> THEN types
  ELSE LET id == Head(order)
           n  == nodes[id]
       IN  CASE n.form = "let" /\ IsInstance(types[n.args[1]]) ->
                  BindInstancesIn(nodes, types, Tail(order), (n.tag :> types[n.args[1]]) @@ bound)
             [] n.form = "identifier" /\ n.tag \in DOMAIN bound ->
                  BindInstancesIn(nodes, [types EXCEPT ![id] = bound[n.tag]], Tail(order), bound)
             [] OTHER -> BindInstancesIn(nodes, types, Tail(order), bound)

BindInstances(a, root) ==
  [a EXCEPT !.types = BindInstancesIn(a.nodes, @, PreOrder(a.nodes, root), <<>>)]

-----------------------------------------------------------------------------
(***************************************************************************)
(* infer_function_invokes: what is invoked on an instance becomes a call.  *)
(***************************************************************************)
ReturnsHandle(entry) == entry.result # <<>> /\ entry.result[1].k = "resource"

CreateResource(dict, a, id, entry, lhs, args) ==
  LET made == ResourceInstance(dict, lhs, entry.key.of, entry.key.site)
  IN  IF made = <<>> \/ ~ ReturnsHandle(entry)
      THEN Failing(a, "invokes")
      ELSE Become(a, id, CallNamed([entry.key EXCEPT !.kind = "resource"], args), made[1])

SelectOnInstance(dict, a, id, lhs) ==
  LET found == FunctionIn(dict, lhs, a.nodes[id].tag)
  IN  IF found = <<>> THEN Failing(a, "invokes")
      ELSE IF found[1].key.kind = "constructor" THEN CreateResource(dict, a, id, found[1], lhs, <<>>)
      ELSE a

\* A resource returned by a method is taken to be a cart, whatever it is.
CallMethod(dict, a, id, entry, lhs, args) ==
  LET made   == ResourceInstance(dict, lhs, "cart", entry.key.site)
      called == CallNamed(entry.key, args)
  IN  IF ~ ReturnsHandle(entry) THEN Become(a, id, called, Unknown)
      ELSE IF made = <<>> THEN Failing(a, "invokes")
      ELSE Become(a, id, called, made[1])

InvokeOnInstance(dict, a, id, lhs) ==
  LET found == FunctionIn(dict, lhs, a.nodes[id].tag)
      args  == Tail(a.nodes[id].args)
      entry == found[1]
  IN  IF found = <<>> THEN Failing(a, "invokes")
      ELSE CASE entry.key.kind \in {"variant", "enum"}  -> a
             [] entry.key.kind = "function"             ->
                  [a EXCEPT !.nodes[id] = CallNamed(entry.key, args)]
             [] entry.key.kind = "constructor"          -> CreateResource(dict, a, id, entry, lhs, args)
             [] entry.key.kind \in {"method", "static"} -> CallMethod(dict, a, id, entry, lhs, args)

InvokeAt(dict, a, id) ==
  LET n   == a.nodes[id]
      lhs == a.types[n.args[1]]
  IN  CASE n.form = "select-field" /\ IsInstance(lhs) -> SelectOnInstance(dict, a, id, lhs)
        [] n.form = "invoke" /\ IsInstance(lhs)       -> InvokeOnInstance(dict, a, id, lhs)
        [] n.form = "invoke" /\ ~ IsInstance(lhs) /\ ~ IsUnknown(lhs) -> Failing(a, "invokes")
        [] OTHER -> a

\* Parts are met after the node: those it has become.
RECURSIVE InvokesFrom(_, _, _)
InvokesFrom(dict, a, stack) ==
  IF stack = <<>> \/ Failed(a) THEN a
  ELSE LET b == InvokeAt(dict, a, Head(stack))
       IN  InvokesFrom(dict, b, ChildrenOf(b.nodes, Head(stack)) \o Tail(stack))

InferInvokes(dict, a, root) == InvokesFrom(dict, a, <<root>>)

-----------------------------------------------------------------------------
(***************************************************************************)
(* infer_function_call_types.  The arguments of a call get the types of    *)
(* the parameters; calls within them are not met.                          *)
(***************************************************************************)
KindOf(t) ==
  IF IsNumber(t) THEN "number" ELSE IF t.k \in {"instance", "sequence"} THEN "unknown" ELSE t.k

\* A variant's cases are those of the parameter before anything is compared.
TagArgument(a, id, param) ==
  LET was == a.types[id]
      arg == IF param.k = "variant" /\ was.k = "variant" THEN [param EXCEPT !.d = was.d] ELSE was
  IN  IF IsUnknown(arg) \/ arg.k = "all-of" \/ KindOf(arg) = KindOf(param)
      THEN [a EXCEPT !.types[id] = Merge(arg, param)]
      ELSE Failing(a, "calls")

RECURSIVE TagArguments(_, _, _)
TagArguments(a, ids, params) ==
  IF ids = <<>> \/ Failed(a) THEN a
  ELSE TagArguments(TagArgument(a, Head(ids), Head(params)), Tail(ids), Tail(params))

\* The receiver of a method is no argument of the call.
Expected(entry) ==
  IF entry.key.kind \in {"method", "static"} /\ entry.params # <<>> /\ entry.params[1].k = "resource"
  THEN Tail(entry.params) ELSE entry.params

NoResult == Type("sequence", <<>>)
ResultOf(entry) == IF entry.result = <<>> THEN NoResult ELSE entry.result[1]

\* The name in the dictionary of what is called: creating a resource calls its constructor.
CalledKey(key) == IF key.kind = "resource" THEN [key EXCEPT !.kind = "constructor"] ELSE key

\* What the dictionary has for what is called.
EntryCalled(dict, key) == TypeOfFunction(dict, CalledKey(key))

NameArguments(types, ids) ==
  [id \in DOMAIN types |->
     IF id \in Seqs!ToSet(ids) /\ IsUnknown(types[id]) THEN Text ELSE types[id]]

SignatureOf(dict, a, id) ==
  LET n     == a.nodes[id]
      entry == EntryCalled(dict, n.tag.key)
      tagged == TagArguments(a, n.args, Expected(entry[1]))
  IN  IF entry = <<>> THEN Failing(a, "calls")
      ELSE IF Len(Expected(entry[1])) # Len(n.args) THEN Failing(a, "calls")
      ELSE IF Failed(tagged) \/ n.tag.key.kind = "resource" THEN tagged
      ELSE [tagged EXCEPT !.types[id] = ResultOf(entry[1])]

CallTypeAt(dict, a, id) ==
  LET n == a.nodes[id]
  IN  CASE n.tag.key.kind = "worker" -> [a EXCEPT !.types = NameArguments(@, n.args)]
        [] n.tag.key.kind = "enum"   -> IF n.args = <<>> THEN a ELSE Failing(a, "calls")
        [] OTHER                     -> SignatureOf(dict, a, id)

RECURSIVE CallTypesFrom(_, _, _)
CallTypesFrom(dict, a, stack) ==
  IF stack = <<>> \/ Failed(a) THEN a
  ELSE IF a.nodes[Head(stack)].form = "call"
  THEN CallTypesFrom(dict, CallTypeAt(dict, a, Head(stack)), Tail(stack))
  ELSE CallTypesFrom(dict, a, ChildrenOf(a.nodes, Head(stack)) \o Tail(stack))

InferCallTypes(dict, a, root) == CallTypesFrom(dict, a, <<root>>)

===============================================================================
